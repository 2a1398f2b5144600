------------------------ MODULE ExecutionStageProofs ------------------------
(***************************************************************************)
(* Proofs about ExecutionStage, for every set of doors, policies, bounds   *)
(* and starting rung.                                                      *)
(***************************************************************************)
EXTENDS ExecutionStage, FiniteSetTheorems, TLAPS

-----------------------------------------------------------------------------
(* What the rules return.                                                  *)

\* The tip of a chain is one of its records.
LEMMA TipType ==
  ASSUME NEW rows \in Seq(Records), rows # <<>>
  PROVE  Tip(rows) \in Records
  BY DEF Tip

\* Resolve names a record it was given, and a valid status names one.
LEMMA ResolveType ==
  ASSUME NEW rows \in Seq(Records), NEW anc \in Seq(Records),
         NEW mir \in Records \cup {NoRecord}, NEW ask, NEW pol, NEW t
  PROVE  LET st == Resolve(rows, anc, mir, ask, pol, t) IN
         /\ st.rec \in Records \cup {NoRecord}
         /\ st.reason \in Reasons
         /\ st.valid \in BOOLEAN
         /\ st.valid => st.rec \in Records /\ st.stage = st.rec.stage
         /\ st.valid => rows # <<>> /\ AnchorProblem(rows, anc) = "OK" /\ st.rec = Tip(rows)
         /\ st.stage \in LADDER
         /\ st.stage # READ_ONLY => /\ AnchorProblem(rows, anc) = "OK"
                                    /\ st.stage = Tip(rows).stage
<1> DEFINE why == Reason(rows, anc, mir, ask, pol, t)
<1>1. why \in Reasons
  <2>1. AnchorProblem(rows, anc) \in Reasons
    BY DEF AnchorProblem, Reasons
  <2>2. CASE rows = <<>> \/ ~Verifies(rows)
    BY <2>2 DEF Reason, Reasons
  <2>3. CASE rows # <<>> /\ Verifies(rows)
    BY <2>1, <2>3 DEF Reason, Reasons
  <2> QED
    BY <2>2, <2>3
<1>2. why = "OK" => /\ rows # <<>> /\ Verifies(rows)
                    /\ AnchorProblem(rows, anc) = "OK"
  BY DEF Reason, AnchorProblem
<1>3. NamedRecord(rows, mir) \in Records \cup {NoRecord}
  BY TipType DEF NamedRecord
<1>4. why = "OK" => NamedRecord(rows, mir) = Tip(rows) /\ Tip(rows) \in Records
  BY <1>2, TipType DEF NamedRecord
<1>5. /\ \A r \in Records : r.stage \in LADDER
      /\ READ_ONLY \in LADDER
  BY DEF Records, LADDER, READ_ONLY, LIVE_SCALED
<1> QED
  BY <1>1, <1>2, <1>3, <1>4, <1>5 DEF Resolve

\* What Resolve returns, as the planning rules use it.
Statuses == {st \in [stage : LADDER, reason : Reasons, valid : BOOLEAN,
                     rec : Records \cup {NoRecord}, present : BOOLEAN,
                     behind : BOOLEAN] :
               st.valid => st.rec \in Records /\ st.stage = st.rec.stage}

LEMMA StatusType ==
  ASSUME NEW rows \in Seq(Records), NEW anc \in Seq(Records),
         NEW mir \in Records \cup {NoRecord}, NEW ask, NEW pol, NEW t
  PROVE  Resolve(rows, anc, mir, ask, pol, t) \in Statuses
<1> DEFINE st == Resolve(rows, anc, mir, ask, pol, t)
<1>1. st \in [stage : LADDER, reason : Reasons, valid : BOOLEAN,
              rec : Records \cup {NoRecord}, present : BOOLEAN, behind : BOOLEAN]
  <2>1. st.stage \in LADDER
    BY ResolveType DEF Records, LADDER, READ_ONLY, LIVE_SCALED
  <2> QED
    BY <2>1, ResolveType DEF Resolve
<1> QED
  BY <1>1, ResolveType DEF Statuses

\* plan_transition yields a content of the approved kind, or refuses.
LEMMA PlanType ==
  ASSUME NEW st \in Statuses, NEW target \in LADDER, NEW pol \in Policies,
         NEW done \in BOOLEAN
  PROVE  Plan(st, target, pol, done) \in Contents \cup {NoContent}
<1>1. st.valid => st.rec.stage \in LADDER
  BY DEF Statuses, Records
<1>2. st.rec \in Records \cup {NoRecord} /\ st.reason \in Reasons
  BY DEF Statuses
<1> DEFINE onto(trans, from, why) ==
             [trans |-> trans, from |-> from, to |-> target, ref |-> st.rec,
              policy |-> pol, why |-> why]
<1>3. \A trans \in Transitions, from \in LADDER \cup {NONE}, why \in Reasons \cup {""} :
        onto(trans, from, why) \in Contents
  BY <1>2 DEF Contents
<1>4. Binding(st) => onto("CLIMB", st.rec.stage, "") \in Contents
  BY <1>1, <1>3 DEF Binding, Transitions
<1>5. onto("REBIND", target, st.reason) \in Contents
  BY <1>2, <1>3 DEF Transitions
<1>6. /\ onto("BOOTSTRAP", NONE, st.reason) \in Contents
      /\ onto("BOOTSTRAP", NONE, "") \in Contents
  BY <1>2, <1>3 DEF Transitions
<1> QED
  BY <1>4, <1>5, <1>6 DEF Plan

\* record_from_approved writes a record effective at its own second.
LEMMA RecordType ==
  ASSUME NEW content \in Contents, NEW a \in Nat, NEW st, NEW pol,
         NEW done, NEW t \in Nat
  PROVE  LET r == RecordFromApproved(content, a, st, pol, done, t) IN
         r # NoRecord => r \in Records /\ r.eff = t
BY DEF RecordFromApproved, Contents, Records

\* and so does demote_record.
LEMMA DemoteType ==
  ASSUME NEW st \in Statuses, NEW target \in LADDER, NEW t \in Nat
  PROVE  LET r == DemoteRecord(st, target, t) IN
         r # NoRecord => r \in Records /\ r.eff = t
<1>1. /\ st.rec.stage \in LADDER \cup {NONE}
      /\ st.valid => st.rec \in Records
  BY DEF Statuses, Records, NoRecord
<1> DEFINE lowered(prev, approval, pol) ==
             [stage |-> target, prev |-> prev, trans |-> "DEMOTE",
              approval |-> approval, policy |-> pol, eff |-> t]
<1>2. \A prev \in LADDER \cup {NONE}, a \in Nat, pol \in Policies \cup {NoPolicy} :
        lowered(prev, a, pol) \in Records /\ lowered(prev, a, pol).eff = t
  BY DEF Records, Transitions
<1>3. /\ lowered(NONE, 0, NoPolicy) \in Records
      /\ lowered(st.rec.stage, 0, NoPolicy) \in Records
  BY <1>1, <1>2
<1>4. Binding(st) => lowered(st.rec.stage, st.rec.approval, st.rec.policy) \in Records
  BY <1>1, <1>2 DEF Binding, Records
<1> QED
  BY <1>2, <1>3, <1>4 DEF DemoteRecord

-----------------------------------------------------------------------------
(* Types and the stage lock.                                               *)

\* The rungs a machine starts from are typed, and its rows are in the past.
LEMMA FoundingType ==
  ASSUME policy \in Policies
  PROVE  /\ Founding \in Seq(Records)
         /\ Len(Founding) \in 0 .. MaxTime
         /\ \A i \in 1 .. Len(Founding) : Founding[i].eff = i
         /\ \A i \in 1 .. Len(Founding) : i \in Times /\ FoundingAsk(i) \in Asks
         /\ Founding # <<>> => Tip(Founding).stage = StartRung
         /\ Founding = <<>> => StartRung = READ_ONLY
         /\ StartRung \in LADDER
<1> DEFINE n == IF StartRung = READ_ONLY THEN 0 ELSE StartRung - 1
<1> USE DEF READ_ONLY, SHADOW, PAPER, LIVE_AUTONOMOUS
<1>1. /\ n \in 0 .. MaxTime /\ n \in 0 .. 3
      /\ StartRung \in LADDER
      /\ n # 0 => n + 1 = StartRung
      /\ n = 0 => StartRung = READ_ONLY
  BY BoundAssumption DEF LADDER, LIVE_SCALED
<1>2. \A i \in 1 .. n : /\ FoundingRow(i) \in Records
                        /\ FoundingRow(i).eff = i
                        /\ FoundingRow(i).stage = i + 1
  BY <1>1 DEF FoundingRow, Records, LADDER, NONE, LIVE_SCALED, Transitions
<1>3. /\ Founding \in Seq(Records) /\ Len(Founding) = n
      /\ \A i \in 1 .. n : Founding[i] = FoundingRow(i)
  <2>1. Founding = [i \in 1 .. n |-> FoundingRow(i)]
    BY DEF Founding
  <2> HIDE DEF n
  <2> QED
    BY <1>1, <1>2, <2>1
<1> HIDE DEF n
<1>4. \A i \in 1 .. n : FoundingAsk(i) \in Asks
  <2> TAKE i \in 1 .. n
  <2>1. Founding[i] \in Records
    BY <1>2, <1>3
  <2>2. i # 1 => i - 1 \in 1 .. n /\ Founding[i-1] \in Records
    BY <1>1, <1>2, <1>3
  <2>3. FoundingAsk(i).content \in Contents
    BY <2>1, <2>2 DEF FoundingAsk, Contents, Records
  <2>4. FoundingAsk(i) = [status |-> "CONSUMED", consumedAt |-> i,
                          content |-> FoundingAsk(i).content]
    BY DEF FoundingAsk
  <2> QED
    BY <1>1, <2>3, <2>4 DEF Asks
<1>5. Founding # <<>> => n # 0 /\ Tip(Founding).stage = StartRung
  BY <1>1, <1>2, <1>3 DEF Tip
<1>6. Founding = <<>> => n = 0
  BY <1>3
<1>7. \A i \in 1 .. n : i \in Times
  BY <1>1, BoundAssumption DEF Times
<1> QED
  BY <1>1, <1>2, <1>3, <1>4, <1>5, <1>6, <1>7

\* A fresh machine and a climbed one start typed, with the stage lock free.
LEMMA InitTyped == Init => TypeOK /\ LockInv
<1> SUFFICES ASSUME Init PROVE TypeOK /\ LockInv
  OBVIOUS
<1>1. policy \in Policies
  BY DEF Init
<1>2. ledger \in Seq(Records) /\ anchor \in Seq(Records) /\ clock \in 0 .. MaxTime
  BY <1>1, FoundingType DEF Init
<1>3. mirror \in Records \cup {NoRecord}
  BY <1>2, TipType DEF Init
<1>4. asks \in [Times -> Asks]
  <2>1. \A t \in Times : (IF t \in DOMAIN ledger THEN FoundingAsk(t) ELSE NoAsk) \in Asks
    BY <1>1, <1>2, FoundingType DEF Init, Asks
  <2> QED
    BY <2>1 DEF Init
<1>5. ceiling \in LADDER
  BY <1>1, FoundingType DEF Init
<1>6. LockInv
  BY DoorAssumption DEF Init, LockInv, Writing
<1>7. /\ stageLock \in Doors \cup {NoDoor}
      /\ pc \in [Doors -> PCs]
      /\ now \in [Doors -> 0 .. MaxTime]
      /\ arg \in [Doors -> Nat]
      /\ rec \in [Doors -> Records \cup {NoRecord}]
  BY BoundAssumption DEF Init, PCs
<1>8. archives = {} /\ cycle \in {"none", "running", "complete"} /\ exposed \in BOOLEAN
  BY DEF Init
<1> QED
  BY <1>1, <1>2, <1>3, <1>4, <1>5, <1>6, <1>7, <1>8 DEF TypeOK

\* What the door processes hold is typed, one of them has the lock, and each
\* has what its place in the protocol needs.
DoorTypes ==
  /\ stageLock \in Doors \cup {NoDoor}
  /\ pc \in [Doors -> PCs]
  /\ now \in [Doors -> 0 .. MaxTime]
  /\ arg \in [Doors -> Nat]
  /\ rec \in [Doors -> Records \cup {NoRecord}]

\* A process that ends, refused, finished or dead, gives back the lock it held
\* and no other.
LEMMA LeaveTyped ==
  ASSUME DoorTypes, LockInv, NEW d \in Doors, Leave(d)
  PROVE  DoorTypes' /\ LockInv'
<1>1. DoorTypes'
  BY BoundAssumption DEF DoorTypes, Leave, PCs
<1>2. LockInv'
  <2> SUFFICES ASSUME NEW e \in Doors
               PROVE  (/\ pc[e] \in Writing <=> stageLock = e
                       /\ pc[e] = "confirm" => arg[e] \in Times
                       /\ pc[e] = "demote"  => arg[e] \in LADDER
                       /\ pc[e] \in Writing => rec[e] \in Records /\ rec[e].eff = now[e])'
    BY DEF LockInv
  <2>1. CASE e = d
    BY <2>1, DoorAssumption DEF DoorTypes, Leave, LockInv, Writing
  <2>2. CASE e # d
    BY <2>2, DoorAssumption DEF DoorTypes, Leave, LockInv, Writing
  <2> QED
    BY <2>1, <2>2
<1> QED
  BY <1>1, <1>2

\* A process that starts its append takes a free lock with a record of its second.
LEMMA StartAppendTyped ==
  ASSUME DoorTypes, LockInv, NEW d \in Doors, stageLock = NoDoor,
         NEW r \in Records, r.eff = now[d], StartAppend(d, r)
  PROVE  DoorTypes' /\ LockInv'
<1>1. DoorTypes' /\ pc'[d] \in {"aside", "row"} /\ rec'[d] = r
  BY DEF DoorTypes, StartAppend, PCs
<1>2. LockInv'
  <2> SUFFICES ASSUME NEW e \in Doors
               PROVE  (/\ pc[e] \in Writing <=> stageLock = e
                       /\ pc[e] = "confirm" => arg[e] \in Times
                       /\ pc[e] = "demote"  => arg[e] \in LADDER
                       /\ pc[e] \in Writing => rec[e] \in Records /\ rec[e].eff = now[e])'
    BY DEF LockInv
  <2>1. CASE e = d
    BY <1>1, <2>1 DEF StartAppend, Writing
  <2>2. CASE e # d
    BY <2>2, DoorAssumption DEF DoorTypes, StartAppend, LockInv, Writing
  <2> QED
    BY <2>1, <2>2
<1> QED
  BY <1>1, <1>2

\* A process that samples its clock waits for the lock and holds nothing.
LEMMA BeginTyped ==
  ASSUME DoorTypes, LockInv, clock \in 0 .. MaxTime, NEW d \in Doors,
         NEW where \in Waiting, NEW what \in Nat, Begin(d, where, what),
         where = "confirm" => what \in Times,
         where = "demote"  => what \in LADDER
  PROVE  DoorTypes' /\ LockInv' /\ clock' \in 0 .. MaxTime
<1>1. DoorTypes' /\ clock' \in 0 .. MaxTime
  BY BoundAssumption DEF DoorTypes, Begin, doorVars, PCs, Waiting, Times
<1>2. LockInv'
  <2> SUFFICES ASSUME NEW e \in Doors
               PROVE  (/\ pc[e] \in Writing <=> stageLock = e
                       /\ pc[e] = "confirm" => arg[e] \in Times
                       /\ pc[e] = "demote"  => arg[e] \in LADDER
                       /\ pc[e] \in Writing => rec[e] \in Records /\ rec[e].eff = now[e])'
    BY DEF LockInv
  <2>1. CASE e = d
    BY <2>1 DEF DoorTypes, Begin, LockInv, Writing, Waiting
  <2>2. CASE e # d
    BY <2>2 DEF DoorTypes, Begin, LockInv, Writing
  <2> QED
    BY <2>1, <2>2
<1> QED
  BY <1>1, <1>2

\* Every step of the doors and of the world around them, process deaths and
\* restores included, keeps the state typed and the stage lock exclusive.
LEMMA TypingStep == TypeOK /\ LockInv /\ [Next]_vars => TypeOK' /\ LockInv'
<1> SUFFICES ASSUME TypeOK, LockInv, [Next]_vars
             PROVE  TypeOK' /\ LockInv'
  OBVIOUS
<1> DEFINE ArchiveOK(b) == /\ b.ledger \in Seq(Records)
                           /\ b.mirror \in Records \cup {NoRecord}
                           /\ b.asks \in [Times -> Asks]
                           /\ b.cycle \in {"none", "running", "complete"}
           Rest == /\ ledger \in Seq(Records)
                   /\ anchor \in Seq(Records)
                   /\ mirror \in Records \cup {NoRecord}
                   /\ asks \in [Times -> Asks]
                   /\ cycle \in {"none", "running", "complete"}
                   /\ policy \in Policies
                   /\ clock \in 0 .. MaxTime
                   /\ \A b \in archives : ArchiveOK(b)
                   /\ ceiling \in LADDER
                   /\ exposed \in BOOLEAN
<1>1. Rest /\ DoorTypes
  BY DEF TypeOK, DoorTypes
<1>2. (Rest /\ DoorTypes => TypeOK) /\ (Rest' /\ DoorTypes' => TypeOK')
  BY DEF TypeOK, DoorTypes
<1>3. \A t \in Nat : StageAt(t) \in Statuses
  BY <1>1, StatusType DEF StageAt
<1>4. (cycle = "complete") \in BOOLEAN /\ Times \subseteq Nat /\ Targets \subseteq LADDER
  BY BoundAssumption DEF Times
<1>5. UNCHANGED doorVars => DoorTypes' /\ LockInv'
  BY <1>1 DEF DoorTypes, LockInv, doorVars
<1>6. ASSUME NEW target \in Targets, Request(target)
      PROVE  Rest' /\ DoorTypes' /\ LockInv'
  <2> DEFINE content == Plan(StageAt(clock + 1), target, policy, cycle = "complete")
  <2>1. content \in Contents /\ clock + 1 \in Times
    BY <1>1, <1>3, <1>4, <1>6, PlanType DEF Request
  <2>2. [status |-> "PENDING", content |-> content, consumedAt |-> 0] \in Asks
    BY <2>1 DEF Asks
  <2>3. asks' \in [Times -> Asks]
    BY <1>1, <1>6, <2>1, <2>2 DEF Request
  <2> QED
    BY <1>1, <1>5, <1>6, <2>1, <2>3, BoundAssumption DEF Request, stores, world, Times
<1>7. ASSUME NEW a \in Times, Approve(a)
      PROVE  Rest' /\ DoorTypes' /\ LockInv'
  <2>1. asks[a] \in [status : {"PENDING", "APPROVED", "CONSUMED"},
                     content : Contents, consumedAt : Nat]
    BY <1>1, <1>7 DEF Approve, Asks, NoAsk
  <2>2. [asks[a] EXCEPT !.status = "APPROVED"] \in Asks
    BY <2>1 DEF Asks
  <2>3. asks' \in [Times -> Asks]
    BY <1>1, <1>7, <2>2 DEF Approve
  <2> QED
    BY <1>1, <1>5, <1>7, <2>3 DEF Approve, stores, world
<1>8. ASSUME NEW d \in Doors, DoorBegin(d)
      PROVE  Rest' /\ DoorTypes' /\ LockInv'
  <2>1. PICK where \in Waiting, what \in Nat :
          /\ Begin(d, where, what)
          /\ where = "confirm" => what \in Times
          /\ where = "demote"  => what \in LADDER
    BY <1>4, <1>8 DEF DoorBegin, ConfirmBegin, DemoteBegin, SyncBegin, Waiting, LADDER,
                      READ_ONLY, LIVE_SCALED
  <2> QED
    BY <1>1, <2>1, BeginTyped DEF Begin, stores, world
<1>9. ASSUME NEW d \in Doors, ConfirmSpend(d)
      PROVE  Rest' /\ DoorTypes' /\ LockInv'
  <2> DEFINE a == arg[d]
             record == RecordFromApproved(asks[a].content, a, StageAt(now[d]), policy,
                                          cycle = "complete", now[d])
             granted == /\ asks[a].status = "APPROVED"
                        /\ record # NoRecord
                        /\ Appendable(record, ledger, anchor)
  <2>1. a \in Times /\ now[d] \in Nat
    BY <1>1, <1>4, <1>9, BoundAssumption DEF ConfirmSpend, LockInv, DoorTypes
  <2>2. CASE granted
    <3>1. asks[a] \in [status : {"PENDING", "APPROVED", "CONSUMED"},
                       content : Contents, consumedAt : Nat]
      BY <1>1, <2>1, <2>2 DEF Asks, NoAsk
    <3>2. record \in Records /\ record.eff = now[d]
      <4>1. asks[a].content \in Contents /\ a \in Nat
        BY <1>4, <2>1, <3>1
      <4> QED
        BY <2>1, <2>2, <4>1, RecordType
    <3>3. asks' \in [Times -> Asks]
      BY <1>1, <1>9, <2>1, <2>2, <3>1 DEF ConfirmSpend, Asks
    <3>4. DoorTypes' /\ LockInv'
      BY <1>1, <1>9, <2>2, <3>2, StartAppendTyped DEF ConfirmSpend
    <3> QED
      BY <1>1, <1>9, <3>3, <3>4 DEF ConfirmSpend, stores, world
  <2>3. CASE ~granted
    BY <1>1, <1>9, <2>3, LeaveTyped DEF ConfirmSpend, stores, world
  <2> QED
    BY <2>2, <2>3
<1>10. ASSUME NEW d \in Doors, DemotePlan(d)
       PROVE  Rest' /\ DoorTypes' /\ LockInv'
  <2> DEFINE record == DemoteRecord(StageAt(now[d]), arg[d], now[d])
  <2>1. arg[d] \in LADDER /\ now[d] \in Nat
    BY <1>1, <1>10, BoundAssumption DEF DemotePlan, LockInv, DoorTypes
  <2>2. record # NoRecord => record \in Records /\ record.eff = now[d]
    BY <1>3, <2>1, DemoteType
  <2>3. CASE record # NoRecord /\ Appendable(record, ledger, anchor)
    BY <1>1, <1>10, <2>2, <2>3, StartAppendTyped DEF DemotePlan, stores, world
  <2>4. CASE ~(record # NoRecord /\ Appendable(record, ledger, anchor))
    BY <1>1, <1>10, <2>4, LeaveTyped DEF DemotePlan, stores, world
  <2> QED
    BY <2>3, <2>4
<1>11. ASSUME NEW d \in Doors, SyncAnchor(d)
       PROVE  Rest' /\ DoorTypes' /\ LockInv'
  BY <1>1, <1>11, LeaveTyped DEF SyncAnchor, world
<1>12. ASSUME NEW d \in Doors, pc[d] \in Writing, pc' = [pc EXCEPT ![d] = pc'[d]],
              pc'[d] \in Writing, UNCHANGED <<stageLock, now, arg, rec>>
       PROVE  DoorTypes' /\ LockInv'
  BY <1>1, <1>12 DEF DoorTypes, LockInv, Writing, PCs
<1>13. ASSUME NEW d \in Doors, SetAside(d)
       PROVE  Rest' /\ DoorTypes' /\ LockInv'
  <2>1. DoorTypes' /\ LockInv'
    BY <1>1, <1>12, <1>13 DEF SetAside, Writing, DoorTypes
  <2> QED
    BY <1>1, <1>13, <2>1 DEF SetAside, world
<1>14. ASSUME NEW d \in Doors, WriteRow(d)
       PROVE  Rest' /\ DoorTypes' /\ LockInv'
  <2>1. DoorTypes' /\ LockInv'
    BY <1>1, <1>12, <1>14 DEF WriteRow, Writing, DoorTypes
  <2>2. rec[d] \in Records
    BY <1>14 DEF WriteRow, LockInv, Writing
  <2>3. ledger' \in Seq(Records) /\ ceiling' \in LADDER
    BY <1>1, <1>14, <2>2 DEF WriteRow, Records
  <2> QED
    BY <1>1, <1>14, <2>1, <2>3 DEF WriteRow, world
<1>15. ASSUME NEW d \in Doors, WriteAnchor(d)
       PROVE  Rest' /\ DoorTypes' /\ LockInv'
  <2>1. DoorTypes' /\ LockInv'
    BY <1>1, <1>12, <1>15 DEF WriteAnchor, Writing, DoorTypes
  <2> QED
    BY <1>1, <1>15, <2>1 DEF WriteAnchor, world
<1>16. ASSUME NEW d \in Doors, WriteMirror(d)
       PROVE  Rest' /\ DoorTypes' /\ LockInv'
  <2>1. rec[d] \in Records
    BY <1>16 DEF WriteMirror, LockInv, Writing
  <2> QED
    BY <1>1, <1>16, <2>1, LeaveTyped DEF WriteMirror, world
<1>17. ASSUME NEW d \in Doors, Crash(d)
       PROVE  Rest' /\ DoorTypes' /\ LockInv'
  BY <1>1, <1>17, LeaveTyped DEF Crash, stores, world
<1>18. ASSUME PolicyChange \/ StartCycle \/ FinishCycle \/ Backup
       PROVE  Rest' /\ DoorTypes' /\ LockInv'
  <2>1. CASE PolicyChange \/ StartCycle \/ FinishCycle
    BY <1>1, <1>5, <2>1 DEF PolicyChange, StartCycle, FinishCycle, stores
  <2>2. CASE Backup
    <3>1. ArchiveOK([ledger |-> ledger, mirror |-> mirror, asks |-> asks, cycle |-> cycle])
      BY <1>1
    <3>2. \A b \in archives' : ArchiveOK(b)
      BY <1>1, <2>2, <3>1 DEF Backup
    <3> QED
      BY <1>1, <1>5, <2>2, <3>2 DEF Backup, stores
  <2> QED
    BY <1>18, <2>1, <2>2
<1>19. ASSUME NEW b \in archives, NEW wiped \in BOOLEAN, Restore(b, wiped)
       PROVE  Rest' /\ DoorTypes' /\ LockInv'
  <2>1. ArchiveOK(b) /\ <<>> \in Seq(Records)
    BY <1>1
  <2>2. /\ ledger' \in Seq(Records) /\ anchor' \in Seq(Records)
        /\ mirror' \in Records \cup {NoRecord}
        /\ asks' \in [Times -> Asks]
        /\ cycle' \in {"none", "running", "complete"}
        /\ exposed' \in BOOLEAN
    BY <1>1, <1>19, <2>1 DEF Restore
  <2> QED
    BY <1>1, <1>5, <1>19, <2>2 DEF Restore
<1>20. ASSUME UNCHANGED vars
       PROVE  Rest' /\ DoorTypes' /\ LockInv'
  <2>1. DoorTypes' /\ LockInv'
    BY <1>5, <1>20 DEF vars, doorVars
  <2>2. Rest'
    BY <1>1, <1>20 DEF vars
  <2> QED
    BY <2>1, <2>2
<1> QED
  BY <1>2, <1>6, <1>7, <1>8, <1>9, <1>10, <1>11, <1>13, <1>14, <1>15, <1>16, <1>17,
     <1>18, <1>19, <1>20 DEF Next, Running, DoorStep, World

\* The state of the door and of the files it keeps is always typed.
THEOREM Typing == Spec => []TypeOK
<1>1. Init => TypeOK /\ LockInv
  BY InitTyped
<1>2. TypeOK /\ LockInv /\ [Next]_vars => TypeOK' /\ LockInv'
  BY TypingStep
<1> QED
  BY <1>1, <1>2, PTL DEF Spec

-----------------------------------------------------------------------------
(* A restore cannot lift the stage while the anchor is at the tip.         *)

\* A machine that was just started has no archive, and its rows are in the past.
LEMMA InitVouched == Init => FreshInv /\ VouchedInv
<1> SUFFICES ASSUME Init PROVE FreshInv /\ VouchedInv
  OBVIOUS
<1>1. /\ ledger = Founding /\ anchor = ledger /\ clock = Len(ledger)
      /\ archives = {} /\ ceiling = StartRung
      /\ \A d \in Doors : pc[d] = "idle"
  BY DEF Init
<1>2. ledger \in Seq(Records) /\ \A i \in 1 .. Len(ledger) : ledger[i].eff = i
  BY <1>1, FoundingType DEF Init
<1>3. FreshInv
  BY <1>1, <1>2 DEF FreshInv, Chains
<1>4. anchor # <<>> => Tip(ledger).stage = ceiling /\ ceiling \in LADDER
  BY <1>1, FoundingType DEF Init
<1>5. VouchedInv
  BY <1>1, <1>4 DEF VouchedInv, Vouched, Longest, LADDER, READ_ONLY, LIVE_SCALED
<1> QED
  BY <1>3, <1>5

\* A step that only forgets chains and ends processes leaves every row in the
\* past and every running process with a second of its own.
LEMMA FreshKept ==
  ASSUME FreshInv, clock' = clock, Chains' \subseteq Chains \cup {<<>>},
         \A e \in Doors : \/ pc'[e] = "idle"
                          \/ /\ pc[e] # "idle" /\ now'[e] = now[e]
                             /\ pc'[e] \notin {"anchor", "mirror"}
                                  => pc[e] \notin {"anchor", "mirror"}
  PROVE  FreshInv'
<1>1. \A rows \in Chains' : rows \in Chains \/ Len(rows) = 0
  OBVIOUS
<1> QED
  BY <1>1 DEF FreshInv

\* A step that leaves the chain, its anchor and the archives alone, and lands no
\* row, vouches for nothing new.
LEMMA VouchedKept ==
  ASSUME VouchedInv,
         UNCHANGED <<ledger, anchor, archives, ceiling, exposed>>,
         \A e \in Doors : pc'[e] = "anchor" => pc[e] = "anchor"
  PROVE  VouchedInv'
BY DEF VouchedInv, Vouched, Longest

\* No step of the doors, of a dying process or of a restore breaks the invariant.
LEMMA VouchedStep ==
  TypeOK /\ LockInv /\ FreshInv /\ VouchedInv /\ [Next]_vars
    => FreshInv' /\ VouchedInv'
<1> SUFFICES ASSUME TypeOK, LockInv, FreshInv, VouchedInv, [Next]_vars
             PROVE  FreshInv' /\ VouchedInv'
  OBVIOUS
<1>1. /\ ledger \in Seq(Records) /\ anchor \in Seq(Records) /\ clock \in Nat
      /\ \A b \in archives : b.ledger \in Seq(Records)
      /\ \A rows \in Chains : rows \in Seq(Records)
      /\ DoorTypes
  BY BoundAssumption DEF TypeOK, DoorTypes, Chains
<1>0. /\ \A rows \in Chains : \A i \in 1 .. Len(rows) :
           rows[i].eff \in Nat /\ rows[i].eff <= clock
      /\ \A e \in Doors : now[e] \in Nat
  <2>1. \A rows \in Chains : \A i \in 1 .. Len(rows) : rows[i] \in Records
    BY <1>1
  <2> QED
    BY <1>1, <2>1, BoundAssumption DEF DoorTypes, Records, FreshInv
<1> DEFINE Quiet(e) == pc'[e] = "idle"
           Going(e) == /\ pc[e] # "idle" /\ now'[e] = now[e]
                       /\ pc'[e] # "anchor"
                       /\ pc'[e] # "mirror" => pc[e] \notin {"anchor", "mirror"}
\* The steps that touch neither the chain, nor its anchor, nor the archives.
<1>2. ASSUME UNCHANGED <<ledger, anchor, archives, ceiling, exposed, clock>>,
             \A e \in Doors : (Quiet(e) \/ Going(e)) \/ (pc'[e] = pc[e] /\ now'[e] = now[e])
      PROVE  FreshInv' /\ VouchedInv'
  <2>1. Chains' = Chains
    BY <1>2 DEF Chains
  <2>2. FreshInv'
    BY <1>2, <2>1, FreshKept
  <2>3. VouchedInv'
    BY <1>2, VouchedKept
  <2> QED
    BY <2>2, <2>3
<1>3. ASSUME NEW d \in Doors, Leave(d)
      PROVE  \A e \in Doors : Quiet(e) \/ (pc'[e] = pc[e] /\ now'[e] = now[e])
  BY <1>1, <1>3 DEF Leave, DoorTypes
<1>4. ASSUME NEW d \in Doors, NEW r, pc[d] \in {"confirm", "demote"}, StartAppend(d, r)
      PROVE  \A e \in Doors : Going(e) \/ (pc'[e] = pc[e] /\ now'[e] = now[e])
  BY <1>1, <1>4 DEF StartAppend, DoorTypes
<1>5. ASSUME \/ \E target \in Targets : Request(target)
             \/ \E a \in Times : Approve(a)
             \/ PolicyChange \/ StartCycle \/ FinishCycle
             \/ UNCHANGED vars
      PROVE  FreshInv' /\ VouchedInv'
  <2>1. CASE \E target \in Targets : Request(target)
    <3>1. /\ UNCHANGED <<ledger, anchor, archives, ceiling, exposed, pc, now>>
          /\ clock' = clock + 1
      BY <2>1 DEF Request, stores, world, doorVars
    <3>2. Chains' = Chains
      BY <3>1 DEF Chains
    <3>3. FreshInv'
      BY <1>0, <1>1, <3>1, <3>2 DEF FreshInv
    <3>4. VouchedInv'
      BY <3>1, VouchedKept
    <3> QED
      BY <3>3, <3>4
  <2>2. CASE ~ \E target \in Targets : Request(target)
    <3>1. UNCHANGED <<ledger, anchor, archives, ceiling, exposed, clock, pc, now>>
      BY <1>5, <2>2 DEF Approve, PolicyChange, StartCycle, FinishCycle, stores, world,
                        doorVars, vars
    <3> QED
      BY <1>2, <3>1
  <2> QED
    BY <2>1, <2>2
<1>6. ASSUME NEW d \in Doors, DoorBegin(d)
      PROVE  FreshInv' /\ VouchedInv'
  <2>1. PICK where \in Waiting : \E what : Begin(d, where, what)
    BY <1>6 DEF DoorBegin, ConfirmBegin, DemoteBegin, SyncBegin, Waiting
  <2>2. /\ UNCHANGED <<ledger, anchor, archives, ceiling, exposed>>
        /\ clock' = clock + 1
        /\ pc'[d] = where /\ now'[d] = clock + 1
        /\ \A e \in Doors : e # d => pc'[e] = pc[e] /\ now'[e] = now[e]
    BY <1>1, <2>1 DEF Begin, stores, world, DoorTypes
  <2>3. FreshInv'
    <3>1. Chains' = Chains
      BY <2>2 DEF Chains
    <3>2. \A rows \in Chains : \A i \in 1 .. Len(rows) :
            rows[i].eff <= clock + 1 /\ rows[i].eff # clock + 1
      BY <1>0, <1>1
    <3>3. ASSUME NEW x \in Doors, pc'[x] # "idle"
          PROVE  /\ now'[x] <= clock'
                 /\ \A e \in Doors : x # e /\ pc'[e] # "idle" => now'[x] # now'[e]
                 /\ pc'[x] \notin {"anchor", "mirror"} =>
                      \A rows \in Chains : \A i \in 1 .. Len(rows) : rows[i].eff # now'[x]
      <4>1. \A e \in Doors : e # d /\ pc'[e] # "idle" => now'[e] \in Nat /\ now'[e] <= clock
        BY <1>0, <2>2 DEF FreshInv
      <4>2. CASE x = d
        BY <1>1, <2>2, <3>2, <4>1, <4>2
      <4>3. CASE x # d
        BY <1>1, <2>2, <3>3, <4>1, <4>3 DEF FreshInv
      <4> QED
        BY <4>2, <4>3
    <3> QED
      BY <2>2, <3>1, <3>2, <3>3 DEF FreshInv
  <2>4. VouchedInv'
    BY <2>2, VouchedKept DEF Waiting
  <2> QED
    BY <2>3, <2>4
<1>7. ASSUME NEW d \in Doors, ConfirmSpend(d) \/ DemotePlan(d)
      PROVE  FreshInv' /\ VouchedInv'
  <2>1. UNCHANGED <<ledger, anchor, archives, ceiling, exposed, clock>>
    BY <1>7 DEF ConfirmSpend, DemotePlan, stores, world
  <2>2. pc[d] \in {"confirm", "demote"} /\ (Leave(d) \/ \E r : StartAppend(d, r))
    BY <1>7 DEF ConfirmSpend, DemotePlan
  <2>3. \A e \in Doors : (Quiet(e) \/ Going(e)) \/ (pc'[e] = pc[e] /\ now'[e] = now[e])
    BY <1>3, <1>4, <2>2
  <2> QED
    BY <1>2, <2>1, <2>3
<1>8. ASSUME NEW d \in Doors, WriteMirror(d) \/ Crash(d)
      PROVE  FreshInv' /\ VouchedInv'
  <2>1. UNCHANGED <<ledger, anchor, archives, ceiling, exposed, clock>> /\ Leave(d)
    BY <1>8 DEF WriteMirror, Crash, stores, world
  <2> QED
    BY <1>2, <1>3, <2>1
<1>9. ASSUME NEW d \in Doors, SyncAnchor(d)
      PROVE  FreshInv' /\ VouchedInv'
  <2>1. /\ UNCHANGED <<ledger, archives, ceiling, exposed, clock>> /\ Leave(d)
        /\ anchor' = anchor \/ Vouched
    BY <1>9 DEF SyncAnchor, world, ChainToExtend, Vouched
  <2>2. Chains' = Chains
    BY <2>1 DEF Chains
  <2>3. FreshInv'
    BY <1>3, <2>1, <2>2, FreshKept
  <2>4. VouchedInv'
    <3>1. ~exposed /\ Vouched' => ~exposed /\ Vouched
      BY <2>1 DEF Vouched
    <3> QED
      BY <1>3, <2>1, <3>1 DEF VouchedInv, Longest
  <2> QED
    BY <2>3, <2>4
<1>10. ASSUME NEW d \in Doors, SetAside(d)
       PROVE  FreshInv' /\ VouchedInv'
  <2>1. /\ ledger' = <<>> /\ UNCHANGED <<anchor, archives, ceiling, exposed, clock, now>>
        /\ pc[d] = "aside" /\ pc'[d] = "row"
        /\ \A e \in Doors : e # d => pc'[e] = pc[e]
    BY <1>1, <1>10 DEF SetAside, world, DoorTypes
  <2>2. FreshInv'
    <3>1. Chains' \subseteq Chains \cup {<<>>}
      BY <2>1 DEF Chains
    <3> QED
      BY <2>1, <3>1, FreshKept
  <2>3. VouchedInv'
    <3>1. ~Vouched'
      BY <1>1, <2>1 DEF Vouched, OnChain
    <3>2. \A e \in Doors : pc'[e] # "anchor"
      BY <2>1 DEF LockInv, Writing
    <3> QED
      BY <3>1, <3>2 DEF VouchedInv
  <2> QED
    BY <2>2, <2>3
<1>11. ASSUME NEW d \in Doors, WriteRow(d)
       PROVE  FreshInv' /\ VouchedInv'
  <2>1. /\ ledger' = Append(ledger, rec[d]) /\ ceiling' = rec[d].stage
        /\ UNCHANGED <<anchor, archives, exposed, clock, now>>
        /\ pc[d] = "row" /\ pc'[d] = "anchor"
        /\ \A e \in Doors : e # d => pc'[e] = pc[e]
    BY <1>1, <1>11 DEF WriteRow, world, DoorTypes
  <2>2. rec[d] \in Records /\ rec[d].eff = now[d] /\ now[d] <= clock
    BY <2>1 DEF LockInv, FreshInv, Writing
  <2>3. /\ ledger' # <<>> /\ Len(ledger') = Len(ledger) + 1
        /\ ledger'[Len(ledger) + 1] = rec[d] /\ Tip(ledger') = rec[d]
        /\ \A i \in 1 .. Len(ledger) : ledger'[i] = ledger[i]
    BY <1>1, <2>1, <2>2 DEF Tip
  <2>4. FreshInv'
    <3>1. \A rows \in Chains' : rows = ledger' \/ rows \in Chains
      BY <2>1 DEF Chains
    <3>2. \A i \in 1 .. Len(ledger') :
            ledger'[i].eff = now[d] \/ (i \in 1 .. Len(ledger) /\ ledger'[i] = ledger[i])
      BY <1>1, <2>2, <2>3
    <3>3. \A rows \in Chains' : \A i \in 1 .. Len(rows) :
            \/ rows[i].eff = now[d]
            \/ \E old \in Chains : i \in 1 .. Len(old) /\ rows[i] = old[i]
      BY <3>1, <3>2 DEF Chains
    <3> QED
      BY <2>1, <2>2, <3>3 DEF FreshInv
  <2>5. Longest'
    <3> SUFFICES ASSUME NEW b \in archives, OnChain(ledger', b.ledger) PROVE FALSE
      BY <2>1 DEF Longest
    <3>1. Len(ledger) + 1 \in 1 .. Len(b.ledger) /\ b.ledger[Len(ledger) + 1] = rec[d]
      BY <1>1, <2>3 DEF OnChain
    <3>2. b.ledger \in Chains /\ pc[d] \notin {"idle", "anchor", "mirror"}
      BY <2>1 DEF Chains
    <3> QED
      BY <2>2, <3>1, <3>2 DEF FreshInv
  <2>6. VouchedInv'
    BY <2>1, <2>2, <2>3, <2>5 DEF VouchedInv, Records, LADDER, READ_ONLY, LIVE_SCALED
  <2> QED
    BY <2>4, <2>6
<1>12. ASSUME NEW d \in Doors, WriteAnchor(d)
       PROVE  FreshInv' /\ VouchedInv'
  <2>1. /\ UNCHANGED <<ledger, archives, ceiling, exposed, clock, now>>
        /\ pc[d] = "anchor" /\ pc'[d] = "mirror"
        /\ \A e \in Doors : e # d => pc'[e] = pc[e]
    BY <1>1, <1>12 DEF WriteAnchor, world, DoorTypes
  <2>2. Chains' = Chains
    BY <2>1 DEF Chains
  <2>3. FreshInv'
    BY <2>1, <2>2, FreshKept
  <2>4. Longest /\ Tip(ledger).stage = ceiling /\ ceiling \in LADDER
    BY <2>1 DEF VouchedInv, TypeOK
  <2>5. VouchedInv'
    BY <2>1, <2>4 DEF VouchedInv, Longest, LADDER, READ_ONLY, LIVE_SCALED
  <2> QED
    BY <2>3, <2>5
<1>13. ASSUME Backup
       PROVE  FreshInv' /\ VouchedInv'
  <2>1. /\ UNCHANGED <<ledger, anchor, ceiling, exposed, clock, pc, now>>
        /\ \A b \in archives' : b \in archives \/ b.ledger = ledger
    BY <1>13 DEF Backup, stores, doorVars
  <2>2. Chains' \subseteq Chains
    BY <2>1 DEF Chains
  <2>3. FreshInv'
    BY <2>1, <2>2, FreshKept
  <2>4. Longest => Longest'
    BY <2>1 DEF Longest
  <2>5. VouchedInv'
    BY <2>1, <2>4 DEF VouchedInv, Vouched
  <2> QED
    BY <2>3, <2>5
<1>14. ASSUME NEW b \in archives, NEW wiped \in BOOLEAN, Restore(b, wiped)
       PROVE  FreshInv' /\ VouchedInv'
  <2>1. /\ UNCHANGED <<archives, clock, ceiling, pc, now>>
        /\ \A e \in Doors : pc'[e] = "idle"
        /\ ledger' \in {ledger, b.ledger}
        /\ wiped => anchor' = <<>>
        /\ ~wiped => anchor' = anchor
        /\ exposed' = (exposed \/ anchor # ledger)
    BY <1>14 DEF Restore, Stopped, doorVars
  <2>2. FreshInv'
    <3>1. Chains' \subseteq Chains
      BY <2>1 DEF Chains
    <3> QED
      BY <2>1, <3>1, FreshKept
  <2>3. ASSUME ~exposed', Vouched'
        PROVE  Longest' /\ (Tip(ledger).stage <= ceiling)'
    <3>1. ~exposed /\ anchor = ledger /\ anchor' = ledger /\ ledger # <<>>
      BY <2>1, <2>3 DEF Vouched
    <3>2. Vouched
      BY <1>1, <3>1 DEF Vouched, OnChain
    <3>3. Longest /\ Tip(ledger).stage <= ceiling
      BY <3>1, <3>2 DEF VouchedInv
    <3>4. ledger' = ledger
      BY <2>1, <2>3, <3>1, <3>3 DEF Vouched, Longest
    <3> QED
      BY <2>1, <3>3, <3>4 DEF Longest
  <2>4. VouchedInv'
    BY <2>1, <2>3 DEF VouchedInv
  <2> QED
    BY <2>2, <2>4
<1> QED
  BY <1>5, <1>6, <1>7, <1>8, <1>9, <1>10, <1>11, <1>12, <1>13, <1>14
     DEF Next, Running, DoorStep, World

\* What the invariant is for: a valid status stands on a chain its anchor vouches
\* for, so it is no higher than the last row a door landed.
LEMMA VouchedSuffices == TypeOK /\ VouchedInv => RestoreProofWhenAnchored
<1> SUFFICES ASSUME TypeOK, VouchedInv, ~exposed PROVE Effective <= ceiling
  BY DEF RestoreProofWhenAnchored
<1> DEFINE st == StageAt(clock)
<1>1. /\ st.stage \in LADDER
      /\ st.stage # READ_ONLY => /\ AnchorProblem(ledger, anchor) = "OK"
                                 /\ st.stage = Tip(ledger).stage
  <2>1. /\ ledger \in Seq(Records) /\ anchor \in Seq(Records)
        /\ mirror \in Records \cup {NoRecord}
    BY DEF TypeOK
  <2>2. st = Resolve(ledger, anchor, mirror, asks, policy, clock)
    BY DEF StageAt
  <2> HIDE DEF st
  <2> QED
    BY <2>1, <2>2, ResolveType
<1>2. ceiling \in LADDER
  BY DEF TypeOK
<1>3. CASE st.stage = READ_ONLY
  BY <1>2, <1>3 DEF Effective, LADDER, READ_ONLY, LIVE_SCALED
<1>4. CASE st.stage # READ_ONLY
  <2>1. Vouched
    BY <1>1, <1>4 DEF AnchorProblem, Vouched
  <2> QED
    BY <1>1, <1>4, <2>1 DEF VouchedInv, Effective
<1> QED
  BY <1>3, <1>4

\* Fresh seconds, one writer, and a vouched chain no higher than the last landed
\* row, in every reachable state.
THEOREM StageInvariant == Spec => []IInv
<1>1. Init => IInv
  BY InitTyped, InitVouched DEF IInv
<1>2. IInv /\ [Next]_vars => IInv'
  BY TypingStep, VouchedStep DEF IInv
<1> QED
  BY <1>1, <1>2, PTL DEF Spec

\* No sequence of demotions, crashes, lost anchor writes, re-anchorings, replaced
\* chains, backups and restores lifts the stage above the last row a door landed,
\* as long as every restore ran with the anchor at the tip.
THEOREM AnchoredRestoreIsSafe == Spec => []RestoreProofWhenAnchored
<1>1. IInv => RestoreProofWhenAnchored
  BY VouchedSuffices DEF IInv
<1> QED
  BY <1>1, StageInvariant, PTL

-----------------------------------------------------------------------------
(* An approved row lands only over the record it was asked over, on a machine  *)
(* whose state directory is never put back.                                *)

\* Nothing is asked in a second to come, and a process about to land an approved
\* row has spent its ask, over the tip it is about to extend.
PromisedInv ==
  /\ archives = {}
  /\ \A t \in Times : t > clock => asks[t] = NoAsk
  /\ \A d \in Doors : pc[d] \in {"aside", "row"} /\ rec[d].trans # "DEMOTE" =>
       /\ rec[d].approval \in Times
       /\ asks[rec[d].approval].status = "CONSUMED"
       /\ asks[rec[d].approval].consumedAt = rec[d].eff
       /\ pc[d] = "row" /\ ledger # <<>> =>
            asks[rec[d].approval].content.ref = Tip(ledger)

\* Each approved row stands on an ask spent for it, over the row before it.
RowsInv ==
  \A i \in 1 .. Len(ledger) : ledger[i].trans # "DEMOTE" =>
    /\ ledger[i].approval \in Times
    /\ asks[ledger[i].approval].status = "CONSUMED"
    /\ asks[ledger[i].approval].consumedAt = ledger[i].eff
    /\ i > 1 => asks[ledger[i].approval].content.ref = ledger[i-1]

Overtaking == TypeOK /\ LockInv /\ PromisedInv /\ RowsInv

LEMMA InitOvertaking == Init => Overtaking
<1> SUFFICES ASSUME Init PROVE PromisedInv /\ RowsInv
  BY InitTyped DEF Overtaking
<1>1. /\ policy \in Policies /\ ledger = Founding /\ clock = Len(ledger)
      /\ archives = {} /\ \A d \in Doors : pc[d] = "idle"
      /\ asks = [t \in Times |-> IF t \in DOMAIN ledger THEN FoundingAsk(t) ELSE NoAsk]
  BY DEF Init
<1>2. /\ Founding \in Seq(Records) /\ Len(Founding) \in Nat
      /\ \A i \in 1 .. Len(Founding) : i \in Times
  BY <1>1, FoundingType
<1>4. DOMAIN Founding = 1 .. Len(Founding)
  BY <1>2
<1>3. \A i \in 1 .. Len(Founding) : Founding[i] = FoundingRow(i)
  <2> DEFINE n == IF StartRung = READ_ONLY THEN 0 ELSE StartRung - 1
  <2>1. Founding = [i \in 1 .. n |-> FoundingRow(i)]
    BY DEF Founding
  <2> HIDE DEF n
  <2> QED
    BY <1>4, <2>1
<1>5. PromisedInv
  <2>1. \A t \in Times : t > clock => asks[t] = NoAsk
    BY <1>1, <1>2, <1>4
  <2> QED
    BY <1>1, <2>1 DEF PromisedInv
<1>6. RowsInv
  <2> SUFFICES ASSUME NEW i \in 1 .. Len(ledger)
               PROVE  /\ ledger[i].approval \in Times
                      /\ asks[ledger[i].approval].status = "CONSUMED"
                      /\ asks[ledger[i].approval].consumedAt = ledger[i].eff
                      /\ i > 1 => asks[ledger[i].approval].content.ref = ledger[i-1]
    BY DEF RowsInv
  <2>0. FoundingRow(i).approval = i /\ FoundingRow(i).eff = i
    BY DEF FoundingRow
  <2>1. ledger[i].approval = i /\ ledger[i].eff = i /\ i \in Times
    BY <1>1, <1>2, <1>3, <2>0
  <2>2. asks[i] = FoundingAsk(i)
    BY <1>1, <1>4, <2>1
  <2>3. /\ asks[i].status = "CONSUMED" /\ asks[i].consumedAt = i
        /\ asks[i].content.ref = IF i = 1 THEN NoRecord ELSE Founding[i-1]
    <3>1. /\ FoundingAsk(i).status = "CONSUMED" /\ FoundingAsk(i).consumedAt = i
          /\ FoundingAsk(i).content.ref = IF i = 1 THEN NoRecord ELSE Founding[i-1]
      BY Zenon DEF FoundingAsk
    <3> QED
      BY <2>2, <3>1
  <2> QED
    BY <1>1, <2>1, <2>3
<1> QED
  BY <1>5, <1>6

\* A spent ask is never touched again, and what is asked is asked now.
LEMMA AsksKept ==
  ASSUME Overtaking, Next, MaxArchives = 0
  PROVE  /\ \A t \in Times : asks[t].status = "CONSUMED" => asks'[t] = asks[t]
         /\ \A t \in Times : t > clock' => asks'[t] = NoAsk
         /\ archives' = {}
<1>1. /\ asks \in [Times -> Asks] /\ clock \in Nat /\ archives = {}
      /\ \A t \in Times : t > clock => asks[t] = NoAsk
  BY BoundAssumption DEF Overtaking, TypeOK, PromisedInv
<1>2. Times \subseteq Nat /\ NoAsk.status = "NONE"
  BY BoundAssumption DEF Times, NoAsk
<1>3. ASSUME NEW target \in Targets, Request(target)
      PROVE  /\ \A t \in Times : asks[t].status = "CONSUMED" => asks'[t] = asks[t]
             /\ \A t \in Times : t > clock' => asks'[t] = NoAsk
             /\ archives' = {}
  <2>1. /\ clock' = clock + 1 /\ clock + 1 \in Times /\ archives' = archives
        /\ \A t \in Times : t # clock + 1 => asks'[t] = asks[t]
    BY <1>1, <1>3 DEF Request, world
  <2>2. asks[clock + 1].status = "NONE"
    BY <1>1, <1>2, <2>1
  <2>3. \A t \in Times : asks[t].status = "CONSUMED" => t # clock + 1
    BY <2>2
  <2>4. \A t \in Times : t > clock + 1 => t > clock /\ t # clock + 1
    BY <1>1, <1>2
  <2> QED
    BY <1>1, <2>1, <2>3, <2>4
<1>4. ASSUME NEW a \in Times, Approve(a)
      PROVE  /\ \A t \in Times : asks[t].status = "CONSUMED" => asks'[t] = asks[t]
             /\ \A t \in Times : t > clock' => asks'[t] = NoAsk
             /\ archives' = {}
  <2>1. /\ clock' = clock /\ archives' = archives /\ asks[a].status = "PENDING"
        /\ \A t \in Times : t # a => asks'[t] = asks[t]
    BY <1>1, <1>4 DEF Approve, world
  <2> QED
    BY <1>1, <1>2, <2>1
<1>5. ASSUME NEW d \in Doors, ConfirmSpend(d)
      PROVE  /\ \A t \in Times : asks[t].status = "CONSUMED" => asks'[t] = asks[t]
             /\ \A t \in Times : t > clock' => asks'[t] = NoAsk
             /\ archives' = {}
  <2>1. clock' = clock /\ archives' = archives /\ arg[d] \in Times
    BY <1>5 DEF ConfirmSpend, world, Overtaking, LockInv
  <2>2. \/ asks' = asks
        \/ /\ asks[arg[d]].status = "APPROVED"
           /\ \A t \in Times : t # arg[d] => asks'[t] = asks[t]
    BY <1>1, <1>5, <2>1 DEF ConfirmSpend
  <2> QED
    BY <1>1, <1>2, <2>1, <2>2
<1>6. ASSUME NEW d \in Doors, DoorBegin(d)
      PROVE  asks' = asks /\ clock' = clock + 1 /\ archives' = archives
  BY <1>6 DEF DoorBegin, ConfirmBegin, DemoteBegin, SyncBegin, Begin, world
<1>7. ASSUME NEW d \in Doors,
             \/ DemotePlan(d) \/ SyncAnchor(d) \/ SetAside(d) \/ WriteRow(d)
             \/ WriteAnchor(d) \/ WriteMirror(d) \/ Crash(d)
      PROVE  asks' = asks /\ clock' = clock /\ archives' = archives
  BY <1>7 DEF DemotePlan, SyncAnchor, SetAside, WriteRow, WriteAnchor, WriteMirror, Crash, world
<1>8. ASSUME World
      PROVE  asks' = asks /\ clock' = clock /\ archives' = archives
  <2>1. ~Backup
    BY <1>1, FS_EmptySet DEF Backup
  <2>2. PolicyChange \/ StartCycle \/ FinishCycle
    BY <1>1, <1>8, <2>1 DEF World
  <2> QED
    BY <2>2 DEF PolicyChange, StartCycle, FinishCycle
<1>9. ASSUME asks' = asks, clock' = clock \/ clock' = clock + 1, archives' = archives
      PROVE  /\ \A t \in Times : asks[t].status = "CONSUMED" => asks'[t] = asks[t]
             /\ \A t \in Times : t > clock' => asks'[t] = NoAsk
             /\ archives' = {}
  BY <1>1, <1>2, <1>9
<1>10. CASE \E target \in Targets : Request(target)
  BY <1>3, <1>10
<1>11. CASE \E a \in Times : Approve(a)
  BY <1>4, <1>11
<1>12. CASE \E d \in Doors : DoorBegin(d) \/ DoorStep(d) \/ Crash(d)
  <2> PICK d \in Doors : DoorBegin(d) \/ DoorStep(d) \/ Crash(d)
    BY <1>12
  <2>1. CASE DoorBegin(d)
    BY <1>6, <1>9, <2>1
  <2>2. CASE ConfirmSpend(d)
    BY <1>5, <2>2
  <2>3. CASE \/ DemotePlan(d) \/ SyncAnchor(d) \/ SetAside(d) \/ WriteRow(d)
             \/ WriteAnchor(d) \/ WriteMirror(d) \/ Crash(d)
    BY <1>7, <1>9, <2>3
  <2> QED
    BY <2>1, <2>2, <2>3 DEF DoorStep
<1>13. CASE World
  BY <1>8, <1>9, <1>13
<1> QED
  BY <1>10, <1>11, <1>12, <1>13 DEF Next, Running

\* A process that starts an approved row has just spent its ask, and the chain it
\* extends, if it extends one, ends in the record the ask was planned against.
LEMMA ConfirmPromises ==
  ASSUME Overtaking, NEW d \in Doors, ConfirmSpend(d), pc'[d] \in {"aside", "row"}
  PROVE  /\ rec'[d].approval \in Times
         /\ asks'[rec'[d].approval].status = "CONSUMED"
         /\ asks'[rec'[d].approval].consumedAt = rec'[d].eff
         /\ pc'[d] = "row" /\ ledger # <<>> =>
              asks'[rec'[d].approval].content.ref = Tip(ledger)
<1> DEFINE a == arg[d]
           st == StageAt(now[d])
           record == RecordFromApproved(asks[a].content, a, st, policy,
                                        cycle = "complete", now[d])
<1>1. /\ asks \in [Times -> Asks] /\ pc \in [Doors -> PCs] /\ rec \in [Doors -> Records \cup {NoRecord}]
      /\ a \in Times
  BY DEF Overtaking, TypeOK, LockInv, ConfirmSpend
<1>2. ~Leave(d)
  BY <1>1 DEF Leave
<1>3. /\ asks[a].status = "APPROVED" /\ record # NoRecord
      /\ asks' = [asks EXCEPT ![a].status = "CONSUMED", ![a].consumedAt = now[d]]
      /\ StartAppend(d, record)
  BY <1>2 DEF ConfirmSpend
<1>4. rec'[d] = record
  BY <1>1, <1>3 DEF StartAppend
<1>5. asks[a].content.ref = st.rec /\ record.approval = a /\ record.eff = now[d]
  BY <1>3 DEF RecordFromApproved
<1>6. asks[a] \in [status : {"PENDING", "APPROVED", "CONSUMED"},
                   content : Contents, consumedAt : Nat]
  BY <1>1, <1>3 DEF Asks, NoAsk
<1>7. /\ asks'[a].status = "CONSUMED" /\ asks'[a].consumedAt = now[d]
      /\ asks'[a].content = asks[a].content
  BY <1>1, <1>3, <1>6
<1>8. ASSUME pc'[d] = "row", ledger # <<>> PROVE st.rec = Tip(ledger)
  <2>1. ChainToExtend(ledger, anchor) # <<>>
    BY <1>1, <1>3, <1>8 DEF StartAppend
  <2>2. Verifies(ledger)
    BY <2>1 DEF ChainToExtend
  <2>3. NamedRecord(ledger, mirror) = Tip(ledger)
    BY <1>8, <2>2 DEF NamedRecord
  <2> QED
    BY <2>3 DEF StageAt, Resolve
<1> HIDE DEF record, st
<1> QED
  BY <1>1, <1>4, <1>5, <1>7, <1>8

\* No step lets an approved row land over a row it was not asked over.
LEMMA OvertakingStep ==
  MaxArchives = 0 /\ Overtaking /\ [Next]_vars => Overtaking'
<1> SUFFICES ASSUME MaxArchives = 0, Overtaking, [Next]_vars
             PROVE  PromisedInv' /\ RowsInv'
  BY TypingStep DEF Overtaking
<1>1. CASE UNCHANGED vars
  BY <1>1 DEF vars, Overtaking, PromisedInv, RowsInv
<1>2. CASE Next
  <2>1. /\ \A t \in Times : asks[t].status = "CONSUMED" => asks'[t] = asks[t]
        /\ \A t \in Times : t > clock' => asks'[t] = NoAsk
        /\ archives' = {}
    BY <1>2, AsksKept
  <2>2. /\ pc \in [Doors -> PCs] /\ rec \in [Doors -> Records \cup {NoRecord}]
        /\ ledger \in Seq(Records) /\ PromisedInv /\ RowsInv /\ LockInv
    BY DEF Overtaking, TypeOK
  <2> DEFINE Bound(d) ==
        pc'[d] \in {"aside", "row"} /\ rec'[d].trans # "DEMOTE" =>
          /\ rec'[d].approval \in Times
          /\ asks'[rec'[d].approval].status = "CONSUMED"
          /\ asks'[rec'[d].approval].consumedAt = rec'[d].eff
          /\ pc'[d] = "row" /\ ledger' # <<>> =>
               asks'[rec'[d].approval].content.ref = Tip(ledger')
\* A process this step leaves where it was, on a ledger it leaves alone.
  <2>3. ASSUME NEW d \in Doors, ledger' = ledger, pc'[d] = pc[d], rec'[d] = rec[d]
        PROVE  Bound(d)
    BY <2>1, <2>2, <2>3 DEF PromisedInv
  <2>4. ASSUME ledger' = ledger PROVE RowsInv'
    BY <2>1, <2>2, <2>4 DEF RowsInv
  <2>5. ASSUME \A d \in Doors : Bound(d), RowsInv' PROVE PromisedInv' /\ RowsInv'
    BY <2>1, <2>5 DEF PromisedInv
  <2>6. CASE UNCHANGED <<ledger, pc, rec>>
    BY <2>3, <2>4, <2>5, <2>6
  <2>7. ASSUME NEW d \in Doors, DoorBegin(d)
        PROVE  PromisedInv' /\ RowsInv'
    <3>1. /\ UNCHANGED <<ledger, rec>> /\ pc'[d] \in Waiting
          /\ \A e \in Doors : e # d => pc'[e] = pc[e]
      BY <2>2, <2>7 DEF DoorBegin, ConfirmBegin, DemoteBegin, SyncBegin, Begin, stores, Waiting
    <3>2. Bound(d)
      BY <3>1 DEF Waiting
    <3> QED
      BY <2>3, <2>4, <2>5, <3>1, <3>2
  <2>8. ASSUME NEW d \in Doors, Leave(d), ledger' = ledger
        PROVE  PromisedInv' /\ RowsInv'
    <3>1. /\ pc'[d] = "idle"
          /\ \A e \in Doors : e # d => pc'[e] = pc[e] /\ rec'[e] = rec[e]
      BY <2>2, <2>8 DEF Leave
    <3> QED
      BY <2>3, <2>4, <2>5, <2>8, <3>1
  <2>9. ASSUME NEW d \in Doors, ConfirmSpend(d)
        PROVE  PromisedInv' /\ RowsInv'
    <3>1. /\ ledger' = ledger
          /\ \A e \in Doors : e # d => pc'[e] = pc[e] /\ rec'[e] = rec[e]
      BY <2>2, <2>9 DEF ConfirmSpend, StartAppend, Leave, stores
    <3>2. Bound(d)
      BY <2>9, <3>1, ConfirmPromises
    <3> QED
      BY <2>3, <2>4, <2>5, <3>1, <3>2
  <2>10. ASSUME NEW d \in Doors, DemotePlan(d)
         PROVE  PromisedInv' /\ RowsInv'
    <3> DEFINE record == DemoteRecord(StageAt(now[d]), arg[d], now[d])
    <3>1. ledger' = ledger
      BY <2>10 DEF DemotePlan, stores
    <3>2. CASE StartAppend(d, record) /\ record # NoRecord
      <4>1. /\ rec'[d] = record
            /\ \A e \in Doors : e # d => pc'[e] = pc[e] /\ rec'[e] = rec[e]
        BY <2>2, <3>2 DEF StartAppend
      <4>2. record.trans = "DEMOTE"
        BY <3>2 DEF DemoteRecord
      <4> QED
        BY <2>3, <2>4, <2>5, <3>1, <4>1, <4>2
    <3>3. CASE Leave(d)
      BY <2>8, <3>1, <3>3
    <3> QED
      BY <2>10, <3>2, <3>3 DEF DemotePlan
  <2>11. ASSUME NEW d \in Doors, pc[d] \in Writing
         PROVE  \A e \in Doors : e # d => pc[e] \notin Writing
    BY <2>2, <2>11, DoorAssumption DEF LockInv
  <2>12. ASSUME NEW d \in Doors, SetAside(d)
         PROVE  PromisedInv' /\ RowsInv'
    <3>1. /\ ledger' = <<>> /\ rec' = rec /\ pc[d] = "aside"
          /\ \A e \in Doors : e # d => pc'[e] = pc[e]
      BY <2>2, <2>12 DEF SetAside
    <3>2. \A e \in Doors : Bound(e)
      <4> TAKE e \in Doors
      <4>1. CASE e = d
        BY <2>1, <2>2, <3>1, <4>1 DEF PromisedInv
      <4>2. CASE e # d
        BY <2>11, <3>1, <4>2 DEF Writing
      <4> QED
        BY <4>1, <4>2
    <3>3. RowsInv'
      BY <3>1 DEF RowsInv
    <3> QED
      BY <2>5, <3>2, <3>3
  <2>13. ASSUME NEW d \in Doors, WriteRow(d)
         PROVE  PromisedInv' /\ RowsInv'
    <3>1. /\ ledger' = Append(ledger, rec[d]) /\ rec' = rec /\ pc[d] = "row"
          /\ pc'[d] = "anchor" /\ asks' = asks
          /\ \A e \in Doors : e # d => pc'[e] = pc[e]
      BY <2>2, <2>13 DEF WriteRow
    <3>2. rec[d] \in Records
      BY <2>2, <3>1 DEF LockInv, Writing
    <3>3. \A e \in Doors : Bound(e)
      BY <2>11, <3>1 DEF Writing
    <3>4. RowsInv'
      <4>1. /\ Len(ledger') = Len(ledger) + 1 /\ Len(ledger) \in Nat
            /\ ledger'[Len(ledger) + 1] = rec[d]
            /\ \A i \in 1 .. Len(ledger) : ledger'[i] = ledger[i]
            /\ Len(ledger) > 0 => ledger # <<>> /\ Tip(ledger) = ledger[Len(ledger)]
        BY <2>2, <3>1, <3>2 DEF Tip
      <4> SUFFICES ASSUME NEW i \in 1 .. Len(ledger) + 1, ledger'[i].trans # "DEMOTE"
                   PROVE  /\ ledger'[i].approval \in Times
                          /\ asks[ledger'[i].approval].status = "CONSUMED"
                          /\ asks[ledger'[i].approval].consumedAt = ledger'[i].eff
                          /\ i > 1 => asks[ledger'[i].approval].content.ref = ledger'[i-1]
        BY <3>1, <4>1 DEF RowsInv
      <4>2. CASE i \in 1 .. Len(ledger)
        <5>1. ledger'[i] = ledger[i] /\ (i > 1 => ledger'[i-1] = ledger[i-1])
          BY <4>1, <4>2
        <5> QED
          BY <2>2, <4>2, <5>1 DEF RowsInv
      <4>3. CASE i = Len(ledger) + 1
        <5>1. ledger'[i] = rec[d] /\ (i > 1 => ledger'[i-1] = Tip(ledger) /\ ledger # <<>>)
          BY <4>1, <4>3
        <5> QED
          BY <2>2, <3>1, <5>1 DEF PromisedInv
      <4> QED
        BY <4>1, <4>2, <4>3
    <3> QED
      BY <2>5, <3>3, <3>4
  <2>14. ASSUME NEW d \in Doors, WriteAnchor(d)
         PROVE  PromisedInv' /\ RowsInv'
    <3>1. /\ UNCHANGED <<ledger, rec>> /\ pc'[d] = "mirror"
          /\ \A e \in Doors : e # d => pc'[e] = pc[e]
      BY <2>2, <2>14 DEF WriteAnchor
    <3> QED
      BY <2>3, <2>4, <2>5, <3>1
  <2>15. ASSUME NEW d \in Doors, SyncAnchor(d) \/ WriteMirror(d) \/ Crash(d)
         PROVE  PromisedInv' /\ RowsInv'
    BY <2>8, <2>15 DEF SyncAnchor, WriteMirror, Crash, stores
  <2>16. ASSUME \/ \E target \in Targets : Request(target)
                \/ \E t \in Times : Approve(t)
                \/ PolicyChange \/ StartCycle \/ FinishCycle \/ Backup
         PROVE  UNCHANGED <<ledger, pc, rec>>
    BY <2>16 DEF Request, Approve, PolicyChange, StartCycle, FinishCycle, Backup, stores, doorVars
  <2>17. ~ \E b \in archives, wiped \in BOOLEAN : Restore(b, wiped)
    BY <2>2 DEF PromisedInv
  <2> QED
    BY <1>2, <2>6, <2>7, <2>9, <2>10, <2>12, <2>13, <2>14, <2>15, <2>16, <2>17
       DEF Next, Running, DoorStep, World
<1> QED
  BY <1>1, <1>2

\* While nothing is restored, whatever doors race, however late each gets the lock
\* and wherever one dies: an approved row is in the ledger only over the very record
\* it was asked over, and on an approval spent for it.
THEOREM NoneOvertakes == MaxArchives = 0 => (Spec => []NoRowOvertakesADemotion)
<1>1. Init => Overtaking
  BY InitOvertaking
<1>2. MaxArchives = 0 /\ Overtaking /\ [Next]_vars => Overtaking'
  BY OvertakingStep
<1>3. Overtaking => NoRowOvertakesADemotion
  BY DEF Overtaking, RowsInv, NoRowOvertakesADemotion
<1> SUFFICES ASSUME MaxArchives = 0 PROVE Spec => []NoRowOvertakesADemotion
  OBVIOUS
<1>4. Overtaking /\ [Next]_vars => Overtaking'
  BY <1>2
<1> QED
  BY <1>1, <1>3, <1>4, PTL DEF Spec
-----------------------------------------------------------------------------
(* The doors break their own chain only at the floor.                      *)

\* A process about to extend a chain has verified it, and continues its tip unless
\* it stops the machine or starts anew.
WritersInv ==
  \A d \in Doors : pc[d] = "row" /\ ledger # <<>> =>
    /\ Verifies(ledger)
    /\ rec[d].trans # "BOOTSTRAP" /\ rec[d].stage # READ_ONLY =>
         rec[d].prev = Tip(ledger).stage

Continuing == IInv /\ PromisedInv /\ RowsInv /\ WritersInv /\ BrokenOnlyAtTheFloor

LEMMA InitContinuing == Init => Continuing
<1> SUFFICES ASSUME Init PROVE WritersInv /\ BrokenOnlyAtTheFloor
  BY InitTyped, InitVouched, InitOvertaking DEF Continuing, IInv, Overtaking
<1>1. WritersInv
  BY DEF Init, WritersInv
<1>2. /\ policy \in Policies /\ ledger = Founding /\ ledger \in Seq(Records)
  BY FoundingType DEF Init
<1>3. DOMAIN Founding = 1 .. Len(Founding)
  BY <1>2
<1>4. \A i \in 1 .. Len(Founding) : Founding[i] = FoundingRow(i)
  <2> DEFINE n == IF StartRung = READ_ONLY THEN 0 ELSE StartRung - 1
  <2>1. Founding = [i \in 1 .. n |-> FoundingRow(i)]
    BY DEF Founding
  <2> HIDE DEF n
  <2> QED
    BY <1>3, <2>1
<1>5. \A i \in Nat : /\ FoundingRow(i).approval = i /\ FoundingRow(i).stage = i + 1
                     /\ i # 1 => FoundingRow(i).prev = i
  BY DEF FoundingRow
<1>6. Verifies(ledger)
  <2>1. ASSUME NEW i \in 2 .. Len(ledger) PROVE ledger[i].prev = ledger[i-1].stage
    <3>1. i \in 1 .. Len(ledger) /\ i - 1 \in 1 .. Len(ledger) /\ i \in Nat /\ i # 1 /\ i - 1 \in Nat
      BY <1>2, <2>1
    <3>2. ledger[i] = FoundingRow(i) /\ ledger[i-1] = FoundingRow(i - 1)
      BY <1>2, <1>4, <3>1
    <3>3. FoundingRow(i).prev = i /\ FoundingRow(i - 1).stage = i - 1 + 1
      BY <1>5, <3>1
    <3> QED
      BY <3>1, <3>2, <3>3
  <2>2. ASSUME NEW i \in 1 .. Len(ledger) PROVE ledger[i].approval = i
    <3>1. ledger[i] = FoundingRow(i) /\ i \in Nat
      BY <1>2, <1>4, <2>2
    <3> QED
      BY <1>5, <3>1
  <2> QED
    BY <2>1, <2>2 DEF Verifies
<1> QED
  BY <1>1, <1>6 DEF BrokenOnlyAtTheFloor

\* A plan starts a new chain, refuses, or continues the record the status names.
LEMMA PlanContinues ==
  ASSUME NEW st \in Statuses, NEW target, NEW pol, NEW done
  PROVE  LET plan == Plan(st, target, pol, done) IN
         plan.trans \in {"NONE", "BOOTSTRAP"} \/ plan.from = st.rec.stage
<1> DEFINE plan == Plan(st, target, pol, done)
<1>1. CASE plan = NoContent
  <2>1. NoContent.trans = "NONE"
    BY DEF NoContent
  <2> QED
    BY <1>1, <2>1
<1>2. CASE Binding(st) /\ plan # NoContent
  BY <1>2 DEF Plan
<1>3. CASE ~Binding(st) /\ plan # NoContent
  BY <1>3 DEF Plan
<1> QED
  BY <1>1, <1>2, <1>3

\* The record a process starts to append continues the tip it was judged against.
LEMMA RecordContinues ==
  ASSUME NEW content \in Contents, NEW a, NEW st \in Statuses, NEW pol, NEW done, NEW t,
         RecordFromApproved(content, a, st, pol, done, t) # NoRecord
  PROVE  LET r == RecordFromApproved(content, a, st, pol, done, t) IN
         r.trans # "BOOTSTRAP" => r.prev = st.rec.stage
<1>1. Plan(st, content.to, pol, done) = content
  BY DEF RecordFromApproved
<1>2. content.trans # "NONE"
  BY DEF Contents, Transitions
<1>3. content.trans # "BOOTSTRAP" => content.from = st.rec.stage
  BY <1>1, <1>2, PlanContinues
<1> QED
  BY <1>3 DEF RecordFromApproved

LEMMA DemoteContinues ==
  ASSUME NEW st, NEW target, NEW t, DemoteRecord(st, target, t) # NoRecord
  PROVE  LET r == DemoteRecord(st, target, t) IN
         r.stage # READ_ONLY => r.prev = st.rec.stage
BY DEF DemoteRecord

\* A process that starts its append knows the chain it extends.
LEMMA WriterStarts ==
  ASSUME TypeOK, LockInv, NEW d \in Doors, ConfirmSpend(d) \/ DemotePlan(d),
         pc'[d] = "row", ledger # <<>>
  PROVE  /\ Verifies(ledger)
         /\ rec'[d].trans # "BOOTSTRAP" /\ rec'[d].stage # READ_ONLY =>
              rec'[d].prev = Tip(ledger).stage
<1> DEFINE st == StageAt(now[d])
<1>1. /\ pc \in [Doors -> PCs] /\ rec \in [Doors -> Records \cup {NoRecord}]
      /\ asks \in [Times -> Asks]
  BY DEF TypeOK
<1>2. ~Leave(d)
  BY <1>1 DEF Leave
<1>3. \E r : StartAppend(d, r)
  BY <1>2 DEF ConfirmSpend, DemotePlan
<1>4. ChainToExtend(ledger, anchor) # <<>>
  BY <1>1, <1>3 DEF StartAppend
<1>5. Verifies(ledger)
  BY <1>4 DEF ChainToExtend
<1>6. st.rec = Tip(ledger)
  <2>1. NamedRecord(ledger, mirror) = Tip(ledger)
    BY <1>5 DEF NamedRecord
  <2> QED
    BY <2>1 DEF StageAt, Resolve
<1> HIDE DEF st
<1>7. CASE ConfirmSpend(d)
  <2> DEFINE record == RecordFromApproved(asks[arg[d]].content, arg[d], st, policy,
                                          cycle = "complete", now[d])
  <2>1. arg[d] \in Times
    BY <1>7 DEF ConfirmSpend, LockInv
  <2>2. asks[arg[d]].status = "APPROVED" /\ record # NoRecord /\ StartAppend(d, record)
    BY <1>2, <1>7 DEF ConfirmSpend, st
  <2>3. asks[arg[d]].content \in Contents
    BY <1>1, <2>1, <2>2 DEF Asks, NoAsk
  <2>4. record.trans # "BOOTSTRAP" => record.prev = st.rec.stage
    <3>1. st \in Statuses
      BY StatusType DEF TypeOK, StageAt, st
    <3> QED
      BY <2>2, <2>3, <3>1, RecordContinues
  <2>5. rec'[d] = record
    BY <1>1, <2>2 DEF StartAppend
  <2> HIDE DEF record
  <2> QED
    BY <1>5, <1>6, <2>4, <2>5
<1>8. CASE DemotePlan(d)
  <2> DEFINE record == DemoteRecord(st, arg[d], now[d])
  <2>1. record # NoRecord /\ StartAppend(d, record)
    BY <1>2, <1>8 DEF DemotePlan, st
  <2>2. record.stage # READ_ONLY => record.prev = st.rec.stage
    BY <2>1, DemoteContinues
  <2>3. rec'[d] = record
    BY <1>1, <2>1 DEF StartAppend
  <2> HIDE DEF record
  <2> QED
    BY <1>5, <1>6, <2>2, <2>3
<1> QED
  BY <1>7, <1>8

\* A row that lands extends a chain that verifies, or puts the machine at READ_ONLY.
LEMMA RowLands ==
  ASSUME Continuing, NEW d \in Doors, WriteRow(d)
  PROVE  Verifies(ledger') \/ Tip(ledger').stage = READ_ONLY
<1>1. /\ ledger \in Seq(Records) /\ pc[d] = "row" /\ ledger' = Append(ledger, rec[d])
      /\ LockInv /\ FreshInv /\ PromisedInv /\ RowsInv /\ WritersInv
  BY DEF Continuing, IInv, TypeOK, WriteRow
<1>2. rec[d] \in Records /\ rec[d].eff = now[d]
  BY <1>1 DEF LockInv, Writing
<1>3. /\ Len(ledger') = Len(ledger) + 1 /\ Len(ledger) \in Nat
      /\ ledger'[Len(ledger) + 1] = rec[d] /\ Tip(ledger') = rec[d]
      /\ \A i \in 1 .. Len(ledger) : ledger'[i] = ledger[i]
      /\ Len(ledger) > 0 => ledger # <<>> /\ Tip(ledger) = ledger[Len(ledger)]
      /\ ledger = <<>> => Len(ledger) = 0
  BY <1>1, <1>2 DEF Tip
<1> SUFFICES ASSUME rec[d].stage # READ_ONLY PROVE Verifies(ledger')
  BY <1>3
\* An approval is spent once, in this process's own second.
<1>4. ASSUME NEW i \in 1 .. Len(ledger), ledger[i].trans # "DEMOTE", rec[d].trans # "DEMOTE"
      PROVE  ledger[i].approval # rec[d].approval
  <2>1. asks[ledger[i].approval].consumedAt = ledger[i].eff
    BY <1>1, <1>4 DEF RowsInv
  <2>2. asks[rec[d].approval].consumedAt = rec[d].eff
    BY <1>1, <1>4 DEF PromisedInv
  <2>3. ledger[i].eff # now[d]
    BY <1>1, <1>4 DEF FreshInv, Chains
  <2> QED
    BY <1>2, <2>1, <2>2, <2>3
<1>5. ledger # <<>> => Verifies(ledger)
  BY <1>1 DEF WritersInv
<1>6. ASSUME NEW i \in 2 .. Len(ledger) + 1, ledger'[i].trans # "BOOTSTRAP"
      PROVE  ledger'[i].prev = ledger'[i-1].stage
  <2>1. CASE i \in 2 .. Len(ledger)
    <3>1. ledger'[i] = ledger[i] /\ ledger'[i-1] = ledger[i-1] /\ ledger # <<>>
      BY <1>3, <2>1
    <3> QED
      BY <1>5, <1>6, <2>1, <3>1 DEF Verifies
  <2>2. CASE i = Len(ledger) + 1
    <3>1. ledger # <<>> /\ ledger'[i] = rec[d] /\ ledger'[i-1] = Tip(ledger)
      BY <1>3, <2>2
    <3> QED
      BY <1>1, <1>6, <3>1 DEF WritersInv
  <2> QED
    BY <1>3, <2>1, <2>2
<1>7. ASSUME NEW i \in 1 .. Len(ledger) + 1, NEW j \in 1 .. Len(ledger) + 1, i # j,
             ledger'[i].trans # "DEMOTE", ledger'[j].trans # "DEMOTE"
      PROVE  ledger'[i].approval # ledger'[j].approval
  <2>1. CASE i \in 1 .. Len(ledger) /\ j \in 1 .. Len(ledger)
    <3>1. ledger'[i] = ledger[i] /\ ledger'[j] = ledger[j] /\ ledger # <<>>
      BY <1>3, <2>1
    <3> QED
      BY <1>5, <1>7, <2>1, <3>1 DEF Verifies
  <2>2. CASE i = Len(ledger) + 1 /\ j \in 1 .. Len(ledger)
    BY <1>3, <1>4, <1>7, <2>2
  <2>3. CASE i \in 1 .. Len(ledger) /\ j = Len(ledger) + 1
    BY <1>3, <1>4, <1>7, <2>3
  <2> QED
    BY <1>3, <1>7, <2>1, <2>2, <2>3
<1> QED
  BY <1>3, <1>6, <1>7 DEF Verifies

LEMMA ContinuingStep ==
  MaxArchives = 0 /\ Continuing /\ [Next]_vars => Continuing'
<1> SUFFICES ASSUME MaxArchives = 0, Continuing, [Next]_vars
             PROVE  WritersInv' /\ BrokenOnlyAtTheFloor'
  BY TypingStep, VouchedStep, OvertakingStep DEF Continuing, IInv, Overtaking
<1>1. /\ pc \in [Doors -> PCs] /\ TypeOK /\ LockInv
      /\ WritersInv /\ BrokenOnlyAtTheFloor /\ archives = {}
      /\ rec \in [Doors -> Records \cup {NoRecord}]
  BY DEF Continuing, IInv, TypeOK, PromisedInv
<1> DEFINE Ready(d) == pc'[d] = "row" /\ ledger' # <<>> =>
                         /\ Verifies(ledger')
                         /\ rec'[d].trans # "BOOTSTRAP" /\ rec'[d].stage # READ_ONLY =>
                              rec'[d].prev = Tip(ledger').stage
\* A step that leaves the ledger alone and starts no append but d's own.
<1>2. ASSUME ledger' = ledger, \A d \in Doors : Ready(d)
      PROVE  WritersInv' /\ BrokenOnlyAtTheFloor'
  BY <1>1, <1>2 DEF WritersInv, BrokenOnlyAtTheFloor
<1>3. ASSUME ledger' = ledger, NEW d \in Doors, rec'[d] = rec[d], pc'[d] = "row" => pc[d] = "row"
      PROVE  Ready(d)
  BY <1>1, <1>3 DEF WritersInv
<1>4. CASE UNCHANGED <<ledger, pc, rec>>
  BY <1>2, <1>3, <1>4
<1>5. ASSUME NEW d \in Doors, DoorBegin(d)
      PROVE  WritersInv' /\ BrokenOnlyAtTheFloor'
  <2>1. /\ UNCHANGED <<ledger, rec>> /\ pc'[d] # "row"
        /\ \A e \in Doors : e # d => pc'[e] = pc[e]
    BY <1>1, <1>5 DEF DoorBegin, ConfirmBegin, DemoteBegin, SyncBegin, Begin, stores
  <2> QED
    BY <1>2, <1>3, <2>1
<1>6. ASSUME NEW d \in Doors, Leave(d), ledger' = ledger
      PROVE  WritersInv' /\ BrokenOnlyAtTheFloor'
  <2>1. /\ pc'[d] = "idle"
        /\ \A e \in Doors : e # d => pc'[e] = pc[e] /\ rec'[e] = rec[e]
    BY <1>1, <1>6 DEF Leave
  <2> QED
    BY <1>2, <1>3, <1>6, <2>1
<1>7. ASSUME NEW d \in Doors, ConfirmSpend(d) \/ DemotePlan(d)
      PROVE  WritersInv' /\ BrokenOnlyAtTheFloor'
  <2>1. ledger' = ledger
    BY <1>7 DEF ConfirmSpend, DemotePlan, stores
  <2>2. \A e \in Doors : e # d => pc'[e] = pc[e] /\ rec'[e] = rec[e]
    BY <1>1, <1>7 DEF ConfirmSpend, DemotePlan, StartAppend, Leave
  <2>3. Ready(d)
    BY <1>1, <1>7, <2>1, WriterStarts
  <2> QED
    BY <1>2, <1>3, <2>1, <2>2, <2>3
<1>8. ASSUME NEW d \in Doors, pc[d] \in Writing
      PROVE  \A e \in Doors : e # d => pc[e] \notin Writing
  BY <1>1, <1>8, DoorAssumption DEF LockInv
<1>9. ASSUME NEW d \in Doors, SetAside(d)
      PROVE  WritersInv' /\ BrokenOnlyAtTheFloor'
  BY <1>9 DEF SetAside, WritersInv, BrokenOnlyAtTheFloor
<1>10. ASSUME NEW d \in Doors, WriteRow(d)
       PROVE  WritersInv' /\ BrokenOnlyAtTheFloor'
  <2>1. pc[d] = "row" /\ pc'[d] = "anchor" /\ \A e \in Doors : e # d => pc'[e] = pc[e]
    BY <1>1, <1>10 DEF WriteRow
  <2>2. WritersInv'
    BY <1>8, <2>1 DEF WritersInv, Writing
  <2>3. BrokenOnlyAtTheFloor'
    BY <1>10, RowLands DEF BrokenOnlyAtTheFloor
  <2> QED
    BY <2>2, <2>3
<1>11. ASSUME NEW d \in Doors, WriteAnchor(d)
       PROVE  WritersInv' /\ BrokenOnlyAtTheFloor'
  <2>1. /\ UNCHANGED <<ledger, rec>> /\ pc'[d] = "mirror"
        /\ \A e \in Doors : e # d => pc'[e] = pc[e]
    BY <1>1, <1>11 DEF WriteAnchor
  <2> QED
    BY <1>2, <1>3, <2>1
<1>12. ASSUME NEW d \in Doors, SyncAnchor(d) \/ WriteMirror(d) \/ Crash(d)
       PROVE  WritersInv' /\ BrokenOnlyAtTheFloor'
  BY <1>6, <1>12 DEF SyncAnchor, WriteMirror, Crash, stores
<1>13. ASSUME \/ \E target \in Targets : Request(target)
              \/ \E t \in Times : Approve(t)
              \/ PolicyChange \/ StartCycle \/ FinishCycle \/ Backup \/ UNCHANGED vars
       PROVE  UNCHANGED <<ledger, pc, rec>>
  BY <1>13 DEF Request, Approve, PolicyChange, StartCycle, FinishCycle, Backup, stores,
               doorVars, vars
<1> QED
  BY <1>1, <1>4, <1>5, <1>7, <1>9, <1>10, <1>11, <1>12, <1>13
     DEF Next, Running, DoorStep, World

\* While nothing is restored, no order of clocks, doors and deaths leaves a chain
\* that its own reader refuses with a granted stage at its tip.
THEOREM FloorOnly == MaxArchives = 0 => (Spec => []BrokenOnlyAtTheFloor)
<1>1. Init => Continuing
  BY InitContinuing
<1>2. MaxArchives = 0 /\ Continuing /\ [Next]_vars => Continuing'
  BY ContinuingStep
<1>3. Continuing => BrokenOnlyAtTheFloor
  BY DEF Continuing
<1> SUFFICES ASSUME MaxArchives = 0 PROVE Spec => []BrokenOnlyAtTheFloor
  OBVIOUS
<1>4. Continuing /\ [Next]_vars => Continuing'
  BY <1>2
<1> QED
  BY <1>1, <1>3, <1>4, PTL DEF Spec
-----------------------------------------------------------------------------
(* Every rung in force was climbed.  A row is earned when asks spent no later  *)
(* than its second cover the rungs up to its stage, in order.              *)

Grants(book, kinds, rungs, t) ==
  {a \in Times : /\ book[a].status = "CONSUMED" /\ book[a].consumedAt <= t
                 /\ book[a].content.trans \in kinds /\ book[a].content.to \in rungs}

Boots(book, t) == Grants(book, {"BOOTSTRAP"}, BOOTSTRAP_STAGES, t)
Tests(book, t) ==
  {a \in Grants(book, {"CLIMB"}, {SIGNED_TESTNET}, t) :
     \E boot \in Boots(book, t) : book[boot].consumedAt < book[a].consumedAt}
Lives(book, test, t) ==
  {a \in Grants(book, {"CLIMB"}, {LIVE_AUTONOMOUS}, t) :
     book[test].consumedAt < book[a].consumedAt}

Earned(r, book, cyc) ==
  /\ r.stage >= SHADOW => Boots(book, r.eff) # {}
  /\ r.stage >= SIGNED_TESTNET =>
       \E test \in Tests(book, r.eff) :
         r.stage >= LIVE_AUTONOMOUS =>
           Lives(book, test, r.eff) # {} /\ cyc = "complete"

EarnedInv ==
  /\ \A i \in 1 .. Len(ledger) : Earned(ledger[i], asks, cycle)
  /\ \A d \in Doors : pc[d] \in {"aside", "row"} => Earned(rec[d], asks, cycle)

Climbing == Continuing /\ EarnedInv

\* What was earned stays earned, while spent asks stay spent.
LEMMA EarnedKept ==
  ASSUME NEW r, NEW book, NEW later, NEW cyc, NEW cyc2, Earned(r, book, cyc),
         \A t \in Times : book[t].status = "CONSUMED" => later[t] = book[t],
         cyc = "complete" => cyc2 = "complete"
  PROVE  Earned(r, later, cyc2)
<1>1. \A kinds, rungs, t : Grants(book, kinds, rungs, t) \subseteq Grants(later, kinds, rungs, t)
  BY DEF Grants
<1>2. \A kinds, rungs, t : \A a \in Grants(book, kinds, rungs, t) : later[a] = book[a]
  BY DEF Grants
<1>3. \A t : Boots(book, t) \subseteq Boots(later, t)
  BY <1>1 DEF Boots
<1>4. \A t : \A a \in Boots(book, t) : later[a] = book[a]
  BY <1>2 DEF Boots
<1>5. \A t : \A a \in Tests(book, t) : a \in Tests(later, t) /\ later[a] = book[a]
  BY <1>1, <1>2, <1>3, <1>4 DEF Tests
<1>6. \A t : \A test \in Tests(book, t) : Lives(book, test, t) \subseteq Lives(later, test, t)
  BY <1>1, <1>2, <1>5 DEF Lives
<1> QED
  BY <1>3, <1>5, <1>6 DEF Earned

\* A row no higher than an earned one, and no earlier, is earned.
LEMMA LowerEarns ==
  ASSUME NEW r \in Records, NEW old \in Records, NEW book \in [Times -> Asks], NEW cyc,
         Earned(old, book, cyc), r.stage <= old.stage, old.eff <= r.eff
  PROVE  Earned(r, book, cyc)
<1>1. /\ r.stage \in Int /\ old.stage \in Int /\ r.eff \in Nat /\ old.eff \in Nat
      /\ \A a \in Times : book[a].consumedAt \in Nat
  BY DEF Records, LADDER, READ_ONLY, LIVE_SCALED, Asks, NoAsk
<1>2. \A kinds, rungs : Grants(book, kinds, rungs, old.eff) \subseteq Grants(book, kinds, rungs, r.eff)
  BY <1>1 DEF Grants
<1>3. Boots(book, old.eff) \subseteq Boots(book, r.eff)
  BY <1>2 DEF Boots
<1>4. Tests(book, old.eff) \subseteq Tests(book, r.eff)
  BY <1>2, <1>3 DEF Tests
<1>5. \A test : Lives(book, test, old.eff) \subseteq Lives(book, test, r.eff)
  BY <1>2 DEF Lives
<1> QED
  BY <1>1, <1>3, <1>4, <1>5 DEF Earned, SHADOW, SIGNED_TESTNET, LIVE_AUTONOMOUS

\* A spent BOOTSTRAP earns its row.
LEMMA BootEarns ==
  ASSUME NEW r \in Records, NEW book, NEW cyc, NEW a \in Times, r.stage \in BOOTSTRAP_STAGES,
         book[a].status = "CONSUMED", book[a].consumedAt = r.eff,
         book[a].content.trans = "BOOTSTRAP", book[a].content.to = r.stage
  PROVE  Earned(r, book, cyc)
<1>1. r.eff <= r.eff
  BY DEF Records
<1>2. a \in Boots(book, r.eff)
  BY <1>1 DEF Boots, Grants
<1>3. ~(r.stage >= SIGNED_TESTNET)
  BY DEF BOOTSTRAP_STAGES, SHADOW, PAPER, SIGNED_TESTNET
<1> QED
  BY <1>2, <1>3 DEF Earned

\* A spent climb earns its row over an earned one a rung below.
LEMMA ClimbEarns ==
  ASSUME NEW r \in Records, NEW old \in Records, NEW book \in [Times -> Asks], NEW cyc,
         NEW a \in Times, Earned(old, book, cyc), old.eff < r.eff, old.stage >= SHADOW,
         r.stage = old.stage + 1, r.stage # LIVE_SCALED,
         r.stage = LIVE_AUTONOMOUS => cyc = "complete",
         book[a].status = "CONSUMED", book[a].consumedAt = r.eff,
         book[a].content.trans = "CLIMB", book[a].content.to = r.stage
  PROVE  Earned(r, book, cyc)
<1>1. /\ r.stage \in 0 .. 5 /\ old.stage \in 0 .. 5 /\ r.eff \in Nat /\ old.eff \in Nat
      /\ \A t \in Times : book[t].consumedAt \in Nat
  BY DEF Records, LADDER, READ_ONLY, LIVE_SCALED, Asks, NoAsk
<1>2. \A kinds, rungs : Grants(book, kinds, rungs, old.eff) \subseteq Grants(book, kinds, rungs, r.eff)
  BY <1>1 DEF Grants
<1>3. Boots(book, old.eff) \subseteq Boots(book, r.eff) /\ Boots(book, old.eff) # {}
  BY <1>2 DEF Boots, Earned
<1>4. a \in Grants(book, {"CLIMB"}, {r.stage}, r.eff)
  BY <1>1 DEF Grants
<1>5. CASE r.stage < SIGNED_TESTNET
  BY <1>1, <1>3, <1>5 DEF Earned, SIGNED_TESTNET, SHADOW
<1>6. CASE r.stage = SIGNED_TESTNET
  <2>1. PICK boot \in Boots(book, old.eff) : TRUE
    BY <1>3
  <2>2. boot \in Times /\ book[boot].consumedAt <= old.eff
    BY <2>1 DEF Boots, Grants
  <2>3. book[boot].consumedAt < book[a].consumedAt
    BY <1>1, <2>2
  <2>4. a \in Tests(book, r.eff)
    BY <1>3, <1>4, <1>6, <2>1, <2>3 DEF Tests
  <2>5. ~(r.stage >= LIVE_AUTONOMOUS)
    BY <1>6 DEF SIGNED_TESTNET, LIVE_AUTONOMOUS
  <2> QED
    BY <1>3, <2>4, <2>5 DEF Earned
<1>7. CASE r.stage = LIVE_AUTONOMOUS
  <2>1. old.stage >= SIGNED_TESTNET
    BY <1>1, <1>7 DEF SIGNED_TESTNET, LIVE_AUTONOMOUS
  <2>2. PICK test \in Tests(book, old.eff) : TRUE
    BY <2>1 DEF Earned
  <2>3. test \in Times /\ book[test].consumedAt <= old.eff
    BY <2>2 DEF Tests, Grants
  <2>4. test \in Tests(book, r.eff)
    BY <1>2, <1>3, <2>2 DEF Tests
  <2>5. book[test].consumedAt < book[a].consumedAt
    BY <1>1, <2>3
  <2>6. a \in Lives(book, test, r.eff)
    BY <1>4, <1>7, <2>5 DEF Lives
  <2> QED
    BY <1>3, <1>7, <2>4, <2>6 DEF Earned
<1>8. r.stage < SIGNED_TESTNET \/ r.stage = SIGNED_TESTNET \/ r.stage = LIVE_AUTONOMOUS
  BY <1>1 DEF SIGNED_TESTNET, LIVE_AUTONOMOUS, LIVE_SCALED
<1> QED
  BY <1>5, <1>6, <1>7, <1>8

\* The rungs a machine starts from are earned.
LEMMA InitEarned == Init => EarnedInv
<1> SUFFICES ASSUME Init, NEW i \in 1 .. Len(ledger) PROVE Earned(ledger[i], asks, cycle)
  BY DEF Init, EarnedInv
<1> DEFINE n == IF StartRung = READ_ONLY THEN 0 ELSE StartRung - 1
<1>1. /\ policy \in Policies /\ ledger = Founding /\ ledger \in Seq(Records)
      /\ asks \in [Times -> Asks]
  BY FoundingType, InitTyped DEF Init, TypeOK
<1>2. Founding = [k \in 1 .. n |-> FoundingRow(k)]
  BY DEF Founding
<1>3. n \in 0 .. 3 /\ (n = 3 => StartRung = LIVE_AUTONOMOUS)
  BY BoundAssumption DEF READ_ONLY, SHADOW, PAPER, LIVE_AUTONOMOUS
<1> HIDE DEF n
<1>4. Len(ledger) = n /\ DOMAIN ledger = 1 .. n
  BY <1>1, <1>2, <1>3
<1>5. \A k \in 1 .. n : k \in Times /\ ledger[k] = FoundingRow(k) /\ ledger[k] \in Records
                        /\ asks[k] = FoundingAsk(k)
  <2>1. \A k \in 1 .. n : k \in Times
    BY <1>1, <1>4, FoundingType
  <2>2. \A k \in 1 .. n : ledger[k] = FoundingRow(k) /\ ledger[k] \in Records
    <3>1. \A k \in 1 .. n : Founding[k] = FoundingRow(k)
      BY <1>2
    <3>2. \A k \in 1 .. n : ledger[k] \in Records
      BY <1>1, <1>4
    <3> QED
      BY <1>1, <3>1, <3>2
  <2>3. asks = [k \in Times |-> IF k \in DOMAIN ledger THEN FoundingAsk(k) ELSE NoAsk]
    BY DEF Init
  <2>4. \A k \in 1 .. n : asks[k] = FoundingAsk(k)
    BY <1>4, <2>1, <2>3
  <2> QED
    BY <2>1, <2>2, <2>4
<1>6. \A k \in 1 .. n :
        /\ ledger[k].stage = k + 1 /\ ledger[k].eff = k
        /\ asks[k].status = "CONSUMED" /\ asks[k].consumedAt = k
        /\ asks[k].content.to = k + 1
        /\ asks[k].content.trans = IF k = 1 THEN "BOOTSTRAP" ELSE "CLIMB"
  <2> TAKE k \in 1 .. n
  <2>1. /\ FoundingRow(k).stage = k + 1 /\ FoundingRow(k).eff = k
        /\ FoundingRow(k).trans = IF k = 1 THEN "BOOTSTRAP" ELSE "CLIMB"
    BY DEF FoundingRow
  <2>2. /\ FoundingAsk(k).status = "CONSUMED" /\ FoundingAsk(k).consumedAt = k
        /\ FoundingAsk(k).content.to = Founding[k].stage
        /\ FoundingAsk(k).content.trans = Founding[k].trans
    BY Zenon DEF FoundingAsk
  <2> QED
    BY <1>1, <1>5, <2>1, <2>2
<1>7. cycle = "complete" \/ n # 3
  BY <1>3 DEF Init
<1>8. n >= 1 => Earned(ledger[1], asks, cycle)
  <2> SUFFICES ASSUME n >= 1 PROVE Earned(ledger[1], asks, cycle)
    OBVIOUS
  <2>1. 1 \in 1 .. n
    BY <1>3
  <2>2. ledger[1].stage \in BOOTSTRAP_STAGES
    BY <1>6, <2>1 DEF BOOTSTRAP_STAGES, PAPER
  <2> QED
    BY <1>5, <1>6, <2>1, <2>2, BootEarns
<1>9. n >= 2 => Earned(ledger[2], asks, cycle)
  <2> SUFFICES ASSUME n >= 2 PROVE Earned(ledger[2], asks, cycle)
    OBVIOUS
  <2>1. 1 \in 1 .. n /\ 2 \in 1 .. n
    BY <1>3
  <2>2. /\ ledger[1].stage = 2 /\ ledger[2].stage = 3 /\ ledger[1].eff = 1 /\ ledger[2].eff = 2
        /\ asks[2].content.trans = "CLIMB"
    BY <1>6, <2>1
  <2>3. /\ ledger[2].stage = ledger[1].stage + 1 /\ ledger[1].eff < ledger[2].eff
        /\ ledger[1].stage >= SHADOW /\ ledger[2].stage # LIVE_SCALED
        /\ ledger[2].stage # LIVE_AUTONOMOUS
    BY <2>2 DEF SHADOW, LIVE_SCALED, LIVE_AUTONOMOUS
  <2>4. /\ asks[2].status = "CONSUMED" /\ asks[2].consumedAt = ledger[2].eff
        /\ asks[2].content.to = ledger[2].stage
    BY <1>6, <2>1
  <2>5. Earned(ledger[1], asks, cycle)
    BY <1>8, <2>1
  <2> QED
    BY <1>1, <1>5, <2>1, <2>2, <2>3, <2>4, <2>5, ClimbEarns
<1>10. n >= 3 => Earned(ledger[3], asks, cycle)
  <2> SUFFICES ASSUME n >= 3 PROVE Earned(ledger[3], asks, cycle)
    OBVIOUS
  <2>1. 2 \in 1 .. n /\ 3 \in 1 .. n /\ n = 3
    BY <1>3
  <2>2. /\ ledger[2].stage = 3 /\ ledger[3].stage = 4 /\ ledger[2].eff = 2 /\ ledger[3].eff = 3
        /\ asks[3].content.trans = "CLIMB"
    BY <1>6, <2>1
  <2>3. /\ ledger[3].stage = ledger[2].stage + 1 /\ ledger[2].eff < ledger[3].eff
        /\ ledger[2].stage >= SHADOW /\ ledger[3].stage # LIVE_SCALED
    BY <2>2 DEF SHADOW, LIVE_SCALED
  <2>4. /\ asks[3].status = "CONSUMED" /\ asks[3].consumedAt = ledger[3].eff
        /\ asks[3].content.to = ledger[3].stage
    BY <1>6, <2>1
  <2>5. Earned(ledger[2], asks, cycle) /\ cycle = "complete"
    BY <1>7, <1>9, <2>1
  <2> QED
    BY <1>1, <1>5, <2>1, <2>2, <2>3, <2>4, <2>5, ClimbEarns
<1> QED
  BY <1>3, <1>4, <1>8, <1>9, <1>10

\* What plan_transition asks of the machine for each kind of transition.
RungAsked(plan, st, target, cyc) ==
  \/ plan.trans = "NONE"
  \/ plan.trans = "BOOTSTRAP" /\ target \in BOOTSTRAP_STAGES
  \/ /\ plan.trans = "CLIMB" /\ Binding(st) /\ target = st.rec.stage + 1
     /\ target # LIVE_SCALED /\ (target = LIVE_AUTONOMOUS => cyc = "complete")
  \/ plan.trans = "REBIND" /\ st.reason = "POLICY_CHANGED" /\ target = st.rec.stage

LEMMA PlanRungs ==
  ASSUME NEW st \in Statuses, NEW target, NEW pol, NEW cyc
  PROVE  RungAsked(Plan(st, target, pol, cyc = "complete"), st, target, cyc)
<1> DEFINE plan == Plan(st, target, pol, cyc = "complete")
<1>1. CASE plan = NoContent
  <2>1. NoContent.trans = "NONE"
    BY DEF NoContent
  <2> QED
    BY <1>1, <2>1 DEF RungAsked
<1>2. CASE Binding(st) /\ plan # NoContent
  BY <1>2 DEF Plan, RungAsked
<1>3. CASE ~Binding(st) /\ plan # NoContent
  BY <1>3 DEF Plan, RungAsked
<1> QED
  BY <1>1, <1>2, <1>3

\* A status that binds, or would under its policy, stands on a tip already in force.
LEMMA StandsOn ==
  ASSUME NEW rows \in Seq(Records), NEW anc, NEW mir, NEW book, NEW pol, NEW t \in Nat,
         \/ Resolve(rows, anc, mir, book, pol, t).valid
         \/ Resolve(rows, anc, mir, book, pol, t).reason = "POLICY_CHANGED"
  PROVE  /\ rows # <<>> /\ Resolve(rows, anc, mir, book, pol, t).rec = Tip(rows)
         /\ Tip(rows) \in Records /\ Tip(rows).eff <= t
<1> DEFINE why == Reason(rows, anc, mir, book, pol, t)
<1>1. why \in {"OK", "POLICY_CHANGED"}
  BY DEF Resolve
<1>2. AnchorProblem(rows, anc) # "POLICY_CHANGED"
  BY DEF AnchorProblem
<1>3. rows # <<>> /\ Verifies(rows)
  BY <1>1 DEF Reason
<1>4. Tip(rows) \in Records
  BY <1>3, TipType
<1>5. Tip(rows).eff \in Nat
  BY <1>4 DEF Records
<1>6. ~(Tip(rows).eff > t)
  BY <1>1, <1>2, <1>3 DEF Reason
<1>7. NamedRecord(rows, mir) = Tip(rows)
  BY <1>3 DEF NamedRecord
<1> QED
  BY <1>3, <1>4, <1>5, <1>6, <1>7 DEF Resolve

\* The tip a waiting process judges is earned, and not of its own second.
LEMMA TipEarned ==
  ASSUME Climbing, NEW d \in Doors, pc[d] \in {"confirm", "demote"},
         StageAt(now[d]).valid \/ StageAt(now[d]).reason = "POLICY_CHANGED"
  PROVE  /\ StageAt(now[d]).rec \in Records
         /\ Earned(StageAt(now[d]).rec, asks, cycle)
         /\ StageAt(now[d]).rec.eff < now[d]
<1>1. /\ ledger \in Seq(Records) /\ now[d] \in Nat /\ FreshInv /\ EarnedInv
  BY BoundAssumption DEF Climbing, Continuing, IInv, TypeOK
<1>2. /\ ledger # <<>> /\ StageAt(now[d]).rec = Tip(ledger)
      /\ Tip(ledger) \in Records /\ Tip(ledger).eff <= now[d]
  BY <1>1, StandsOn DEF StageAt
<1>3. Len(ledger) \in 1 .. Len(ledger) /\ Tip(ledger) = ledger[Len(ledger)]
  BY <1>1, <1>2 DEF Tip
<1>4. Tip(ledger).eff # now[d] /\ Earned(Tip(ledger), asks, cycle)
  BY <1>1, <1>3 DEF FreshInv, Chains, EarnedInv
<1>5. Tip(ledger).eff \in Nat
  BY <1>2 DEF Records
<1> QED
  BY <1>1, <1>2, <1>4, <1>5

\* The record a confirm writes is earned by the ask it has just spent.
LEMMA ConfirmEarns ==
  ASSUME Climbing, TypeOK', NEW d \in Doors, ConfirmSpend(d), pc'[d] \in {"aside", "row"}
  PROVE  Earned(rec'[d], asks', cycle)
<1> DEFINE a == arg[d]
           st == StageAt(now[d])
           record == RecordFromApproved(asks[a].content, a, st, policy,
                                        cycle = "complete", now[d])
           plan == Plan(st, asks[a].content.to, policy, cycle = "complete")
<1>1. /\ asks \in [Times -> Asks] /\ pc \in [Doors -> PCs] /\ asks' \in [Times -> Asks]
      /\ rec \in [Doors -> Records \cup {NoRecord}] /\ pc[d] = "confirm"
      /\ a \in Times /\ a \in Nat /\ now[d] \in Nat
  BY BoundAssumption DEF Climbing, Continuing, IInv, TypeOK, LockInv, ConfirmSpend, Times
<1>2. ~Leave(d)
  BY <1>1 DEF Leave
<1>3. /\ asks[a].status = "APPROVED" /\ record # NoRecord
      /\ asks' = [asks EXCEPT ![a].status = "CONSUMED", ![a].consumedAt = now[d]]
      /\ StartAppend(d, record)
  BY <1>2 DEF ConfirmSpend
<1>4. asks[a] \in [status : {"PENDING", "APPROVED", "CONSUMED"},
                   content : Contents, consumedAt : Nat]
  BY <1>1, <1>3 DEF Asks, NoAsk
<1>5. asks[a].content \in Contents
  BY <1>4
<1>6. /\ record \in Records /\ record.eff = now[d]
  BY <1>1, <1>3, <1>5, RecordType
<1>7. /\ record.stage = asks[a].content.to /\ plan = asks[a].content
  BY <1>3 DEF RecordFromApproved
<1>8. /\ asks'[a].status = "CONSUMED" /\ asks'[a].consumedAt = record.eff
      /\ asks'[a].content = asks[a].content
  BY <1>1, <1>3, <1>4, <1>6
<1>9. rec'[d] = record
  BY <1>1, <1>3 DEF StartAppend
<1>10. \A t \in Times : asks[t].status = "CONSUMED" => asks'[t] = asks[t]
  BY <1>1, <1>3
<1>11. st \in Statuses
  BY StatusType DEF StageAt, Climbing, Continuing, IInv, TypeOK
<1>12. st.valid \/ st.reason = "POLICY_CHANGED" =>
         /\ st.rec \in Records /\ Earned(st.rec, asks', cycle) /\ st.rec.eff < now[d]
  BY <1>1, <1>10, TipEarned, EarnedKept
<1>13. /\ asks[a].content.trans # "NONE"
       /\ st.rec \in Records => st.rec.stage \in Int /\ st.rec.eff \in Nat
  <2>1. \A c \in Contents : c.trans # "NONE"
    BY DEF Contents, Transitions
  <2>2. \A r \in Records : r.stage \in Int /\ r.eff \in Nat
    BY DEF Records, LADDER, READ_ONLY, LIVE_SCALED
  <2> QED
    BY <1>5, <2>1, <2>2
<1>14. \/ asks[a].content.trans = "BOOTSTRAP" /\ record.stage \in BOOTSTRAP_STAGES
       \/ /\ asks[a].content.trans = "CLIMB" /\ Binding(st) /\ record.stage = st.rec.stage + 1
          /\ record.stage # LIVE_SCALED /\ (record.stage = LIVE_AUTONOMOUS => cycle = "complete")
       \/ st.reason = "POLICY_CHANGED" /\ record.stage = st.rec.stage
  <2> DEFINE to == asks[a].content.to
  <2>1. RungAsked(plan, st, to, cycle)
    BY <1>11, PlanRungs, Zenon
  <2>2. plan.trans = asks[a].content.trans /\ record.stage = to
    BY <1>7
  <2> HIDE DEF plan, record, st, to
  <2> QED
    BY <1>13, <2>1, <2>2 DEF RungAsked
<1> HIDE DEF record, st, a, plan
<1>15. CASE asks[a].content.trans = "BOOTSTRAP" /\ record.stage \in BOOTSTRAP_STAGES
  BY <1>1, <1>6, <1>7, <1>8, <1>9, <1>15, BootEarns
<1>16. CASE /\ asks[a].content.trans = "CLIMB" /\ Binding(st) /\ record.stage = st.rec.stage + 1
            /\ record.stage # LIVE_SCALED /\ (record.stage = LIVE_AUTONOMOUS => cycle = "complete")
  <2>1. st.valid /\ st.rec.stage # READ_ONLY
    BY <1>11, <1>16 DEF Binding, Statuses
  <2>2. st.rec \in Records /\ Earned(st.rec, asks', cycle) /\ st.rec.eff < record.eff
    BY <1>6, <1>12, <2>1
  <2>3. st.rec.stage >= SHADOW
    BY <2>1, <2>2 DEF Records, LADDER, READ_ONLY, SHADOW, LIVE_SCALED
  <2> QED
    BY <1>1, <1>6, <1>7, <1>8, <1>9, <1>16, <2>2, <2>3, ClimbEarns
<1>17. CASE st.reason = "POLICY_CHANGED" /\ record.stage = st.rec.stage
  <2>1. st.rec \in Records /\ Earned(st.rec, asks', cycle) /\ st.rec.eff < record.eff
    BY <1>6, <1>12, <1>17
  <2>2. record.stage <= st.rec.stage /\ st.rec.eff <= record.eff
    BY <1>1, <1>6, <1>13, <1>17, <2>1
  <2> QED
    BY <1>1, <1>6, <1>9, <2>1, <2>2, LowerEarns
<1> QED
  BY <1>14, <1>15, <1>16, <1>17

\* The record a demotion writes is at the floor, or below an earned one.
LEMMA DemoteEarns ==
  ASSUME Climbing, NEW d \in Doors, DemotePlan(d), pc'[d] \in {"aside", "row"}
  PROVE  Earned(rec'[d], asks, cycle)
<1> DEFINE st == StageAt(now[d])
           record == DemoteRecord(st, arg[d], now[d])
<1>1. /\ asks \in [Times -> Asks] /\ pc \in [Doors -> PCs] /\ pc[d] = "demote"
      /\ rec \in [Doors -> Records \cup {NoRecord}]
      /\ arg[d] \in LADDER /\ now[d] \in Nat
  BY BoundAssumption DEF Climbing, Continuing, IInv, TypeOK, LockInv, DemotePlan
<1>2. ~Leave(d)
  BY <1>1 DEF Leave
<1>3. record # NoRecord /\ StartAppend(d, record)
  BY <1>2 DEF DemotePlan
<1>4. rec'[d] = record
  BY <1>1, <1>3 DEF StartAppend
<1>5. st \in Statuses
  BY StatusType DEF StageAt, Climbing, Continuing, IInv, TypeOK
<1>6. record \in Records /\ record.eff = now[d]
  BY <1>1, <1>3, <1>5, DemoteType
<1>7. /\ record.stage = arg[d]
      /\ arg[d] # READ_ONLY => Binding(st) /\ arg[d] < st.rec.stage
  BY <1>3 DEF DemoteRecord
<1>8. st.valid => /\ st.rec \in Records /\ Earned(st.rec, asks, cycle) /\ st.rec.eff < now[d]
  BY <1>1, TipEarned
<1> HIDE DEF record, st
<1>9. CASE arg[d] = READ_ONLY
  BY <1>4, <1>7, <1>9 DEF Earned, READ_ONLY, SHADOW, SIGNED_TESTNET
<1>10. CASE arg[d] # READ_ONLY
  <2>1. st.rec \in Records /\ Earned(st.rec, asks, cycle) /\ st.rec.eff < record.eff
    BY <1>5, <1>6, <1>7, <1>8, <1>10 DEF Binding
  <2>2. record.stage <= st.rec.stage /\ st.rec.eff <= record.eff
    BY <1>1, <1>6, <1>7, <1>10, <2>1 DEF Records, LADDER, READ_ONLY, LIVE_SCALED
  <2> QED
    BY <1>1, <1>4, <1>6, <2>1, <2>2, LowerEarns
<1> QED
  BY <1>9, <1>10

LEMMA ClimbingStep ==
  MaxArchives = 0 /\ Climbing /\ [Next]_vars => Climbing'
<1> SUFFICES ASSUME MaxArchives = 0, Climbing, [Next]_vars
             PROVE  EarnedInv'
  BY ContinuingStep DEF Climbing
<1>1. /\ pc \in [Doors -> PCs] /\ ledger \in Seq(Records) /\ EarnedInv /\ archives = {}
      /\ rec \in [Doors -> Records \cup {NoRecord}] /\ TypeOK'
      /\ cycle \in {"none", "running", "complete"} /\ LockInv
  BY TypingStep DEF Climbing, Continuing, IInv, TypeOK, PromisedInv
<1>2. CASE UNCHANGED vars
  BY <1>1, <1>2 DEF EarnedInv, vars
<1>3. CASE Next
  <2>1. \A t \in Times : asks[t].status = "CONSUMED" => asks'[t] = asks[t]
    BY <1>3, AsksKept DEF Climbing, Continuing, IInv, Overtaking
  <2>2. cycle' # cycle => cycle # "complete"
    BY <1>1, <1>3 DEF Next, Running, DoorBegin, DoorStep, World, Request, Approve, ConfirmBegin,
       DemoteBegin, SyncBegin, Begin, ConfirmSpend, DemotePlan, SyncAnchor, SetAside, WriteRow,
       WriteAnchor, WriteMirror, Crash, PolicyChange, StartCycle, FinishCycle, Backup, world
  <2>3. \A r : Earned(r, asks, cycle) => Earned(r, asks', cycle')
    BY <2>1, <2>2, EarnedKept
\* The rows, and the records of the processes that go on with the same one.
  <2>4. ASSUME ledger' = ledger PROVE \A i \in 1 .. Len(ledger') : Earned(ledger'[i], asks', cycle')
    BY <1>1, <2>3, <2>4 DEF EarnedInv
  <2>5. ASSUME NEW d \in Doors, rec'[d] = rec[d],
               pc'[d] \in {"aside", "row"} => pc[d] \in {"aside", "row"}, pc'[d] \in {"aside", "row"}
        PROVE  Earned(rec'[d], asks', cycle')
    BY <1>1, <2>3, <2>5 DEF EarnedInv
  <2>6. CASE UNCHANGED <<ledger, pc, rec>>
    BY <2>4, <2>5, <2>6 DEF EarnedInv
  <2>7. ASSUME NEW d \in Doors, DoorBegin(d)
        PROVE  EarnedInv'
    <3>1. /\ UNCHANGED <<ledger, rec>> /\ pc'[d] \in Waiting
          /\ \A e \in Doors : e # d => pc'[e] = pc[e]
      BY <1>1, <2>7 DEF DoorBegin, ConfirmBegin, DemoteBegin, SyncBegin, Begin, stores, Waiting
    <3> QED
      BY <2>4, <2>5, <3>1 DEF EarnedInv, Waiting
  <2>8. ASSUME NEW d \in Doors, Leave(d), ledger' = ledger
        PROVE  EarnedInv'
    <3>1. /\ pc'[d] = "idle"
          /\ \A e \in Doors : e # d => pc'[e] = pc[e] /\ rec'[e] = rec[e]
      BY <1>1, <2>8 DEF Leave
    <3> QED
      BY <2>4, <2>5, <2>8, <3>1 DEF EarnedInv
  <2>9. ASSUME NEW d \in Doors, ConfirmSpend(d) \/ DemotePlan(d)
        PROVE  EarnedInv'
    <3>1. ledger' = ledger /\ cycle' = cycle
      BY <2>9 DEF ConfirmSpend, DemotePlan, stores, world
    <3>2. \A e \in Doors : e # d => pc'[e] = pc[e] /\ rec'[e] = rec[e]
      BY <1>1, <2>9 DEF ConfirmSpend, DemotePlan, StartAppend, Leave
    <3>3. pc'[d] \in {"aside", "row"} => Earned(rec'[d], asks', cycle')
      BY <1>1, <2>3, <2>9, <3>1, ConfirmEarns, DemoteEarns
    <3> QED
      BY <2>4, <2>5, <3>1, <3>2, <3>3 DEF EarnedInv
  <2>10. ASSUME NEW d \in Doors, SetAside(d)
         PROVE  EarnedInv'
    <3>1. /\ ledger' = <<>> /\ rec' = rec /\ pc[d] = "aside"
          /\ \A e \in Doors : e # d => pc'[e] = pc[e]
      BY <1>1, <2>10 DEF SetAside
    <3>2. \A e \in Doors : pc'[e] \in {"aside", "row"} => Earned(rec'[e], asks', cycle')
      BY <2>5, <3>1
    <3> QED
      BY <3>1, <3>2 DEF EarnedInv
  <2>11. ASSUME NEW d \in Doors, WriteRow(d)
         PROVE  EarnedInv'
    <3>1. /\ ledger' = Append(ledger, rec[d]) /\ rec' = rec /\ pc[d] = "row" /\ pc'[d] = "anchor"
          /\ \A e \in Doors : e # d => pc'[e] = pc[e]
      BY <1>1, <2>11 DEF WriteRow
    <3>2. \A e \in Doors : pc'[e] \in {"aside", "row"} => Earned(rec'[e], asks', cycle')
      BY <2>5, <3>1
    <3>3. rec[d] \in Records
      BY <1>1, <3>1 DEF LockInv, Writing
    <3>4. \A i \in 1 .. Len(ledger') : ledger'[i] = rec[d] \/ (i \in 1 .. Len(ledger) /\ ledger'[i] = ledger[i])
      BY <1>1, <3>1, <3>3
    <3>5. \A i \in 1 .. Len(ledger') : Earned(ledger'[i], asks', cycle')
      BY <1>1, <2>3, <3>1, <3>4 DEF EarnedInv
    <3> QED
      BY <3>2, <3>5 DEF EarnedInv
  <2>12. ASSUME NEW d \in Doors, WriteAnchor(d)
         PROVE  EarnedInv'
    <3>1. /\ UNCHANGED <<ledger, rec>> /\ pc'[d] = "mirror"
          /\ \A e \in Doors : e # d => pc'[e] = pc[e]
      BY <1>1, <2>12 DEF WriteAnchor
    <3> QED
      BY <2>4, <2>5, <3>1 DEF EarnedInv
  <2>13. ASSUME NEW d \in Doors, SyncAnchor(d) \/ WriteMirror(d) \/ Crash(d)
         PROVE  EarnedInv'
    BY <2>8, <2>13 DEF SyncAnchor, WriteMirror, Crash, stores
  <2>14. ASSUME \/ \E target \in Targets : Request(target)
                \/ \E t \in Times : Approve(t)
                \/ PolicyChange \/ StartCycle \/ FinishCycle \/ Backup
         PROVE  UNCHANGED <<ledger, pc, rec>>
    BY <2>14 DEF Request, Approve, PolicyChange, StartCycle, FinishCycle, Backup, stores, doorVars
  <2> QED
    BY <1>1, <1>3, <2>6, <2>7, <2>9, <2>10, <2>11, <2>12, <2>13, <2>14
       DEF Next, Running, DoorStep, World
<1> QED
  BY <1>2, <1>3

\* An earned tip in force is a ladder climbed.
LEMMA EarnedSuffices == Climbing => LadderEarned
<1> SUFFICES ASSUME Climbing, Effective >= SIGNED_TESTNET PROVE LadderEarned
  BY DEF LadderEarned
<1>1. /\ ledger \in Seq(Records) /\ anchor \in Seq(Records) /\ mirror \in Records \cup {NoRecord}
      /\ EarnedInv
  BY DEF Climbing, Continuing, IInv, TypeOK
<1>2. /\ AnchorProblem(ledger, anchor) = "OK" /\ Effective = Tip(ledger).stage
  <2>1. Effective # READ_ONLY
    BY DEF READ_ONLY, SIGNED_TESTNET
  <2> DEFINE st == StageAt(clock)
  <2>2. st = Resolve(ledger, anchor, mirror, asks, policy, clock)
    BY DEF StageAt
  <2>3. Effective = st.stage
    BY DEF Effective
  <2> HIDE DEF st
  <2>4. st.stage # READ_ONLY => /\ AnchorProblem(ledger, anchor) = "OK"
                                /\ st.stage = Tip(ledger).stage
    BY <1>1, <2>2, ResolveType
  <2> QED
    BY <2>1, <2>3, <2>4
<1>3. ledger # <<>>
  BY <1>1, <1>2 DEF AnchorProblem, OnChain
<1> DEFINE t == Tip(ledger).eff
<1>4. Earned(Tip(ledger), asks, cycle)
  <2>1. Len(ledger) \in 1 .. Len(ledger) /\ Tip(ledger) = ledger[Len(ledger)]
    BY <1>1, <1>3 DEF Tip
  <2> QED
    BY <1>1, <2>1 DEF EarnedInv
<1>5. PICK test \in Tests(asks, t) :
        Effective >= LIVE_AUTONOMOUS => Lives(asks, test, t) # {} /\ cycle = "complete"
  BY <1>2, <1>4 DEF Earned
<1>6. test \in Consumed("CLIMB", SIGNED_TESTNET)
  BY <1>5 DEF Tests, Grants, Consumed
<1>7. PICK boot \in Boots(asks, t) : asks[boot].consumedAt < asks[test].consumedAt
  BY <1>5 DEF Tests
<1>8. boot \in Consumed("BOOTSTRAP", SHADOW) \cup Consumed("BOOTSTRAP", PAPER)
  BY <1>7 DEF Boots, Grants, Consumed, BOOTSTRAP_STAGES
<1>9. Effective >= LIVE_AUTONOMOUS =>
        \E live \in Consumed("CLIMB", LIVE_AUTONOMOUS) :
          asks[test].consumedAt < asks[live].consumedAt
  BY <1>5 DEF Lives, Grants, Consumed
<1> QED
  BY <1>5, <1>6, <1>7, <1>8, <1>9 DEF LadderEarned

\* While nothing is restored, no race of doors, deaths and policy changes puts the
\* machine on a rung whose climb, and every one below it from SIGNED_TESTNET, was not
\* granted in order by an ask of its own.
THEOREM LadderIsEarned == MaxArchives = 0 => (Spec => []LadderEarned)
<1>1. Init => Climbing
  BY InitContinuing, InitEarned DEF Climbing
<1>2. MaxArchives = 0 /\ Climbing /\ [Next]_vars => Climbing'
  BY ClimbingStep
<1>3. Climbing => LadderEarned
  BY EarnedSuffices
<1> SUFFICES ASSUME MaxArchives = 0 PROVE Spec => []LadderEarned
  OBVIOUS
<1>4. Climbing /\ [Next]_vars => Climbing'
  BY <1>2
<1> QED
  BY <1>1, <1>3, <1>4, PTL DEF Spec
-----------------------------------------------------------------------------
(* What moves the stage.  Rows are never from the future, so the time drops out  *)
(* of what a reader is told, and a witness once spent stays one.           *)

InForce(rows, anc, book) ==
  /\ rows # <<>> /\ Verifies(rows) /\ AnchorProblem(rows, anc) = "OK"
  /\ TransitionConsistent(Tip(rows)) /\ Witnessed(Tip(rows), book)

Level(rows, anc, book, pol) ==
  IF InForce(rows, anc, book) /\ Tip(rows).policy = pol THEN Tip(rows).stage ELSE READ_ONLY

LEMMA LevelOf ==
  ASSUME NEW rows \in Seq(Records), NEW anc, NEW mir, NEW book, NEW pol, NEW t \in Nat,
         rows # <<>> => Tip(rows).eff <= t
  PROVE  Resolve(rows, anc, mir, book, pol, t).stage = Level(rows, anc, book, pol)
<1> DEFINE why == Reason(rows, anc, mir, book, pol, t)
<1>1. rows # <<>> => Tip(rows).eff \in Nat
  BY TipType DEF Records
<1>2. CASE ~InForce(rows, anc, book)
  <2>1. why # "OK"
    BY <1>2 DEF Reason, InForce, AnchorProblem
  <2> QED
    BY <1>2, <2>1 DEF Resolve, Level
<1>3. CASE InForce(rows, anc, book)
  <2>1. ~(Tip(rows).eff > t) /\ rows # <<>> /\ Verifies(rows)
    BY <1>1, <1>3 DEF InForce
  <2>2. why = IF Tip(rows).stage # READ_ONLY /\ Tip(rows).policy # pol
              THEN "POLICY_CHANGED" ELSE "OK"
    BY <1>3, <2>1 DEF Reason, InForce
  <2>3. NamedRecord(rows, mir) = Tip(rows)
    BY <2>1 DEF NamedRecord
  <2>4. CASE Tip(rows).policy = pol
    BY <1>3, <2>2, <2>3, <2>4 DEF Resolve, Level
  <2>5. CASE Tip(rows).policy # pol
    BY <1>3, <2>2, <2>3, <2>5 DEF Resolve, Level
  <2> QED
    BY <2>4, <2>5
<1> QED
  BY <1>2, <1>3

\* A record that stands on nothing, or on an ask that was spent.
Stands(r, book) ==
  \/ r.trans = "DEMOTE" /\ r.stage = READ_ONLY
  \/ r.approval \in Times /\ book[r.approval].status = "CONSUMED"

\* What a process knows of the chain its record is about to extend.
Extends(r, rows, anc, book) ==
  /\ r.trans = "DEMOTE" /\ r.stage # READ_ONLY =>
       /\ InForce(rows, anc, book)
       /\ r.policy = Tip(rows).policy /\ r.stage < Tip(rows).stage
  /\ r.trans = "CLIMB" =>
       /\ InForce(rows, anc, book) /\ anc = rows
       /\ r.stage = Tip(rows).stage + 1 /\ Tip(rows).stage # READ_ONLY
       /\ TransitionConsistent(r) /\ Witnessed(r, book)
  /\ r.trans = "REBIND" => r.policy # Tip(rows).policy
  /\ r.trans = "BOOTSTRAP" => Level(rows, anc, book, r.policy) = READ_ONLY

\* A process on its way to its row: the chain it sets aside was not in force, and
\* one it starts anew may start; else it knows the chain.
WriterKnows(d) ==
  /\ pc[d] \in {"aside", "row"} => Stands(rec[d], asks)
  /\ pc[d] = "aside" => ChainToExtend(ledger, anchor) = <<>>
  /\ pc[d] = "aside" \/ (pc[d] = "row" /\ ledger = <<>>) => MayStartChain(rec[d])
  /\ pc[d] = "row" /\ ledger # <<>> => Extends(rec[d], ledger, anchor, asks)

\* No ask, and no mirror, names a record younger than itself.
ExtendsInv ==
  /\ mirror.eff <= clock
  /\ \A t \in Times : asks[t] # NoAsk => asks[t].content.ref.eff <= t
  /\ \A d \in Doors : pc[d] = "confirm" => arg[d] <= now[d]
  /\ \A i \in 1 .. Len(ledger) : Stands(ledger[i], asks)
  /\ \A d \in Doors : WriterKnows(d)

Moving == Continuing /\ ExtendsInv

LEMMA WitnessSame ==
  ASSUME NEW r, NEW book, NEW later, DOMAIN book = Times, DOMAIN later = Times,
         Stands(r, book),
         \A t \in Times : book[t].status = "CONSUMED" => later[t] = book[t]
  PROVE  (Witnessed(r, later) <=> Witnessed(r, book)) /\ Stands(r, later)
<1>1. CASE r.trans = "DEMOTE" /\ r.stage = READ_ONLY
  BY <1>1 DEF Witnessed, Stands
<1>2. CASE r.approval \in Times /\ book[r.approval].status = "CONSUMED"
  <2>1. later[r.approval] = book[r.approval]
    BY <1>2
  <2> QED
    BY <1>2, <2>1 DEF Witnessed, Stands
<1> QED
  BY <1>1, <1>2 DEF Stands

LEMMA LevelSame ==
  ASSUME NEW rows, NEW anc, NEW book, NEW later, DOMAIN book = Times, DOMAIN later = Times,
         rows # <<>> => Stands(Tip(rows), book),
         \A t \in Times : book[t].status = "CONSUMED" => later[t] = book[t]
  PROVE  /\ InForce(rows, anc, later) <=> InForce(rows, anc, book)
         /\ \A pol : Level(rows, anc, later, pol) = Level(rows, anc, book, pol)
<1>1. rows # <<>> => (Witnessed(Tip(rows), later) <=> Witnessed(Tip(rows), book))
  BY WitnessSame
<1>2. InForce(rows, anc, later) <=> InForce(rows, anc, book)
  BY <1>1 DEF InForce
<1> QED
  BY <1>2 DEF Level

LEMMA ExtendsKept ==
  ASSUME NEW r, NEW rows, NEW anc, NEW book, NEW later, DOMAIN book = Times,
         DOMAIN later = Times, rows # <<>>, Stands(Tip(rows), book), Stands(r, book),
         \A t \in Times : book[t].status = "CONSUMED" => later[t] = book[t],
         Extends(r, rows, anc, book)
  PROVE  Extends(r, rows, anc, later)
<1>1. Witnessed(r, later) <=> Witnessed(r, book)
  BY WitnessSame
<1>2. /\ InForce(rows, anc, later) <=> InForce(rows, anc, book)
      /\ \A pol : Level(rows, anc, later, pol) = Level(rows, anc, book, pol)
  BY LevelSame
<1> QED
  BY <1>1, <1>2 DEF Extends

\* The tip of the ledger stands, and is not from the future.
LEMMA TipStands ==
  ASSUME TypeOK, FreshInv, ExtendsInv, ledger # <<>>
  PROVE  Tip(ledger) \in Records /\ Stands(Tip(ledger), asks) /\ Tip(ledger).eff <= clock
<1>1. ledger \in Seq(Records)
  BY DEF TypeOK
<1>2. Len(ledger) \in 1 .. Len(ledger) /\ Tip(ledger) = ledger[Len(ledger)]
  BY <1>1 DEF Tip
<1> QED
  BY <1>1, <1>2 DEF FreshInv, Chains, ExtendsInv

LEMMA EffectiveIs ==
  ASSUME TypeOK, FreshInv, ExtendsInv
  PROVE  Effective = Level(ledger, anchor, asks, policy)
<1>1. ledger \in Seq(Records) /\ clock \in Nat
  BY BoundAssumption DEF TypeOK
<1>2. ledger # <<>> => Tip(ledger).eff <= clock
  BY TipStands
<1> QED
  BY <1>1, <1>2, LevelOf DEF Effective, StageAt

LEMMA InitMoving == Init => Moving
<1> SUFFICES ASSUME Init PROVE ExtendsInv
  BY InitContinuing DEF Moving
<1>1. /\ Continuing /\ \A d \in Doors : pc[d] = "idle"
      /\ policy \in Policies /\ ledger = Founding /\ ledger \in Seq(Records)
      /\ asks = [t \in Times |-> IF t \in DOMAIN ledger THEN FoundingAsk(t) ELSE NoAsk]
  BY InitContinuing, FoundingType DEF Init
<1>2. DOMAIN Founding = 1 .. Len(Founding)
  BY <1>1
<1>3. \A i \in 1 .. Len(Founding) : Founding[i] = FoundingRow(i) /\ i \in Times
  <2> DEFINE n == IF StartRung = READ_ONLY THEN 0 ELSE StartRung - 1
  <2>1. Founding = [i \in 1 .. n |-> FoundingRow(i)]
    BY DEF Founding
  <2>2. \A i \in 1 .. Len(Founding) : i \in Times
    BY <1>1, FoundingType
  <2> HIDE DEF n
  <2> QED
    BY <1>2, <2>1, <2>2
<1>4. \A i \in Nat : FoundingRow(i).approval = i /\ FoundingRow(i).eff = i
  BY DEF FoundingRow
<1>5. \A i \in 1 .. Len(ledger) : Stands(ledger[i], asks)
  <2> TAKE i \in 1 .. Len(ledger)
  <2>1. ledger[i].approval = i /\ i \in Times
    BY <1>1, <1>3, <1>4
  <2>2. asks[i] = FoundingAsk(i)
    BY <1>1, <1>2, <2>1
  <2>3. FoundingAsk(i).status = "CONSUMED"
    BY Zenon DEF FoundingAsk
  <2> QED
    BY <2>1, <2>2, <2>3 DEF Stands
<1>6. ASSUME NEW t \in Times, asks[t] # NoAsk PROVE asks[t].content.ref.eff <= t
  <2>1. t \in 1 .. Len(ledger) /\ asks[t] = FoundingAsk(t) /\ t \in Nat
    BY <1>1, <1>2, <1>6
  <2>2. FoundingAsk(t).content.ref = IF t = 1 THEN NoRecord ELSE Founding[t-1]
    BY Zenon DEF FoundingAsk
  <2>3. CASE t = 1
    BY <2>1, <2>2, <2>3 DEF NoRecord
  <2>4. CASE t # 1
    <3>1. t - 1 \in 1 .. Len(ledger) /\ t - 1 \in Nat
      BY <1>1, <2>1, <2>4
    <3>2. Founding[t-1] = FoundingRow(t - 1) /\ FoundingRow(t - 1).eff = t - 1
      BY <1>1, <1>3, <1>4, <3>1
    <3> QED
      BY <2>1, <2>2, <2>4, <3>1, <3>2
  <2> QED
    BY <2>3, <2>4
<1>7. mirror.eff <= clock
  <2>1. clock = Len(ledger) /\ mirror = IF ledger = <<>> THEN NoRecord ELSE Tip(ledger)
    BY DEF Init
  <2>2. CASE ledger = <<>>
    BY <2>1, <2>2 DEF NoRecord
  <2>3. CASE ledger # <<>>
    <3>1. Len(ledger) \in 1 .. Len(ledger)
      BY <1>1, <2>3
    <3> QED
      BY <1>1, <1>3, <1>4, <2>1, <2>3, <3>1 DEF Tip
  <2> QED
    BY <2>2, <2>3
<1> QED
  BY <1>1, <1>5, <1>6, <1>7 DEF ExtendsInv, WriterKnows

\* What a binding status says of the chain it was read from.
LEMMA BindingMeans ==
  ASSUME NEW rows, rows # <<>>, NEW anc, NEW mir, NEW book, NEW pol, NEW t,
         Binding(Resolve(rows, anc, mir, book, pol, t))
  PROVE  /\ InForce(rows, anc, book) /\ Tip(rows).policy = pol
         /\ Tip(rows).stage # READ_ONLY
         /\ Resolve(rows, anc, mir, book, pol, t).rec = Tip(rows)
<1> DEFINE why == Reason(rows, anc, mir, book, pol, t)
           st == Resolve(rows, anc, mir, book, pol, t)
<1>1. why = "OK" /\ st.rec = NamedRecord(rows, mir) /\ st.stage = st.rec.stage
  BY DEF Binding, Resolve
<1>2. /\ Verifies(rows) /\ AnchorProblem(rows, anc) = "OK"
      /\ TransitionConsistent(Tip(rows)) /\ Witnessed(Tip(rows), book)
      /\ ~(Tip(rows).stage # READ_ONLY /\ Tip(rows).policy # pol)
  BY <1>1 DEF Reason
<1>3. st.rec = Tip(rows) /\ Tip(rows).stage # READ_ONLY
  BY <1>1, <1>2 DEF NamedRecord, Binding
<1> QED
  BY <1>2, <1>3 DEF InForce

\* A chain whose anchor is not behind is all vouched for.
LEMMA AnchorAtTip ==
  ASSUME NEW rows \in Seq(Records), NEW anc \in Seq(Records),
         OnChain(anc, rows), Len(anc) = Len(rows)
  PROVE  anc = rows
BY DEF OnChain

\* A demotion lowers the stage in force, and stands on what its ancestor stood on.
LEMMA DemoteExtends ==
  ASSUME TypeOK, NEW d \in Doors, ledger # <<>>,
         DemoteRecord(StageAt(now[d]), arg[d], now[d]) # NoRecord
  PROVE  LET r == DemoteRecord(StageAt(now[d]), arg[d], now[d]) IN
         Stands(r, asks) /\ Extends(r, ledger, anchor, asks)
<1> DEFINE st == StageAt(now[d])
           r == DemoteRecord(st, arg[d], now[d])
<1>1. CASE r.stage = READ_ONLY
  <2>1. r.trans = "DEMOTE"
    BY DEF DemoteRecord
  <2> QED
    BY <1>1, <2>1 DEF Stands, Extends
<1>2. CASE r.stage # READ_ONLY
  <2>1. /\ Binding(st) /\ arg[d] < st.rec.stage /\ r.trans = "DEMOTE" /\ r.stage = arg[d]
        /\ r.approval = st.rec.approval /\ r.policy = st.rec.policy
    BY <1>2 DEF DemoteRecord
  <2>2. InForce(ledger, anchor, asks) /\ st.rec = Tip(ledger) /\ Tip(ledger).stage # READ_ONLY
    BY <2>1, BindingMeans DEF StageAt
  <2>3. Stands(r, asks)
    <3>1. Witnessed(Tip(ledger), asks) /\ DOMAIN asks = Times
      BY <2>2 DEF InForce, TypeOK
    <3> QED
      BY <2>1, <2>2, <3>1 DEF Witnessed, Stands
  <2>4. Extends(r, ledger, anchor, asks)
    <3> HIDE DEF r, st
    <3> QED
      BY <2>1, <2>2 DEF Extends
  <2> QED
    BY <2>3, <2>4
<1> QED
  BY <1>1, <1>2

\* When each kind of ask is planned.
LEMMA PlanKinds ==
  ASSUME NEW st, NEW target, NEW pol, NEW done
  PROVE  LET plan == Plan(st, target, pol, done) IN
         /\ plan.trans = "CLIMB" => /\ Binding(st) /\ ~st.behind
                                   /\ plan.to = st.rec.stage + 1 /\ plan.from = st.rec.stage
         /\ plan.trans = "REBIND" => st.reason = "POLICY_CHANGED"
         /\ plan.trans = "BOOTSTRAP" => ~Binding(st)
         /\ plan.trans # "DEMOTE"
<1> DEFINE plan == Plan(st, target, pol, done)
<1>1. CASE plan = NoContent
  <2>1. NoContent.trans = "NONE"
    BY DEF NoContent
  <2> QED
    BY <1>1, <2>1
<1>2. CASE Binding(st) /\ plan # NoContent
  BY <1>2 DEF Plan
<1>3. CASE ~Binding(st) /\ plan # NoContent
  BY <1>3 DEF Plan
<1> QED
  BY <1>1, <1>2, <1>3

\* A grant climbs one rung over the stage in force, replaces a record bound to
\* another policy, or starts over when nothing is in force.
LEMMA ConfirmExtends ==
  ASSUME Moving, NEW d \in Doors, ConfirmSpend(d), pc'[d] = "row", ledger # <<>>,
         \A t \in Times : asks[t].status = "CONSUMED" => asks'[t] = asks[t],
         asks' \in [Times -> Asks]
  PROVE  Extends(rec'[d], ledger, anchor, asks')
<1> DEFINE a == arg[d]
           ask == asks[a]
           st == StageAt(now[d])
           record == RecordFromApproved(ask.content, a, st, policy,
                                        cycle = "complete", now[d])
<1>1. /\ asks \in [Times -> Asks] /\ pc \in [Doors -> PCs] /\ rec \in [Doors -> Records \cup {NoRecord}]
      /\ a \in Times /\ a # 0 /\ ledger \in Seq(Records) /\ anchor \in Seq(Records)
      /\ TypeOK /\ FreshInv /\ ExtendsInv /\ PromisedInv /\ pc[d] = "confirm"
      /\ now[d] \in Nat /\ a \in Nat
  BY BoundAssumption DEF Moving, Continuing, IInv, TypeOK, LockInv, ConfirmSpend, Times
<1>2. ~Leave(d)
  BY <1>1 DEF Leave
<1>3. /\ ask.status = "APPROVED" /\ record # NoRecord
      /\ asks' = [asks EXCEPT ![a].status = "CONSUMED", ![a].consumedAt = now[d]]
      /\ StartAppend(d, record)
  BY <1>2 DEF ConfirmSpend
<1>4. rec'[d] = record
  BY <1>1, <1>3 DEF StartAppend
<1>5. ask \in [status : {"PENDING", "APPROVED", "CONSUMED"},
               content : Contents, consumedAt : Nat] /\ ask # NoAsk
  BY <1>1, <1>3 DEF Asks, NoAsk
<1>6. /\ asks'[a].status = "CONSUMED" /\ asks'[a].consumedAt = now[d]
      /\ asks'[a].content = ask.content
  BY <1>1, <1>3, <1>5
<1>7. /\ ask.content.ref = st.rec /\ ask.content.policy = policy
      /\ Plan(st, ask.content.to, policy, cycle = "complete") = ask.content
      /\ record.stage = ask.content.to /\ record.prev = ask.content.from
      /\ record.trans = ask.content.trans /\ record.approval = a
      /\ record.policy = policy /\ record.eff = now[d]
  BY <1>3 DEF RecordFromApproved
<1>8. Verifies(ledger) /\ st.rec = Tip(ledger)
  <2>1. ChainToExtend(ledger, anchor) # <<>>
    BY <1>1, <1>3 DEF StartAppend
  <2>2. Verifies(ledger)
    BY <2>1 DEF ChainToExtend
  <2> QED
    BY <2>2 DEF NamedRecord, StageAt, Resolve
<1>9. Tip(ledger) \in Records /\ Stands(Tip(ledger), asks) /\ Tip(ledger).eff <= now[d]
  <2>1. Tip(ledger) \in Records /\ Stands(Tip(ledger), asks)
    BY <1>1, TipStands
  <2>2. ask.content.ref.eff <= a /\ a <= now[d]
    BY <1>1, <1>5 DEF ExtendsInv
  <2> QED
    BY <1>1, <1>7, <1>8, <2>1, <2>2 DEF Records
<1>10. /\ DOMAIN asks = Times /\ DOMAIN asks' = Times
       /\ InForce(ledger, anchor, asks) => InForce(ledger, anchor, asks')
       /\ \A pol : Level(ledger, anchor, asks', pol) = Level(ledger, anchor, asks, pol)
  <2>1. DOMAIN asks = Times /\ DOMAIN asks' = Times
    BY <1>1
  <2> QED
    BY <1>9, <2>1, LevelSame
<1>11. ASSUME record.trans = "CLIMB"
       PROVE  /\ InForce(ledger, anchor, asks') /\ anchor = ledger
              /\ record.stage = Tip(ledger).stage + 1 /\ Tip(ledger).stage # READ_ONLY
              /\ TransitionConsistent(record) /\ Witnessed(record, asks')
  <2>1. /\ Binding(st) /\ ~st.behind
        /\ ask.content.to = st.rec.stage + 1 /\ ask.content.from = st.rec.stage
    BY <1>7, <1>11, PlanKinds
  <2>2. InForce(ledger, anchor, asks) /\ Tip(ledger).stage # READ_ONLY
    BY <2>1, BindingMeans DEF StageAt
  <2>3. anchor = ledger
    <3>1. OnChain(anchor, ledger)
      BY <2>2 DEF InForce, AnchorProblem
    <3>2. Len(anchor) = Len(ledger)
      <4>1. st.valid
        BY <2>1 DEF Binding
      <4> QED
        BY <2>1, <4>1 DEF StageAt, Resolve
    <3> QED
      BY <1>1, <3>1, <3>2, AnchorAtTip
  <2>4. TransitionConsistent(record)
    BY <1>1, <1>7, <1>8, <1>9, <1>11, <2>1, <2>2
       DEF TransitionConsistent, Records, LADDER, NONE, READ_ONLY
  <2>5. Witnessed(record, asks')
    BY <1>1, <1>6, <1>7, <1>10, <1>11 DEF Witnessed
  <2> QED
    BY <1>7, <1>8, <1>10, <2>1, <2>2, <2>3, <2>4, <2>5
<1>12. ASSUME record.trans = "REBIND" PROVE record.policy # Tip(ledger).policy
  <2>1. st.reason = "POLICY_CHANGED"
    BY <1>7, <1>12, PlanKinds
  <2>2. Reason(ledger, anchor, mirror, asks, policy, now[d]) = "POLICY_CHANGED"
    BY <2>1 DEF StageAt, Resolve
  <2>3. Tip(ledger).policy # policy
    BY <2>2 DEF Reason, AnchorProblem
  <2> QED
    BY <1>7, <2>3
<1>13. ASSUME record.trans = "BOOTSTRAP"
       PROVE  Level(ledger, anchor, asks', record.policy) = READ_ONLY
  <2>1. ~Binding(st)
    BY <1>7, <1>13, PlanKinds
  <2>2. st.stage = READ_ONLY
    BY <2>1 DEF Binding, StageAt, Resolve
  <2>3. st.stage = Level(ledger, anchor, asks, policy)
    BY <1>1, <1>9, LevelOf DEF StageAt
  <2> QED
    BY <1>7, <1>10, <2>2, <2>3
<1>14. record.trans # "DEMOTE"
  BY <1>7, PlanKinds
<1> HIDE DEF record, st
<1> QED
  BY <1>4, <1>11, <1>12, <1>13, <1>14 DEF Extends

\* Nothing is asked over a record of a second to come.
LEMMA AsksLookBack ==
  ASSUME MaxArchives = 0, Moving, Next
  PROVE  \A t \in Times : asks'[t] # NoAsk => asks'[t].content.ref.eff <= t
<1>1. /\ asks \in [Times -> Asks] /\ clock \in Nat /\ ledger \in Seq(Records)
      /\ TypeOK /\ FreshInv /\ ExtendsInv /\ PromisedInv /\ LockInv
  BY BoundAssumption DEF Moving, Continuing, IInv, TypeOK
<1>2. \A t \in Times : asks[t] # NoAsk => asks[t].content.ref.eff <= t
  BY <1>1 DEF ExtendsInv
<1>3. NoAsk.status = "NONE"
  BY DEF NoAsk
\* A step that only answers an ask, or spends it, leaves its content alone.
<1>4. ASSUME NEW a \in Times, asks[a].status \in {"PENDING", "APPROVED"},
             \A t \in Times : t # a => asks'[t] = asks[t],
             asks'[a].content = asks[a].content
      PROVE  \A t \in Times : asks'[t] # NoAsk => asks'[t].content.ref.eff <= t
  BY <1>2, <1>3, <1>4
<1>5. ASSUME NEW a \in Times, asks[a].status \in {"PENDING", "APPROVED"}
      PROVE  asks[a] \in [status : {"PENDING", "APPROVED", "CONSUMED"},
                          content : Contents, consumedAt : Nat]
  BY <1>1, <1>3, <1>5 DEF Asks
<1>6. CASE asks' = asks
  BY <1>2, <1>6
<1>7. ASSUME NEW target \in Targets, Request(target)
      PROVE  \A t \in Times : asks'[t] # NoAsk => asks'[t].content.ref.eff <= t
  <2> DEFINE st == StageAt(clock + 1)
             content == Plan(st, target, policy, cycle = "complete")
  <2>1. /\ content # NoContent /\ clock + 1 \in Times
        /\ asks' = [asks EXCEPT ![clock + 1] = [status |-> "PENDING", content |-> content,
                                                consumedAt |-> 0]]
    BY <1>7 DEF Request
  <2>2. content.ref = st.rec
    BY <2>1 DEF Plan
  <2>3. st.rec = NamedRecord(ledger, mirror)
    BY DEF StageAt, Resolve
  <2>4. NamedRecord(ledger, mirror).eff <= clock + 1
    <3>1. mirror.eff <= clock /\ mirror \in Records \cup {NoRecord}
      BY <1>1 DEF ExtendsInv, TypeOK
    <3>2. NoRecord.eff = 0 /\ mirror.eff \in Nat
      BY <3>1 DEF NoRecord, Records
    <3>3. CASE ledger = <<>>
      BY <1>1, <3>1, <3>2, <3>3 DEF NamedRecord
    <3>4. CASE ledger # <<>>
      <4>1. Tip(ledger) \in Records /\ Tip(ledger).eff <= clock
        BY <1>1, <3>4, TipStands
      <4> QED
        BY <1>1, <3>2, <3>4, <4>1 DEF NamedRecord, Records
    <3> QED
      BY <3>3, <3>4
  <2> HIDE DEF content, st
  <2>5. asks'[clock + 1].content.ref.eff <= clock + 1
    BY <1>1, <2>1, <2>2, <2>3, <2>4
  <2>6. \A t \in Times : t # clock + 1 => asks'[t] = asks[t]
    BY <1>1, <2>1
  <2> QED
    BY <1>2, <2>5, <2>6
<1>8. ASSUME NEW a \in Times, Approve(a)
      PROVE  \A t \in Times : asks'[t] # NoAsk => asks'[t].content.ref.eff <= t
  <2>1. asks[a].status = "PENDING" /\ asks' = [asks EXCEPT ![a].status = "APPROVED"]
    BY <1>8 DEF Approve
  <2>2. asks'[a].content = asks[a].content /\ \A t \in Times : t # a => asks'[t] = asks[t]
    BY <1>1, <1>5, <2>1
  <2> QED
    BY <1>4, <2>1, <2>2
<1>9. ASSUME NEW d \in Doors, ConfirmSpend(d)
      PROVE  \A t \in Times : asks'[t] # NoAsk => asks'[t].content.ref.eff <= t
  <2>1. \/ asks' = asks
        \/ /\ asks[arg[d]].status = "APPROVED" /\ arg[d] \in Times
           /\ asks' = [asks EXCEPT ![arg[d]].status = "CONSUMED", ![arg[d]].consumedAt = now[d]]
    BY <1>1, <1>9 DEF ConfirmSpend, LockInv
  <2>2. CASE asks' # asks
    <3>1. /\ asks'[arg[d]].content = asks[arg[d]].content
          /\ \A t \in Times : t # arg[d] => asks'[t] = asks[t]
      BY <1>1, <1>5, <2>1, <2>2
    <3> QED
      BY <1>4, <2>1, <2>2, <3>1
  <2> QED
    BY <1>6, <2>2
<1>10. ASSUME NEW d \in Doors,
              \/ DoorBegin(d) \/ DemotePlan(d) \/ SyncAnchor(d) \/ SetAside(d) \/ WriteRow(d)
              \/ WriteAnchor(d) \/ WriteMirror(d) \/ Crash(d)
       PROVE  asks' = asks
  BY <1>10 DEF DoorBegin, ConfirmBegin, DemoteBegin, SyncBegin, Begin, DemotePlan,
               SyncAnchor, SetAside, WriteRow, WriteAnchor, WriteMirror, Crash
<1>11. ASSUME World PROVE asks' = asks
  <2>1. PolicyChange \/ StartCycle \/ FinishCycle \/ Backup
    BY <1>1, <1>11 DEF World, PromisedInv
  <2> QED
    BY <2>1 DEF PolicyChange, StartCycle, FinishCycle, Backup
<1> QED
  BY <1>6, <1>7, <1>8, <1>9, <1>10, <1>11 DEF Next, Running, DoorStep

LEMMA MovingStep ==
  MaxArchives = 0 /\ Moving /\ [Next]_vars => Moving'
<1> SUFFICES ASSUME MaxArchives = 0, Moving, [Next]_vars
             PROVE  ExtendsInv'
  BY ContinuingStep DEF Moving
<1>1. CASE UNCHANGED vars
  BY <1>1 DEF vars, Moving, ExtendsInv, WriterKnows
<1>2. CASE Next
  <2>1. /\ pc \in [Doors -> PCs] /\ rec \in [Doors -> Records \cup {NoRecord}]
        /\ ledger \in Seq(Records) /\ asks \in [Times -> Asks] /\ clock \in Nat
        /\ now \in [Doors -> 0 .. MaxTime] /\ arg \in [Doors -> Nat] /\ MaxTime \in Nat
        /\ TypeOK /\ LockInv /\ FreshInv /\ PromisedInv /\ ExtendsInv /\ RowsInv
        /\ DOMAIN asks = Times
    BY BoundAssumption DEF Moving, Continuing, IInv, TypeOK
  <2>2. /\ \A t \in Times : asks[t].status = "CONSUMED" => asks'[t] = asks[t]
        /\ archives' = {} /\ asks' \in [Times -> Asks] /\ DOMAIN asks' = Times
        /\ PromisedInv'
    <3>1. Overtaking /\ MaxArchives = 0
      BY DEF Moving, Continuing, IInv, Overtaking
    <3>2. asks' \in [Times -> Asks]
      BY <2>1, TypingStep DEF TypeOK
    <3>3. PromisedInv'
      BY <3>1, OvertakingStep DEF Overtaking
    <3> QED
      BY <1>2, <3>1, <3>2, <3>3, AsksKept
  <2>3. \A t \in Times : asks'[t] # NoAsk => asks'[t].content.ref.eff <= t
    BY <1>2, AsksLookBack
\* Nothing a reader stands on is taken away.
  <2>4. \A r : Stands(r, asks) => Stands(r, asks')
    BY <2>1, <2>2, WitnessSame
  <2> DEFINE Clocks == /\ mirror'.eff <= clock'
                       /\ \A d \in Doors : pc'[d] = "confirm" => arg'[d] <= now'[d]
             Rows == \A i \in 1 .. Len(ledger') : Stands(ledger'[i], asks')
             Knows(d) == WriterKnows(d)'
  <2>5. ASSUME Clocks, Rows, \A d \in Doors : Knows(d) PROVE ExtendsInv'
    BY <2>3, <2>5 DEF ExtendsInv
  <2>6. ASSUME ledger' = ledger PROVE Rows
    BY <2>1, <2>4, <2>6 DEF ExtendsInv
\* A process the step does not move, on a chain it leaves alone.
  <2>7. ASSUME NEW d \in Doors, ledger' = ledger,
               pc[d] \in {"aside", "row"} => anchor' = anchor,
               pc'[d] \in {"aside", "row"} => pc'[d] = pc[d] /\ rec'[d] = rec[d]
        PROVE  Knows(d)
    <3>1. CASE pc'[d] \notin {"aside", "row"}
      BY <3>1 DEF WriterKnows
    <3>2. CASE pc'[d] \in {"aside", "row"}
      <4>1. WriterKnows(d) /\ pc'[d] = pc[d] /\ rec'[d] = rec[d] /\ anchor' = anchor
        BY <2>1, <2>7, <3>2 DEF ExtendsInv
      <4>2. Stands(rec[d], asks)
        BY <3>2, <4>1 DEF WriterKnows
      <4>3. ASSUME pc[d] = "row", ledger # <<>>
            PROVE  Extends(rec[d], ledger, anchor, asks')
        <5>1. Stands(Tip(ledger), asks)
          BY <2>1, <4>3, TipStands
        <5> QED
          BY <2>1, <2>2, <4>1, <4>2, <4>3, <5>1, ExtendsKept DEF WriterKnows
      <4> QED
        BY <2>4, <2>7, <4>1, <4>2, <4>3 DEF WriterKnows
    <3> QED
      BY <3>1, <3>2
  <2>8. ASSUME UNCHANGED <<mirror, pc, arg, now>>, clock' = clock \/ clock' = clock + 1
        PROVE  Clocks
    <3>1. mirror.eff <= clock /\ mirror.eff \in Nat
      BY <2>1 DEF ExtendsInv, TypeOK, Records, NoRecord
    <3> QED
      BY <2>1, <2>8, <3>1 DEF ExtendsInv
  <2>9. ASSUME UNCHANGED <<ledger, anchor, mirror, pc, arg, now, rec>>,
               clock' = clock \/ clock' = clock + 1
        PROVE  ExtendsInv'
    BY <2>5, <2>6, <2>7, <2>8, <2>9
  <2>10. ASSUME NEW d \in Doors, DoorBegin(d) PROVE ExtendsInv'
    <3>1. /\ UNCHANGED <<ledger, anchor, mirror, rec>> /\ clock' = clock + 1
          /\ pc'[d] \in Waiting /\ now'[d] = clock + 1
          /\ \A e \in Doors : e # d => pc'[e] = pc[e] /\ arg'[e] = arg[e] /\ now'[e] = now[e]
      BY <2>1, <2>10 DEF DoorBegin, ConfirmBegin, DemoteBegin, SyncBegin, Begin, stores, Waiting
    <3>2. ASSUME pc'[d] = "confirm" PROVE arg'[d] <= clock + 1
      <4>1. \E a \in Times : ConfirmBegin(d, a)
        BY <2>1, <2>10, <3>2 DEF DoorBegin, DemoteBegin, SyncBegin, Begin
      <4>2. PICK a \in Times : ConfirmBegin(d, a)
        BY <4>1
      <4>3. arg'[d] = a /\ asks[a].status = "APPROVED" /\ a \in Nat
        BY <2>1, <4>2 DEF ConfirmBegin, Begin, Times
      <4>4. ~(a > clock)
        BY <2>1, <4>3 DEF PromisedInv, NoAsk
      <4> QED
        BY <2>1, <4>3, <4>4
    <3>3. Clocks
      <4>1. mirror.eff <= clock /\ mirror.eff \in Nat
        BY <2>1 DEF ExtendsInv, TypeOK, Records, NoRecord
      <4>2. ASSUME NEW e \in Doors, pc'[e] = "confirm" PROVE arg'[e] <= now'[e]
        <5>1. CASE e = d
          BY <3>1, <3>2, <4>2, <5>1
        <5>2. CASE e # d
          BY <2>1, <3>1, <4>2, <5>2 DEF ExtendsInv
        <5> QED
          BY <5>1, <5>2
      <4> QED
        BY <2>1, <3>1, <4>1, <4>2
    <3>4. \A e \in Doors : Knows(e)
      BY <2>7, <3>1 DEF Waiting
    <3> QED
      BY <2>5, <2>6, <3>1, <3>3, <3>4
\* A process that leaves, without having touched the ledger.
  <2>11. ASSUME NEW d \in Doors, Leave(d), ledger' = ledger, clock' = clock,
                mirror'.eff <= clock,
                anchor' = anchor \/ \A e \in Doors : pc[e] \notin {"aside", "row"}
         PROVE  ExtendsInv'
    <3>1. /\ pc'[d] = "idle"
          /\ \A e \in Doors : e # d => /\ pc'[e] = pc[e] /\ rec'[e] = rec[e]
                                       /\ arg'[e] = arg[e] /\ now'[e] = now[e]
      BY <2>1, <2>11 DEF Leave
    <3>2. Clocks
      BY <2>1, <2>11, <3>1 DEF ExtendsInv
    <3>3. \A e \in Doors : Knows(e)
      BY <2>7, <2>11, <3>1
    <3> QED
      BY <2>5, <2>6, <2>11, <3>2, <3>3
  <2>12. mirror.eff <= clock
    BY <2>1 DEF ExtendsInv
  <2>13. ASSUME NEW d \in Doors, ConfirmSpend(d) \/ DemotePlan(d) PROVE ExtendsInv'
    <3>1. UNCHANGED <<ledger, anchor, mirror, clock>>
      BY <2>13 DEF ConfirmSpend, DemotePlan, stores
    <3>2. CASE Leave(d)
      BY <2>11, <2>12, <3>1, <3>2
    <3>3. ASSUME NEW r, StartAppend(d, r), r # NoRecord, Appendable(r, ledger, anchor),
                 Stands(r, asks'),
                 pc'[d] = "row" /\ ledger # <<>> => Extends(r, ledger, anchor, asks')
          PROVE  ExtendsInv'
      <4>1. /\ rec'[d] = r /\ now' = now /\ arg' = arg
            /\ pc'[d] = IF ledger # <<>> /\ ChainToExtend(ledger, anchor) = <<>>
                        THEN "aside" ELSE "row"
            /\ \A e \in Doors : e # d => pc'[e] = pc[e] /\ rec'[e] = rec[e]
        BY <2>1, <3>3 DEF StartAppend
      <4>2. Clocks
        BY <2>1, <2>12, <3>1, <4>1 DEF ExtendsInv
      <4>3. ledger = <<>> => ChainToExtend(ledger, anchor) = <<>>
        BY DEF ChainToExtend
      <4>4. Knows(d)
        BY <3>1, <3>3, <4>1, <4>3 DEF WriterKnows, Appendable
      <4>5. \A e \in Doors : Knows(e)
        <5> TAKE e \in Doors
        <5>1. CASE e # d
          BY <2>7, <3>1, <4>1, <5>1
        <5> QED
          BY <4>4, <5>1
      <4> QED
        BY <2>5, <2>6, <3>1, <4>2, <4>5
    <3>4. CASE ConfirmSpend(d) /\ ~Leave(d)
      <4> DEFINE record == RecordFromApproved(asks[arg[d]].content, arg[d], StageAt(now[d]),
                                              policy, cycle = "complete", now[d])
      <4>1. StartAppend(d, record) /\ record # NoRecord /\ Appendable(record, ledger, anchor)
        BY <3>4 DEF ConfirmSpend
      <4>2. rec'[d] = record /\ pc'[d] \in {"aside", "row"}
        BY <2>1, <4>1 DEF StartAppend
      <4>3. pc'[d] = "row" /\ ledger # <<>> => Extends(record, ledger, anchor, asks')
        BY <2>2, <3>4, <4>2, ConfirmExtends
      <4>4. Stands(record, asks')
        <5>1. Overtaking
          BY DEF Moving, Continuing, IInv, Overtaking
        <5> QED
          BY <3>4, <4>2, <5>1, ConfirmPromises DEF Stands
      <4> HIDE DEF record
      <4> QED
        BY <3>3, <4>1, <4>3, <4>4
    <3>5. CASE DemotePlan(d) /\ ~Leave(d)
      <4> DEFINE record == DemoteRecord(StageAt(now[d]), arg[d], now[d])
      <4>1. /\ StartAppend(d, record) /\ record # NoRecord
            /\ Appendable(record, ledger, anchor) /\ asks' = asks
        BY <3>5 DEF DemotePlan
      <4>2. ledger # <<>> => Stands(record, asks) /\ Extends(record, ledger, anchor, asks)
        BY <2>1, <4>1, DemoteExtends
      <4>3. ledger = <<>> => Stands(record, asks)
        <5>1. record.trans = "DEMOTE"
          BY <4>1 DEF DemoteRecord
        <5>2. ledger = <<>> => MayStartChain(record)
          <6> HIDE DEF record
          <6> QED
            BY <4>1 DEF Appendable, ChainToExtend
        <5> HIDE DEF record
        <5> QED
          BY <5>1, <5>2 DEF MayStartChain, Stands
      <4> HIDE DEF record
      <4> QED
        BY <3>3, <4>1, <4>2, <4>3
    <3> QED
      BY <2>13, <3>2, <3>4, <3>5
  <2>14. ASSUME NEW d \in Doors, pc[d] \in Writing
         PROVE  \A e \in Doors : e # d => pc[e] \notin Writing
    BY <2>1, <2>14, DoorAssumption DEF LockInv
  <2>15. ASSUME NEW d \in Doors, SetAside(d) PROVE ExtendsInv'
    <3>1. /\ ledger' = <<>> /\ UNCHANGED <<anchor, mirror, clock, asks, now, arg, rec>>
          /\ pc[d] = "aside" /\ pc'[d] = "row"
          /\ \A e \in Doors : e # d => pc'[e] = pc[e]
      BY <2>1, <2>15 DEF SetAside
    <3>2. Clocks
      BY <2>1, <2>12, <3>1 DEF ExtendsInv
    <3>3. Rows
      BY <3>1
    <3>4. Knows(d)
      BY <2>1, <3>1 DEF ExtendsInv, WriterKnows
    <3>5. \A e \in Doors : e # d => Knows(e)
      BY <2>14, <3>1 DEF WriterKnows, Writing
    <3> QED
      BY <2>5, <3>2, <3>3, <3>4, <3>5
  <2>16. ASSUME NEW d \in Doors, WriteRow(d) PROVE ExtendsInv'
    <3>1. /\ ledger' = Append(ledger, rec[d])
          /\ UNCHANGED <<anchor, mirror, clock, asks, now, arg, rec>>
          /\ pc[d] = "row" /\ pc'[d] = "anchor"
          /\ \A e \in Doors : e # d => pc'[e] = pc[e]
      BY <2>1, <2>16 DEF WriteRow
    <3>2. Clocks
      BY <2>1, <2>12, <3>1 DEF ExtendsInv
    <3>3. Rows
      <4>1. rec[d] \in Records /\ Stands(rec[d], asks)
        BY <2>1, <3>1 DEF LockInv, Writing, ExtendsInv, WriterKnows
      <4>2. /\ Len(ledger') = Len(ledger) + 1 /\ Len(ledger) \in Nat
            /\ ledger'[Len(ledger) + 1] = rec[d]
            /\ \A i \in 1 .. Len(ledger) : ledger'[i] = ledger[i]
        BY <2>1, <3>1, <4>1
      <4> QED
        BY <2>1, <3>1, <4>1, <4>2 DEF ExtendsInv
    <3>4. \A e \in Doors : Knows(e)
      BY <2>14, <3>1 DEF WriterKnows, Writing
    <3> QED
      BY <2>5, <3>2, <3>3, <3>4
  <2>17. ASSUME NEW d \in Doors, WriteAnchor(d) PROVE ExtendsInv'
    <3>1. /\ UNCHANGED <<ledger, mirror, clock, asks, now, arg, rec>>
          /\ pc[d] = "anchor" /\ pc'[d] = "mirror"
          /\ \A e \in Doors : e # d => pc'[e] = pc[e]
      BY <2>1, <2>17 DEF WriteAnchor
    <3>2. Clocks
      BY <2>1, <2>12, <3>1 DEF ExtendsInv
    <3>3. \A e \in Doors : Knows(e)
      BY <2>14, <3>1 DEF WriterKnows, Writing
    <3> QED
      BY <2>5, <2>6, <3>1, <3>2, <3>3
  <2>18. ASSUME NEW d \in Doors, SyncAnchor(d) PROVE ExtendsInv'
    <3>1. \A e \in Doors : pc[e] \notin {"aside", "row"}
      BY <2>1, <2>18, DoorAssumption DEF SyncAnchor, LockInv, Writing
    <3>2. UNCHANGED <<ledger, mirror, clock>> /\ Leave(d)
      BY <2>18 DEF SyncAnchor
    <3> QED
      BY <2>11, <2>12, <3>1, <3>2
  <2>19. ASSUME NEW d \in Doors, WriteMirror(d) PROVE ExtendsInv'
    <3>1. /\ UNCHANGED <<ledger, anchor, clock>> /\ Leave(d) /\ mirror' = rec[d]
          /\ pc[d] = "mirror"
      BY <2>19 DEF WriteMirror
    <3>2. rec[d].eff <= clock
      BY <2>1, <3>1 DEF LockInv, FreshInv, Writing
    <3> QED
      BY <2>11, <3>1, <3>2
  <2>20. ASSUME NEW d \in Doors, Crash(d) PROVE ExtendsInv'
    <3>1. UNCHANGED <<ledger, anchor, mirror, clock>> /\ Leave(d)
      BY <2>20 DEF Crash, stores
    <3> QED
      BY <2>11, <2>12, <3>1
  <2>21. ASSUME \/ \E target \in Targets : Request(target)
                \/ \E t \in Times : Approve(t)
                \/ PolicyChange \/ StartCycle \/ FinishCycle \/ Backup
         PROVE  ExtendsInv'
    <3>1. /\ UNCHANGED <<ledger, anchor, mirror, pc, arg, now, rec>>
          /\ clock' = clock \/ clock' = clock + 1
      BY <2>21 DEF Request, Approve, PolicyChange, StartCycle, FinishCycle, Backup, stores,
                   doorVars
    <3> QED
      BY <2>9, <3>1
  <2>22. ~ \E b \in archives, wiped \in BOOLEAN : Restore(b, wiped)
    BY <2>1 DEF PromisedInv
  <2> QED
    BY <1>2, <2>10, <2>13, <2>15, <2>16, <2>17, <2>18, <2>19, <2>20, <2>21, <2>22
       DEF Next, Running, DoorStep, World
<1> QED
  BY <1>1, <1>2

LEMMA LevelType ==
  ASSUME NEW rows \in Seq(Records), NEW anc, NEW book, NEW pol
  PROVE  Level(rows, anc, book, pol) \in LADDER
<1>1. rows # <<>> => Tip(rows).stage \in LADDER
  BY TipType DEF Records
<1> QED
  BY <1>1 DEF Level, InForce, LADDER, READ_ONLY, LIVE_SCALED

\* The stage in force before and after a step.
LEMMA EffectiveNow ==
  ASSUME Moving, Moving'
  PROVE  /\ Effective = Level(ledger, anchor, asks, policy) /\ Effective \in LADDER
         /\ Effective' = Level(ledger', anchor', asks', policy') /\ Effective' \in LADDER
<1>0. TypeOK /\ FreshInv /\ ExtendsInv /\ TypeOK' /\ FreshInv'
  BY DEF Moving, Continuing, IInv
<1>1. ledger \in Seq(Records) /\ ledger' \in Seq(Records) /\ clock' \in Nat
  BY <1>0, BoundAssumption DEF TypeOK
<1>2. Effective = Level(ledger, anchor, asks, policy)
  BY <1>0, EffectiveIs
<1>3. ledger' # <<>> => Tip(ledger').eff <= clock'
  <2>1. ledger' # <<>> => Len(ledger') \in 1 .. Len(ledger')
    BY <1>1
  <2> QED
    BY <1>0, <1>1, <2>1 DEF FreshInv, Chains, Tip
<1>4. Effective' = Level(ledger', anchor', asks', policy')
  BY <1>1, <1>3, LevelOf DEF Effective, StageAt
<1> QED
  BY <1>1, <1>2, <1>4, LevelType

\* Only a chain, its anchor or the policy moves the stage: an ask answered or spent
\* does not.
LEMMA StageStands ==
  ASSUME MaxArchives = 0, Moving, Moving', [Next]_vars, UNCHANGED <<ledger, anchor, policy>>
  PROVE  Effective' = Effective
<1>1. CASE UNCHANGED vars
  BY <1>1, EffectiveNow DEF vars
<1>2. CASE Next
  <2>1. /\ TypeOK /\ FreshInv /\ ExtendsInv /\ Overtaking
        /\ DOMAIN asks = Times /\ DOMAIN asks' = Times
    BY DEF Moving, Continuing, IInv, Overtaking, TypeOK
  <2>2. \A t \in Times : asks[t].status = "CONSUMED" => asks'[t] = asks[t]
    BY <1>2, <2>1, AsksKept
  <2>3. ledger # <<>> => Stands(Tip(ledger), asks)
    BY <2>1, TipStands
  <2>4. \A pol : Level(ledger, anchor, asks', pol) = Level(ledger, anchor, asks, pol)
    BY <2>1, <2>2, <2>3, LevelSame
  <2> QED
    BY <2>4, EffectiveNow
<1> QED
  BY <1>1, <1>2

\* The steps that can move it.
LEMMA StageMovers ==
  ASSUME MaxArchives = 0, Moving, [Next]_vars
  PROVE  \/ UNCHANGED <<ledger, anchor, policy>>
         \/ policy' # policy
         \/ \E d \in Doors : SetAside(d) \/ WriteRow(d)
         \/ anchor' = ledger /\ UNCHANGED <<ledger, policy>>
<1>1. ~ \E b \in archives, wiped \in BOOLEAN : Restore(b, wiped)
  BY DEF Moving, Continuing, PromisedInv
<1>2. ASSUME \/ \E target \in Targets : Request(target)
             \/ \E t \in Times : Approve(t)
             \/ StartCycle \/ FinishCycle \/ Backup \/ UNCHANGED vars
      PROVE  UNCHANGED <<ledger, anchor, policy>>
  BY <1>2 DEF Request, Approve, StartCycle, FinishCycle, Backup, stores, world, vars
<1>3. PolicyChange => policy' # policy
  BY DEF PolicyChange
<1>4. ASSUME NEW d \in Doors,
             \/ DoorBegin(d) \/ ConfirmSpend(d) \/ DemotePlan(d) \/ WriteMirror(d) \/ Crash(d)
      PROVE  UNCHANGED <<ledger, anchor, policy>>
  BY <1>4 DEF DoorBegin, ConfirmBegin, DemoteBegin, SyncBegin, Begin, ConfirmSpend, DemotePlan,
              WriteMirror, Crash, stores, world
<1>5. ASSUME NEW d \in Doors, WriteAnchor(d) \/ SyncAnchor(d)
      PROVE  anchor' \in {ledger, anchor} /\ UNCHANGED <<ledger, policy>>
  BY <1>5 DEF WriteAnchor, SyncAnchor, world
<1> QED
  BY <1>1, <1>2, <1>3, <1>4, <1>5 DEF Next, Running, DoorStep, World

\* A row on its way to an existing chain, and where its landing puts the stage.
LEMMA RowMoves ==
  ASSUME Moving, Moving', NEW d \in Doors, WriteRow(d)
  PROVE  /\ rec[d] \in Records /\ Tip(ledger') = rec[d] /\ ledger' # <<>>
         /\ pc[d] = "row" /\ pc'[d] = "anchor"
         /\ UNCHANGED <<anchor, asks, policy>>
         /\ ledger = <<>> => Effective = READ_ONLY /\ MayStartChain(rec[d])
         /\ ledger # <<>> => Extends(rec[d], ledger, anchor, asks)
         /\ Effective' \in {READ_ONLY, rec[d].stage}
<1>1. /\ ledger \in Seq(Records) /\ pc \in [Doors -> PCs] /\ LockInv /\ ExtendsInv
  BY DEF Moving, Continuing, IInv, TypeOK
<1>2. /\ pc[d] = "row" /\ pc'[d] = "anchor" /\ ledger' = Append(ledger, rec[d])
      /\ UNCHANGED <<anchor, asks, policy>>
  BY <1>1 DEF WriteRow, world
<1>3. rec[d] \in Records
  BY <1>1, <1>2 DEF LockInv, Writing
<1>4. Tip(ledger') = rec[d] /\ ledger' # <<>>
  BY <1>1, <1>2, <1>3 DEF Tip
<1>5. WriterKnows(d)
  BY <1>1 DEF ExtendsInv
<1>6. ledger = <<>> => Effective = READ_ONLY
  BY EffectiveNow DEF Level, InForce
<1>7. Effective' \in {READ_ONLY, rec[d].stage}
  BY <1>4, EffectiveNow DEF Level
<1> QED
  BY <1>2, <1>3, <1>4, <1>5, <1>6, <1>7 DEF WriterKnows

\* While nothing is restored, the stage rises only for a row a fresh approval was
\* spent for, a policy that came back, or an anchor that caught up with its chain.
THEOREM RisesForAGrant == MaxArchives = 0 => (Spec => RaisedOnlyByGrant)
<1> DEFINE Because == \/ Landed({"BOOTSTRAP", "CLIMB", "REBIND"})
                      \/ policy' # policy
                      \/ anchor' = ledger /\ anchor' # anchor
<1>1. ASSUME MaxArchives = 0, Moving, Moving', [Next]_vars, Effective' > Effective
      PROVE  Because
  <2>1. Effective \in Nat /\ Effective' \in Nat
    BY <1>1, EffectiveNow DEF LADDER, READ_ONLY, LIVE_SCALED
  <2>2. ~UNCHANGED <<ledger, anchor, policy>>
    BY <1>1, <2>1, StageStands
  <2>3. CASE \E d \in Doors : SetAside(d)
    <3>1. ledger' = <<>>
      BY <2>3 DEF SetAside
    <3>2. Effective' = READ_ONLY
      BY <1>1, <3>1, EffectiveNow DEF Level, InForce
    <3> QED
      BY <1>1, <2>1, <3>2 DEF READ_ONLY
  <2>4. ASSUME NEW d \in Doors, WriteRow(d) PROVE Because
    <3>1. /\ rec[d] \in Records /\ Tip(ledger') = rec[d] /\ ledger' # <<>>
          /\ pc[d] = "row" /\ pc'[d] = "anchor"
          /\ UNCHANGED <<anchor, asks, policy>>
          /\ ledger = <<>> => Effective = READ_ONLY /\ MayStartChain(rec[d])
          /\ ledger # <<>> => Extends(rec[d], ledger, anchor, asks)
          /\ Effective' \in {READ_ONLY, rec[d].stage}
      BY <1>1, <2>4, RowMoves
    <3>2. CASE rec[d].trans \in {"BOOTSTRAP", "CLIMB", "REBIND"}
      BY <3>1, <3>2 DEF Landed
    <3>3. CASE rec[d].trans = "DEMOTE"
      <4>1. rec[d].stage # READ_ONLY /\ Effective' = rec[d].stage
        BY <1>1, <2>1, <3>1 DEF READ_ONLY
      <4>2. ledger # <<>>
        BY <3>1, <3>3, <4>1 DEF MayStartChain
      <4>3. /\ InForce(ledger, anchor, asks)
            /\ rec[d].policy = Tip(ledger).policy /\ rec[d].stage < Tip(ledger).stage
        BY <3>1, <3>3, <4>1, <4>2 DEF Extends
      <4>4. rec[d].policy = policy
        BY <1>1, <3>1, <4>1, EffectiveNow DEF Level
      <4>5. Effective = Tip(ledger).stage
        BY <1>1, <4>3, <4>4, EffectiveNow DEF Level
      <4> QED
        BY <1>1, <2>1, <4>1, <4>3, <4>5
    <3> QED
      BY <3>1, <3>2, <3>3 DEF Records, Transitions
  <2>5. CASE anchor' = ledger /\ UNCHANGED <<ledger, policy>>
    BY <2>2, <2>5
  <2> QED
    BY <1>1, <2>2, <2>3, <2>4, <2>5, StageMovers
<1> SUFFICES ASSUME MaxArchives = 0 PROVE Spec => RaisedOnlyByGrant
  OBVIOUS
<1>2. Init => Moving
  BY InitMoving
<1>3. Moving /\ [Next]_vars => Moving'
  BY MovingStep
<1>4. Moving /\ Moving' /\ [Next]_vars => [Effective' > Effective => Because]_vars
  BY <1>1
<1> QED
  BY <1>2, <1>3, <1>4, PTL DEF Spec, RaisedOnlyByGrant

\* While nothing is restored, no crash, lost write, set-aside chain or re-anchoring
\* lowers the stage.
THEOREM FallsForADemotion == MaxArchives = 0 => (Spec => LoweredOnlyByDemotion)
<1> DEFINE Because == Landed({"DEMOTE"}) \/ policy' # policy \/ LandedStale
<1>1. ASSUME MaxArchives = 0, Moving, Moving', [Next]_vars, Effective' < Effective
      PROVE  Because
  <2>1. Effective \in Nat /\ Effective' \in Nat /\ Effective # READ_ONLY
    BY <1>1, EffectiveNow DEF LADDER, READ_ONLY, LIVE_SCALED
  <2>2. ~UNCHANGED <<ledger, anchor, policy>>
    BY <1>1, <2>1, StageStands
  <2>3. InForce(ledger, anchor, asks) /\ Tip(ledger).policy = policy /\ Effective = Tip(ledger).stage
    BY <1>1, <2>1, EffectiveNow DEF Level
  <2>4. ASSUME NEW d \in Doors, SetAside(d) PROVE FALSE
    <3>1. ChainToExtend(ledger, anchor) = <<>>
      BY <1>1, <2>4 DEF Moving, ExtendsInv, WriterKnows, SetAside
    <3> QED
      BY <2>3, <3>1 DEF InForce, ChainToExtend, AnchorProblem
  <2>5. ASSUME NEW d \in Doors, WriteRow(d) PROVE Because
    <3>1. /\ rec[d] \in Records /\ Tip(ledger') = rec[d] /\ ledger' # <<>>
          /\ pc[d] = "row" /\ pc'[d] = "anchor"
          /\ UNCHANGED <<anchor, asks, policy>>
          /\ Extends(rec[d], ledger, anchor, asks)
      BY <1>1, <2>1, <2>5, RowMoves
    <3>2. CASE rec[d].trans = "DEMOTE" \/ rec[d].policy # policy
      BY <3>1, <3>2 DEF Landed, LandedStale
    <3>3. CASE rec[d].trans # "DEMOTE" /\ rec[d].policy = policy
      <4>1. rec[d].trans = "CLIMB"
        <5>1. Level(ledger, anchor, asks, policy) # READ_ONLY
          BY <1>1, <2>1, EffectiveNow
        <5> QED
          BY <2>3, <3>1, <3>3, <5>1 DEF Extends, Records, Transitions
      <4>2. /\ anchor = ledger /\ rec[d].stage = Tip(ledger).stage + 1
            /\ TransitionConsistent(rec[d]) /\ Witnessed(rec[d], asks)
        BY <3>1, <4>1 DEF Extends
      <4>3. rec[d].stage # READ_ONLY
        BY <2>1, <2>3, <4>2 DEF READ_ONLY
      <4>4. Verifies(ledger')
        <5>1. Continuing
          BY <1>1 DEF Moving
        <5> QED
          BY <2>5, <3>1, <4>3, <5>1, RowLands
      <4>5. AnchorProblem(ledger', anchor') = "OK"
        <5>1. /\ ledger \in Seq(Records) /\ ledger' = Append(ledger, rec[d])
              /\ anchor' = ledger /\ ledger # <<>>
          BY <1>1, <2>3, <2>5, <3>1, <4>2 DEF Moving, Continuing, IInv, TypeOK, WriteRow, InForce
        <5>2. /\ Len(ledger') = Len(ledger) + 1 /\ Len(ledger) \in Nat
              /\ \A i \in 1 .. Len(ledger) : ledger'[i] = ledger[i]
          BY <3>1, <5>1
        <5> QED
          BY <5>1, <5>2 DEF AnchorProblem, OnChain
      <4>6. Effective' = rec[d].stage
        BY <1>1, <3>1, <3>3, <4>2, <4>4, <4>5, EffectiveNow DEF Level, InForce
      <4> QED
        BY <1>1, <2>1, <2>3, <4>2, <4>6
    <3> QED
      BY <3>2, <3>3
  <2>6. CASE anchor' = ledger /\ UNCHANGED <<ledger, policy>>
    <3>1. Level(ledger, ledger, asks', policy) = Level(ledger, ledger, asks, policy)
      <4>1. CASE UNCHANGED vars
        BY <4>1 DEF vars
      <4>2. CASE Next
        <5>1. /\ TypeOK /\ FreshInv /\ ExtendsInv /\ Overtaking
              /\ DOMAIN asks = Times /\ DOMAIN asks' = Times
          BY <1>1 DEF Moving, Continuing, IInv, Overtaking, TypeOK
        <5>2. \A t \in Times : asks[t].status = "CONSUMED" => asks'[t] = asks[t]
          BY <1>1, <4>2, <5>1, AsksKept
        <5>3. ledger # <<>> => Stands(Tip(ledger), asks)
          BY <5>1, TipStands
        <5> QED
          BY <5>1, <5>2, <5>3, LevelSame
      <4> QED
        BY <1>1, <4>1, <4>2
    <3>2. AnchorProblem(ledger, ledger) = "OK"
      <4>1. ledger \in Seq(Records) /\ ledger # <<>>
        BY <1>1, <2>3 DEF Moving, Continuing, IInv, TypeOK, InForce
      <4> QED
        BY <4>1 DEF AnchorProblem, OnChain
    <3>3. Level(ledger, ledger, asks, policy) = Tip(ledger).stage
      BY <2>3, <3>2 DEF Level, InForce
    <3> QED
      BY <1>1, <2>1, <2>3, <2>6, <3>1, <3>3, EffectiveNow
  <2> QED
    BY <1>1, <2>2, <2>4, <2>5, <2>6, StageMovers
<1> SUFFICES ASSUME MaxArchives = 0 PROVE Spec => LoweredOnlyByDemotion
  OBVIOUS
<1>2. Init => Moving
  BY InitMoving
<1>3. Moving /\ [Next]_vars => Moving'
  BY MovingStep
<1>4. Moving /\ Moving' /\ [Next]_vars => [Effective' < Effective => Because]_vars
  BY <1>1
<1> QED
  BY <1>2, <1>3, <1>4, PTL DEF Spec, LoweredOnlyByDemotion
=============================================================================
