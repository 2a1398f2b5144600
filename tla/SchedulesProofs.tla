-------------------------- MODULE SchedulesProofs --------------------------
(***************************************************************************)
(* Proofs about Schedules, for every set of rows of each kind, every       *)
(* interval and expiry, and every bound on the clock and the upsets.       *)
(***************************************************************************)
EXTENDS Schedules, TLAPS

-----------------------------------------------------------------------------
(* The helpers.                                                            *)

\* Each row belongs to one lane.
LEMMA OneLane ==
  ASSUME NEW l \in Lanes, NEW m \in Lanes, NEW s, s \in RowsOf(l), s \in RowsOf(m)
  PROVE  l = m
  BY ConstantsAssumption DEF RowsOf, Lanes

LEMMA Division ==
  ASSUME NEW a \in Nat, NEW e \in Nat \ {0}
  PROVE  a \div e \in Nat /\ e * (a \div e + 1) \in Nat /\ e * (a \div e + 1) > a
  OBVIOUS

\* next_occurrence is strictly past the time of the pass.
LEMMA PastThePass ==
  ASSUME NEW due \in Nat, NEW e \in Nat \ {0}, NEW t \in Nat, due <= t
  PROVE  NextOccurrence(due, e, t) \in Nat /\ NextOccurrence(due, e, t) > t
<1>1. t - due \in Nat
  OBVIOUS
<1> DEFINE q == (t - due) \div e
<1>2. e * (q + 1) \in Nat /\ e * (q + 1) > t - due
  BY <1>1, Division
<1> QED
  BY <1>2 DEF NextOccurrence

\* record_result changes a row's last_status and nothing else.
LEMMA RecordKeeps ==
  ASSUME rows \in [Rows -> Records \cup {Gone}], NEW s \in Rows,
         NEW status \in {"none", "running", "ended"}, RecordResult(s, status)
  PROVE  /\ rows' \in [Rows -> Records \cup {Gone}]
         /\ \A x \in Rows : (rows[x] = Gone) = (rows'[x] = Gone)
         /\ \A x \in Rows : rows[x] # Gone => /\ rows'[x].on = rows[x].on
                                              /\ rows'[x].next = rows[x].next
<1>1. CASE rows[s] = Gone
  BY <1>1 DEF RecordResult
<1>2. CASE rows[s] # Gone
  <2>1. [rows[s] EXCEPT !.last = status] \in Records
    BY <1>2 DEF Records
  <2>2. rows' = [rows EXCEPT ![s] = [rows[s] EXCEPT !.last = status]]
    BY <1>2 DEF RecordResult
  <2>3. /\ [rows[s] EXCEPT !.last = status].on = rows[s].on
        /\ [rows[s] EXCEPT !.last = status].next = rows[s].next
    BY <1>2 DEF Records
  <2> QED
    BY <1>2, <2>1, <2>2, <2>3, ConstantsAssumption
<1> QED
  BY <1>1, <1>2

\* A terminal event lengthens the events of its run and of no other.
LEMMA Ending ==
  ASSUME ends \in [Runs -> Seq(Endings)], NEW r \in Runs, NEW how \in Endings, EndRun(r, how)
  PROVE  /\ ends' \in [Runs -> Seq(Endings)]
         /\ ends'[r] = Append(ends[r], how)
         /\ \A x \in Runs : x # r => ends'[x] = ends[x]
         /\ ends'[r] # <<>>
<1>1. ends[r] \in Seq(Endings) /\ Append(ends[r], how) \in Seq(Endings)
  OBVIOUS
<1> QED
  BY <1>1 DEF EndRun

\* claim_due moves the next due time of the claimed row past the pass, and no other.
LEMMA ClaimKeeps ==
  ASSUME TypeOK, NEW s \in Rows, NEW t \in Times, Due(s, t), ClaimDue(s, t)
  PROVE  /\ rows' \in [Rows -> Records \cup {Gone}]
         /\ claims' \subseteq [row : Rows, at : Times, due : Times]
         /\ rows[s] \in Records /\ rows'[s] \in Records /\ rows'[s].on = rows[s].on
         /\ rows[s].next <= t /\ rows'[s].next > t
         /\ \A x \in Rows : x # s => rows'[x] = rows[x]
<1> DEFINE n == NextOccurrence(rows[s].next, Every[s], t)
           new == [rows[s] EXCEPT !.next = n]
<1>1. rows[s] \in Records /\ rows[s].next <= t /\ rows[s].next \in Nat /\ t \in Nat
  BY ConstantsAssumption DEF TypeOK, Due, Records, Times
<1>2. n \in Nat /\ n > t
  BY <1>1, PastThePass, ConstantsAssumption
<1>3. new \in Records /\ new.on = rows[s].on /\ new.next = n
  BY <1>1, <1>2 DEF Records
<1>4. rows' = [rows EXCEPT ![s] = new]
  BY DEF ClaimDue
<1>5. rows[s].next \in Times
  BY <1>1, ConstantsAssumption DEF Times
<1> HIDE DEF new
<1>6. rows' \in [Rows -> Records \cup {Gone}] /\ rows'[s] = new
  BY <1>3, <1>4 DEF TypeOK
<1>7. claims' \subseteq [row : Rows, at : Times, due : Times]
  BY <1>5 DEF ClaimDue, TypeOK
<1>8. \A x \in Rows : x # s => rows'[x] = rows[x]
  BY <1>4 DEF TypeOK
<1> QED
  BY <1>1, <1>2, <1>3, <1>6, <1>7, <1>8

\* Switching a row on or off keeps its due time.
LEMMA SwitchKeeps ==
  ASSUME TypeOK, NEW s \in Rows, NEW on \in BOOLEAN,
         rows' = IF rows[s] = Gone THEN rows ELSE [rows EXCEPT ![s].on = on]
  PROVE  /\ rows' \in [Rows -> Records \cup {Gone}]
         /\ \A x \in Rows : (rows[x] = Gone) = (rows'[x] = Gone)
         /\ \A x \in Rows : rows[x] # Gone => rows'[x].next = rows[x].next
         /\ \A x \in Rows : x # s => rows'[x] = rows[x]
         /\ rows[s] # Gone => rows'[s].on = on
<1>1. CASE rows[s] = Gone
  BY <1>1 DEF TypeOK
<1>2. CASE rows[s] # Gone
  <2> DEFINE new == [rows[s] EXCEPT !.on = on]
  <2>0. rows[s] \in Records
    BY <1>2 DEF TypeOK
  <2>1. new \in Records /\ new.on = on /\ new.next = rows[s].next
    BY <2>0 DEF Records
  <2>2. rows' = [rows EXCEPT ![s] = new]
    BY <1>2
  <2> HIDE DEF new
  <2>3. rows' \in [Rows -> Records \cup {Gone}] /\ rows'[s] = new
    BY <2>1, <2>2 DEF TypeOK
  <2>4. \A x \in Rows : x # s => rows'[x] = rows[x]
    BY <2>2 DEF TypeOK
  <2> QED
    BY <1>2, <2>1, <2>3, <2>4, ConstantsAssumption
<1> QED
  BY <1>1, <1>2

-----------------------------------------------------------------------------
(* Types, and where a lane can stand with what in hand.                    *)

Holding == {"claim", "drop", "claimed", "run", "fork", "pid", "record"}

\* A lane works on its own kinds, one pass at a time; the occurrence in hand is of
\* this pass; only the maintenance lane, and only with a registered child or a
\* factory row in hand, goes through the steps of a child; a process that just
\* started has none.
Flow ==
  /\ \A l \in Lanes :
       /\ pc[l] \in Holding => /\ cur[l] \in Runs /\ cur[l].row \in RowsOf(l)
                               /\ cur[l].at = stamp[l]
       /\ batch[l] \subseteq RowsOf(l)
       /\ todo[l] # {} => pc[l] = "scan"
       /\ \A r \in todo[l] : r.row \in RowsOf(l)
  /\ pc["risk"] \notin {"collect", "fork", "pid", "fired", "close", "unlink", "orphan"}
  /\ pc["maint"] \in {"fork", "pid"} => cur["maint"].row \in Factory
  /\ pc["maint"] \in {"claimed", "run", "fork", "pid"} =>
       (cur["maint"].row \in Factory => child = NoRun)
  /\ pc["maint"] \in {"fired", "close", "unlink"} => child # NoRun
  /\ pc["maint"] \in {"down", "scan", "orphan"} => child = NoRun
  /\ pc["maint"] = "orphan" => cur["maint"] \in Runs
  /\ child # NoRun => child.row \in Factory
  /\ \A r \in meta : r.row \in Factory

Typed == TypeOK /\ Flow

LEMMA InitTyped == Init => Typed
  BY ConstantsAssumption DEF Init, Typed, TypeOK, Flow, Holding, Records, Places, Times, Lanes, Rows

LEMMA TypedStart ==
  ASSUME Typed, NEW l \in Lanes, Start(l)
  PROVE  Typed'
  BY ConstantsAssumption DEF Start, Open, Goto, Typed, TypeOK, Flow, Holding, Places, RowsOf, Lanes, Rows, Runs, childVars

LEMMA TypedAbandon ==
  ASSUME Typed, NEW l \in Lanes, Abandon(l)
  PROVE  Typed'
<1>1. PICK r \in todo[l] : /\ EndRun(r, "abandoned")
                             /\ todo' = [todo EXCEPT ![l] = @ \ {r}]
                             /\ Goto(l, IF todo[l] = {r} THEN "idle" ELSE "scan")
  BY DEF Abandon
<1>2. r \in Runs /\ ends' \in [Runs -> Seq(Endings)]
  BY <1>1, Ending DEF Typed, TypeOK, Endings
<1>3. TypeOK'
  BY <1>1, <1>2, ConstantsAssumption DEF Abandon, Goto, Typed, TypeOK, Flow, Places, RowsOf, Lanes, Rows, Runs, childVars
<1>4. Flow'
  BY <1>1, <1>2, ConstantsAssumption DEF Abandon, Goto, Typed, TypeOK, Flow, Holding, RowsOf, Lanes, childVars
<1> QED
  BY <1>3, <1>4 DEF Typed

LEMMA TypedBeginPass ==
  ASSUME Typed, NEW l \in Lanes, BeginPass(l)
  PROVE  Typed'
<1>1. TypeOK'
  BY ConstantsAssumption DEF BeginPass, Goto, Typed, TypeOK, Flow, Places, RowsOf, Lanes, Rows, Runs, childVars
<1>2. Flow'
  BY ConstantsAssumption DEF BeginPass, Goto, Typed, TypeOK, Flow, Holding, RowsOf, Lanes, childVars
<1> QED
  BY <1>1, <1>2 DEF Typed

LEMMA TypedEndPass ==
  ASSUME Typed, NEW l \in Lanes, EndPass(l)
  PROVE  Typed'
<1>1. 0 \in Times
  BY ConstantsAssumption DEF Times
<1>2. TypeOK'
  BY <1>1 DEF EndPass, Goto, Typed, TypeOK, Places, childVars
<1>3. Flow'
  BY ConstantsAssumption DEF EndPass, Goto, Typed, TypeOK, Flow, Holding, Lanes, childVars
<1> QED
  BY <1>2, <1>3 DEF Typed

LEMMA TypedLook ==
  ASSUME Typed, NEW l \in Lanes, Look(l)
  PROVE  Typed'
<1>1. PICK s \in batch[l] : /\ batch' = [batch EXCEPT ![l] = @ \ {s}]
                            /\ cur' = [cur EXCEPT ![l] = [row |-> s, at |-> stamp[l]]]
                            /\ pc' = [pc EXCEPT ![l] = IF allowed THEN "claim" ELSE "drop"]
  BY DEF Look, Goto
<1>2. s \in Rows /\ s \in RowsOf(l) /\ [row |-> s, at |-> stamp[l]] \in Runs
  BY DEF Typed, TypeOK, Flow, Runs
<1>3. /\ pc[l] = "fires"
      /\ UNCHANGED <<now, rows, allowed, begun, claims, ends, stamp, todo, childVars, afterKill, upsets>>
  BY DEF Look
<1>4. TypeOK'
  BY <1>1, <1>2, <1>3 DEF Typed, TypeOK, Places, childVars
<1>5. Flow'
  BY <1>1, <1>2, <1>3, ConstantsAssumption DEF Typed, TypeOK, Flow, Holding, Lanes, childVars
<1> QED
  BY <1>4, <1>5 DEF Typed

LEMMA TypedDefer ==
  ASSUME Typed, NEW l \in Lanes, Defer(l)
  PROVE  Typed'
  BY ConstantsAssumption DEF Defer, Goto, Typed, TypeOK, Flow, Holding, Places, RowsOf, Lanes, Rows, Runs, childVars

LEMMA TypedClaim ==
  ASSUME Typed, NEW l \in Lanes, Claim(l)
  PROVE  Typed'
<1>1. cur[l] \in Runs /\ cur[l].row \in Rows /\ stamp[l] \in Times
  BY DEF Claim, Typed, TypeOK, Flow, Holding, Runs
<1>2. /\ rows' \in [Rows -> Records \cup {Gone}]
      /\ claims' \subseteq [row : Rows, at : Times, due : Times]
  BY <1>1, ClaimKeeps DEF Claim, Typed
<1>3. TypeOK'
  BY <1>1, <1>2 DEF Claim, Goto, Typed, TypeOK, Places, Lanes, childVars
<1>4. UNCHANGED <<stamp, batch, todo, child, meta>>
  BY DEF Claim, childVars
<1>5. CASE pc[l] = "claim"
  <2>1. pc' = [pc EXCEPT ![l] = "claimed"] /\ cur' = cur
    BY <1>5 DEF Claim, Goto
  <2>2. cur[l].row \in Factory => child = NoRun
    BY <1>5 DEF Claim
  <2>3. Flow'
    BY <1>4, <1>5, <2>1, <2>2, ConstantsAssumption DEF Typed, TypeOK, Flow, Holding, Lanes
  <2> QED
    BY <1>3, <2>3 DEF Typed
<1>6. CASE pc[l] = "drop"
  <2>1. pc' = [pc EXCEPT ![l] = "fires"] /\ cur' = [cur EXCEPT ![l] = NoRun]
    BY <1>6 DEF Claim, Goto
  <2>2. Flow'
    BY <1>4, <1>6, <2>1, ConstantsAssumption DEF Typed, TypeOK, Flow, Holding, Lanes
  <2> QED
    BY <1>3, <2>2 DEF Typed
<1> QED
  BY <1>5, <1>6 DEF Claim

LEMMA TypedClaimLost ==
  ASSUME Typed, NEW l \in Lanes, ClaimLost(l)
  PROVE  Typed'
<1>1. TypeOK'
  BY ConstantsAssumption DEF ClaimLost, Goto, Typed, TypeOK, Flow, Places, RowsOf, Lanes, Rows, Runs, childVars
<1>2. Flow'
  BY ConstantsAssumption DEF ClaimLost, Goto, Typed, TypeOK, Flow, Holding, RowsOf, Lanes, childVars
<1> QED
  BY <1>1, <1>2 DEF Typed

LEMMA TypedExpire ==
  ASSUME Typed, NEW l \in Lanes, Expire(l)
  PROVE  Typed'
<1>1. cur[l] \in Runs /\ cur[l].row \in Rows
  BY DEF Expire, Typed, TypeOK, Flow, Holding, Runs
<1>2. rows' \in [Rows -> Records \cup {Gone}]
  BY <1>1, SwitchKeeps DEF Expire, Typed
<1>3. TypeOK'
  BY <1>2 DEF Expire, Goto, Typed, TypeOK, Places, childVars
<1>4. Flow'
  BY ConstantsAssumption DEF Expire, Goto, Typed, TypeOK, Flow, Holding, Lanes, childVars
<1> QED
  BY <1>3, <1>4 DEF Typed

LEMMA TypedLogStarted ==
  ASSUME Typed, NEW l \in Lanes, LogStarted(l)
  PROVE  Typed'
<1>1. cur[l] \in Runs /\ afterKill' \in [Lanes -> Nat]
  BY DEF LogStarted, Typed, TypeOK, Flow, Holding
<1>2. pc[l] = "claimed" /\ pc' = [pc EXCEPT ![l] = "run"] /\ begun' = begun \cup {cur[l]}
  BY DEF LogStarted, Goto
<1>3. UNCHANGED <<now, rows, allowed, claims, ends, stamp, batch, todo, cur, childVars, upsets>>
  BY DEF LogStarted
<1>4. TypeOK'
  BY <1>1, <1>2, <1>3 DEF Typed, TypeOK, Places, childVars
<1>5. Flow'
  BY <1>2, <1>3 DEF Typed, TypeOK, Flow, Holding, childVars
<1> QED
  BY <1>4, <1>5 DEF Typed

LEMMA TypedLogOutcome ==
  ASSUME Typed, NEW l \in Lanes, LogOutcome(l)
  PROVE  Typed'
<1>1. cur[l] \in Runs
  BY DEF LogOutcome, Typed, Flow, Holding
<1>2. ends' \in [Runs -> Seq(Endings)]
  BY <1>1, Ending DEF LogOutcome, Typed, TypeOK, Endings
<1>3. upsets' \in Nat
  BY DEF LogOutcome, Typed, TypeOK
<1>4. pc' = [pc EXCEPT ![l] = "record"] /\ pc[l] \in {"run", "fork", "pid"}
  BY DEF LogOutcome, Goto
<1>5. UNCHANGED <<now, rows, allowed, begun, claims, stamp, batch, todo, cur, childVars, afterKill>>
  BY DEF LogOutcome
<1>6. TypeOK'
  BY <1>2, <1>3, <1>4, <1>5 DEF Typed, TypeOK, Places, childVars
<1>7. Flow'
  BY <1>4, <1>5, ConstantsAssumption DEF Typed, TypeOK, Flow, Holding, RowsOf, Lanes, childVars
<1> QED
  BY <1>6, <1>7 DEF Typed

LEMMA TypedRecord ==
  ASSUME Typed, NEW l \in Lanes, Record(l)
  PROVE  Typed'
<1>1. cur[l] \in Runs /\ cur[l].row \in Rows
  BY DEF Record, Typed, Flow, Holding, Runs
<1>2. rows' \in [Rows -> Records \cup {Gone}]
  BY <1>1, RecordKeeps DEF Record, Typed, TypeOK
<1>3. TypeOK'
  BY <1>1, <1>2, ConstantsAssumption DEF Record, Goto, Typed, TypeOK, Flow, Places, RowsOf, Lanes, Rows, Runs, childVars
<1>4. Flow'
  BY <1>1, <1>2, ConstantsAssumption DEF Record, Goto, Typed, TypeOK, Flow, Holding, RowsOf, Lanes, childVars
<1> QED
  BY <1>3, <1>4 DEF Typed

LEMMA TypedWriteMeta ==
  ASSUME Typed, WriteMeta
  PROVE  Typed'
  BY ConstantsAssumption DEF WriteMeta, Goto, Typed, TypeOK, Flow, Holding, Places, RowsOf, Lanes, Rows, Runs, childVars

LEMMA TypedFork ==
  ASSUME Typed, Fork
  PROVE  Typed'
  BY ConstantsAssumption DEF Fork, Goto, Typed, TypeOK, Flow, Holding, Places, RowsOf, Lanes, Rows, Runs, childVars

LEMMA TypedRegister ==
  ASSUME Typed, Register
  PROVE  Typed'
  BY ConstantsAssumption DEF Register, Goto, Typed, TypeOK, Flow, Holding, Places, RowsOf, Lanes, Rows, Runs, childVars

LEMMA TypedStillComputing ==
  ASSUME Typed, StillComputing
  PROVE  Typed'
  BY ConstantsAssumption DEF StillComputing, Goto, Typed, TypeOK, Flow, Holding, Places, RowsOf, Lanes, Rows, Runs, childVars

LEMMA TypedAdmit ==
  ASSUME Typed, Admit
  PROVE  Typed'
  BY ConstantsAssumption DEF Admit, Goto, Typed, TypeOK, Flow, Holding, Places, RowsOf, Lanes, Rows, Runs, childVars

LEMMA TypedLogCollected ==
  ASSUME Typed, LogCollected
  PROVE  Typed'
<1>1. child \in Runs
  BY DEF LogCollected, Typed, TypeOK, Flow
<1>2. ends' \in [Runs -> Seq(Endings)]
  BY <1>1, Ending DEF LogCollected, Typed, TypeOK, Endings
<1> QED
  BY <1>1, <1>2, ConstantsAssumption DEF LogCollected, Goto, Typed, TypeOK, Flow, Holding, Places, RowsOf, Lanes, Rows, Runs, childVars

LEMMA TypedRecordCollected ==
  ASSUME Typed, RecordCollected
  PROVE  Typed'
<1>1. child \in Runs /\ child.row \in Rows
  BY DEF RecordCollected, Typed, TypeOK, Flow, Runs
<1>2. rows' \in [Rows -> Records \cup {Gone}]
  BY <1>1, RecordKeeps DEF RecordCollected, Typed, TypeOK
<1> QED
  BY <1>1, <1>2, ConstantsAssumption DEF RecordCollected, Goto, Typed, TypeOK, Flow, Holding, Places, RowsOf, Lanes, Rows, Runs, childVars

LEMMA TypedUnlink ==
  ASSUME Typed, Unlink
  PROVE  Typed'
  BY ConstantsAssumption DEF Unlink, Goto, Typed, TypeOK, Flow, Holding, Places, RowsOf, Lanes, Rows, Runs, childVars

LEMMA TypedFailOrphan ==
  ASSUME Typed, NEW r \in meta, FailOrphan(r)
  PROVE  Typed'
<1>1. r \in Runs /\ ends' \in [Runs -> Seq(Endings)]
  BY Ending DEF FailOrphan, Typed, TypeOK, Endings
<1> QED
  BY <1>1, ConstantsAssumption DEF FailOrphan, Goto, Typed, TypeOK, Flow, Holding, Places, RowsOf, Lanes, Rows, Runs, childVars

LEMMA TypedClearOrphan ==
  ASSUME Typed, ClearOrphan
  PROVE  Typed'
<1>1. cur["maint"] \in Runs /\ cur["maint"].row \in Rows
  BY DEF ClearOrphan, Typed, Flow, Runs
<1>2. rows' \in [Rows -> Records \cup {Gone}]
  BY <1>1, RecordKeeps DEF ClearOrphan, Typed, TypeOK
<1> QED
  BY <1>1, <1>2, ConstantsAssumption DEF ClearOrphan, Goto, Typed, TypeOK, Flow, Holding, Places, RowsOf, Lanes, Rows, Runs, childVars

LEMMA TypedNoOrphan ==
  ASSUME Typed, NoOrphan
  PROVE  Typed'
  BY ConstantsAssumption DEF NoOrphan, Goto, Typed, TypeOK, Flow, Holding, Places, RowsOf, Lanes, Rows, Runs, childVars

LEMMA TypedDie ==
  ASSUME Typed, NEW l \in Lanes, Die(l)
  PROVE  Typed'
<1>1. 0 \in Times
  BY ConstantsAssumption DEF Times
<1>2. computing' \subseteq Runs /\ child' \in Runs \cup {NoRun}
  BY DEF Die, Typed, TypeOK
<1>3. /\ pc' \in [Lanes -> Places] /\ stamp' \in [Lanes -> Times]
      /\ batch' \in [Lanes -> SUBSET Rows] /\ todo' \in [Lanes -> SUBSET Runs]
      /\ cur' \in [Lanes -> Runs \cup {NoRun}] /\ upsets' \in Nat
  BY <1>1 DEF Die, Typed, TypeOK, Places
<1>4. TypeOK'
  BY <1>2, <1>3 DEF Die, Typed, TypeOK
<1>5. Flow'
  BY ConstantsAssumption DEF Die, Typed, TypeOK, Flow, Holding, Lanes
<1> QED
  BY <1>4, <1>5 DEF Typed

LEMMA TypedChildEnds ==
  ASSUME Typed, NEW r \in computing, ChildEnds(r)
  PROVE  Typed'
<1>1. TypeOK'
  BY DEF ChildEnds, laneVars, Typed, TypeOK
<1>2. Flow'
  BY DEF ChildEnds, laneVars, Typed, Flow, Holding
<1> QED
  BY <1>1, <1>2 DEF Typed

LEMMA TypedSetEnabled ==
  ASSUME Typed, NEW s \in Rows, NEW on \in BOOLEAN, SetEnabled(s, on)
  PROVE  Typed'
<1>1. rows' \in [Rows -> Records \cup {Gone}]
  BY SwitchKeeps DEF SetEnabled, Typed
<1>2. TypeOK'
  BY <1>1 DEF SetEnabled, laneVars, childVars, Typed, TypeOK
<1>3. Flow'
  BY DEF SetEnabled, laneVars, childVars, Typed, Flow, Holding
<1> QED
  BY <1>2, <1>3 DEF Typed

LEMMA TypedRemove ==
  ASSUME Typed, NEW s \in Rows, Remove(s)
  PROVE  Typed'
<1>1. rows' \in [Rows -> Records \cup {Gone}] /\ upsets' \in Nat
  BY DEF Remove, Typed, TypeOK
<1>2. TypeOK'
  BY <1>1 DEF Remove, Typed, TypeOK, laneVars, childVars
<1>3. Flow'
  BY DEF Remove, Typed, Flow, laneVars, childVars
<1> QED
  BY <1>2, <1>3 DEF Typed

LEMMA TypedSwitch ==
  ASSUME Typed, Switch
  PROVE  Typed'
<1>1. allowed' \in BOOLEAN /\ afterKill' \in [Lanes -> Nat]
  BY DEF Switch
<1> QED
  BY <1>1, ConstantsAssumption DEF Switch, laneVars, Goto, Typed, TypeOK, Flow, Holding, Places, RowsOf, Lanes, Rows, Runs, childVars

LEMMA TypedTick ==
  ASSUME Typed, Tick
  PROVE  Typed'
<1>1. now' \in Times
  BY ConstantsAssumption DEF Tick, Typed, TypeOK, Times
<1> QED
  BY <1>1, ConstantsAssumption DEF Tick, laneVars, Goto, Typed, TypeOK, Flow, Holding, Places, RowsOf, Lanes, Rows, Runs, childVars

LEMMA TypedStutter ==
  ASSUME Typed, UNCHANGED vars
  PROVE  Typed'
  BY DEF vars, laneVars, Goto, Typed, TypeOK, Flow, Holding, Places, RowsOf, Lanes, Rows, Runs, childVars

LEMMA TypedStep == Typed /\ [Next]_vars => Typed'
  BY TypedStart, TypedAbandon, TypedBeginPass, TypedEndPass, TypedLook, TypedDefer,
     TypedClaim, TypedClaimLost, TypedExpire, TypedLogStarted, TypedLogOutcome,
     TypedRecord, TypedWriteMeta, TypedFork, TypedRegister, TypedStillComputing,
     TypedAdmit, TypedLogCollected, TypedRecordCollected, TypedUnlink,
     TypedFailOrphan, TypedClearOrphan, TypedNoOrphan, TypedDie, TypedChildEnds,
     TypedSetEnabled, TypedRemove, TypedSwitch, TypedTick, TypedStutter DEF Next,
     LaneStep, FactoryStep, Operator

\* The schedules file, the ledger, the spool and both processes stay what their
\* types say, through deaths, edits and switches.
THEOREM Typing == Spec => []TypeOK
<1>1. Init => Typed
  BY InitTyped
<1>2. Typed /\ [Next]_vars => Typed'
  BY TypedStep
<1>3. Typed => TypeOK
  BY DEF Typed
<1> QED
  BY <1>1, <1>2, <1>3, PTL DEF Spec

-----------------------------------------------------------------------------
(* What a step does to the schedules file.                                 *)

\* Rows are as they were, but for a status, or a row that expired.
Kept == \A x \in Rows :
  /\ (rows[x] = Gone) = (rows'[x] = Gone)
  /\ rows[x] # Gone => (rows'[x].on => rows[x].on) /\ rows'[x].next = rows[x].next

LEMMA KeptByLane ==
  ASSUME Typed, NEW l \in Lanes, LaneStep(l), ~ Claim(l)
  PROVE  Kept /\ claims' = claims
<1>1. CASE Expire(l)
  <2>1. cur[l].row \in Rows
    BY <1>1 DEF Expire, Typed, Flow, Holding, Runs
  <2> QED
    BY <1>1, <2>1, SwitchKeeps DEF Expire, Typed, Kept
<1>2. CASE Record(l)
  <2>1. cur[l].row \in Rows
    BY <1>2 DEF Record, Typed, Flow, Holding, Runs
  <2> QED
    BY <1>2, <2>1, RecordKeeps DEF Record, Typed, TypeOK, Kept
<1>3. CASE RecordCollected
  <2>1. child.row \in Rows
    BY <1>3 DEF RecordCollected, Typed, TypeOK, Flow, Runs
  <2> QED
    BY <1>3, <2>1, RecordKeeps DEF RecordCollected, Typed, TypeOK, Kept
<1>4. CASE ClearOrphan
  <2>1. cur["maint"].row \in Rows
    BY <1>4 DEF ClearOrphan, Typed, Flow, Runs
  <2> QED
    BY <1>4, <2>1, RecordKeeps DEF ClearOrphan, Typed, TypeOK, Kept
<1>5. CASE UNCHANGED <<rows, claims>>
  BY <1>5 DEF Kept
<1>6. ASSUME ~ Expire(l), ~ Record(l), ~ RecordCollected, ~ ClearOrphan
      PROVE  UNCHANGED <<rows, claims>>
  BY <1>6 DEF LaneStep, FactoryStep, Start, Abandon, BeginPass, EndPass, Look, Defer, ClaimLost,
       LogStarted, LogOutcome, WriteMeta, Fork, Register, StillComputing, Admit, LogCollected,
       Unlink, FailOrphan, NoOrphan
<1> QED
  BY <1>1, <1>2, <1>3, <1>4, <1>5, <1>6

LEMMA KeptByOthers ==
  ASSUME Typed, [Next]_vars, ~ Operator, \A l \in Lanes : ~ LaneStep(l)
  PROVE  Kept /\ claims' = claims
<1>1. UNCHANGED <<rows, claims>>
  BY DEF Next, Die, ChildEnds, Switch, Tick, vars
<1> QED
  BY <1>1 DEF Kept

\* The operator neither claims nor moves a due time.
LEMMA KeptByOperator ==
  ASSUME Typed, Operator
  PROVE  /\ \A x \in Rows : /\ rows[x] = Gone => rows'[x] = Gone
                            /\ rows'[x] # Gone => rows'[x].next = rows[x].next
         /\ claims' = claims
<1>1. PICK s \in Rows : (\E on \in BOOLEAN : SetEnabled(s, on)) \/ Remove(s)
  BY DEF Operator
<1>2. ASSUME NEW on \in BOOLEAN, SetEnabled(s, on)
      PROVE  /\ \A x \in Rows : /\ rows[x] = Gone => rows'[x] = Gone
                                /\ rows'[x] # Gone => rows'[x].next = rows[x].next
             /\ claims' = claims
  BY <1>2, SwitchKeeps DEF SetEnabled, Typed
<1>3. CASE Remove(s)
  BY <1>3 DEF Remove, Typed, TypeOK
<1> QED
  BY <1>1, <1>2, <1>3

\* A claim moves the due time of its row past the pass and records the claim.
LEMMA ClaimMoves ==
  ASSUME Typed, NEW l \in Lanes, Claim(l)
  PROVE  /\ cur[l] \in Runs /\ cur[l].row \in Rows /\ cur[l].at = stamp[l] /\ stamp[l] \in Nat
         /\ rows[cur[l].row] \in Records /\ rows'[cur[l].row] \in Records
         /\ rows'[cur[l].row].on = rows[cur[l].row].on
         /\ rows[cur[l].row].next <= stamp[l] /\ stamp[l] < rows'[cur[l].row].next
         /\ \A x \in Rows : x # cur[l].row => rows'[x] = rows[x]
         /\ claims' = claims \cup {[row |-> cur[l].row, at |-> stamp[l],
                                    due |-> rows[cur[l].row].next]}
<1>1. cur[l] \in Runs /\ cur[l].row \in Rows /\ cur[l].at = stamp[l] /\ stamp[l] \in Times
  BY DEF Claim, Typed, TypeOK, Flow, Holding, Runs
<1>2. stamp[l] \in Nat
  BY <1>1, ConstantsAssumption DEF Times
<1>3. ClaimDue(cur[l].row, stamp[l]) /\ Due(cur[l].row, stamp[l])
  BY DEF Claim
<1>4. rows[cur[l].row].next \in Nat /\ rows'[cur[l].row].next \in Nat
  BY <1>1, <1>3, ClaimKeeps DEF Typed, Records
<1> QED
  BY <1>1, <1>2, <1>3, <1>4, ClaimKeeps DEF Typed, ClaimDue

\* The operator's edit wins: no other step enables a row, removes one or brings one
\* back, or moves a due time back.
LEMMA OnlyOperator ==
  ASSUME Typed, [Next]_vars, ~ Operator, NEW s \in Rows
  PROVE  IF rows[s] = Gone THEN rows'[s] = Gone
         ELSE /\ rows'[s] # Gone
              /\ rows'[s].on => rows[s].on
              /\ rows'[s].next >= rows[s].next
<1>1. rows[s] # Gone => rows[s] \in Records /\ rows[s].next \in Nat
  BY DEF Typed, TypeOK, Records
<1>2. CASE Kept
  BY <1>1, <1>2 DEF Kept
<1>3. ASSUME NEW l \in Lanes, Claim(l)
      PROVE  IF rows[s] = Gone THEN rows'[s] = Gone
             ELSE /\ rows'[s] # Gone
                  /\ rows'[s].on => rows[s].on
                  /\ rows'[s].next >= rows[s].next
  <2>1. CASE s = cur[l].row
    BY <1>3, <2>1, ClaimMoves, ConstantsAssumption DEF Records
  <2>2. CASE s # cur[l].row
    BY <1>1, <1>3, <2>2, ClaimMoves
  <2> QED
    BY <2>1, <2>2
<1> QED
  BY <1>2, <1>3, KeptByLane, KeptByOthers

\* Whatever lanes, operator and deaths interleave, a pass that works on an older
\* snapshot of the file never undoes an edit.
THEOREM EditsWin == Spec => OperatorWins
<1>1. Init => Typed
  BY InitTyped
<1>2. Typed /\ [Next]_vars => Typed'
  BY TypedStep
<1>3. Typed /\ [Next]_vars =>
        [~Operator =>
           \A s \in Rows :
             IF rows[s] = Gone THEN rows'[s] = Gone
             ELSE /\ rows'[s] # Gone
                  /\ rows'[s].on => rows[s].on
                  /\ rows'[s].next >= rows[s].next]_vars
  BY OnlyOperator
<1> QED
  BY <1>1, <1>2, <1>3, PTL DEF Spec, OperatorWins

-----------------------------------------------------------------------------
(* One due time, one claim.                                                *)

\* A claim lies between its due time and the next one of its row.
ClaimsBehind ==
  \A c \in claims : /\ c.due <= c.at
                    /\ rows[c.row] # Gone => c.at < rows[c.row].next

Claiming == Typed /\ ClaimsBehind /\ AtMostOnce

LEMMA InitClaiming == Init => Claiming
  BY InitTyped DEF Init, Claiming, ClaimsBehind, AtMostOnce

LEMMA ClaimingStep == Claiming /\ [Next]_vars => Claiming'
<1> SUFFICES ASSUME Claiming, [Next]_vars PROVE ClaimsBehind' /\ AtMostOnce'
  BY TypedStep DEF Claiming
<1> USE DEF Claiming
<1>1. \A c \in claims : c \in [row : Rows, at : Times, due : Times]
  BY DEF Typed, TypeOK
<1>2. \A c \in claims : c.row \in Rows /\ c.at \in Nat /\ c.due \in Nat
  BY <1>1, ConstantsAssumption DEF Times
<1>3. CASE Kept /\ claims' = claims
  BY <1>2, <1>3 DEF Kept, ClaimsBehind, AtMostOnce
<1>4. CASE Operator
  BY <1>2, <1>4, KeptByOperator DEF ClaimsBehind, AtMostOnce
<1>5. ASSUME NEW l \in Lanes, Claim(l) PROVE ClaimsBehind' /\ AtMostOnce'
  <2> DEFINE s == cur[l].row
             new == [row |-> s, at |-> stamp[l], due |-> rows[s].next]
  <2>1. /\ s \in Rows /\ stamp[l] \in Nat /\ rows[s] # Gone /\ rows'[s] # Gone
        /\ rows[s].next \in Nat /\ rows'[s].next \in Nat
        /\ rows[s].next <= stamp[l] /\ stamp[l] < rows'[s].next
        /\ \A x \in Rows : x # s => rows'[x] = rows[x]
        /\ claims' = claims \cup {new}
    BY <1>5, ClaimMoves, ConstantsAssumption DEF Records
  <2>2. new.row = s /\ new.at = stamp[l] /\ new.due = rows[s].next
    OBVIOUS
  <2> HIDE DEF new, s
  <2>3. \A c \in claims : c.row = s => c.at < new.due /\ c.due < new.due /\ c.at < new.at
    BY <1>2, <2>1, <2>2 DEF ClaimsBehind
  <2>4. ClaimsBehind'
    <3>1. \A c \in claims : /\ c.due <= c.at
                            /\ rows'[c.row] # Gone => c.at < rows'[c.row].next
      BY <1>2, <2>1, <2>2, <2>3 DEF ClaimsBehind
    <3>2. new.due <= new.at /\ new.at < rows'[new.row].next
      BY <2>1, <2>2
    <3> QED
      BY <2>1, <3>1, <3>2 DEF ClaimsBehind
  <2>5. AtMostOnce'
    <3>1. \A a, b \in claims : a.row = b.row => (a.due = b.due <=> a.at = b.at)
      BY DEF AtMostOnce
    <3>2. \A c \in claims : c.row = new.row => c.due # new.due /\ c.at # new.at
      BY <1>2, <2>1, <2>2, <2>3
    <3> QED
      BY <2>1, <3>1, <3>2 DEF AtMostOnce
  <2> QED
    BY <2>4, <2>5
<1> QED
  BY <1>3, <1>4, <1>5, KeptByLane, KeptByOthers

\* Over any deaths, disables and late passes one due time is claimed once, and a
\* schedule_run_id names one occurrence.
THEOREM ClaimedOnce == Spec => []AtMostOnce
<1>1. Init => Claiming
  BY InitClaiming
<1>2. Claiming /\ [Next]_vars => Claiming'
  BY ClaimingStep
<1>3. Claiming => AtMostOnce
  BY DEF Claiming
<1> QED
  BY <1>1, <1>2, <1>3, PTL DEF Spec

-----------------------------------------------------------------------------
(* A kill stops the rows behind the fire in hand.                          *)

\* A lane that may still start a fire under the kill has started none since.
Killing ==
  ~ allowed => \A l \in Lanes : /\ afterKill[l] <= 1
                                /\ pc[l] \in {"claim", "claimed"} => afterKill[l] = 0

LEMMA KillingByLane ==
  ASSUME Typed, Killing, NEW l \in Lanes, LaneStep(l)
  PROVE  Killing'
<1> USE DEF Typed, TypeOK, Places
<1>1. CASE LogStarted(l)
  BY <1>1 DEF LogStarted, Killing, Goto
<1>2. CASE Look(l)
  BY <1>2 DEF Look, Killing, Goto
<1>3. CASE Claim(l)
  BY <1>3 DEF Claim, Killing, Goto
<1>4. ASSUME UNCHANGED <<allowed, afterKill>>,
             \A m \in Lanes : pc'[m] \in {"claim", "claimed"} => pc'[m] = pc[m]
      PROVE  Killing'
  BY <1>4 DEF Killing
<1>5. ASSUME ~ LogStarted(l), ~ Look(l), ~ Claim(l)
      PROVE  /\ UNCHANGED <<allowed, afterKill>>
             /\ \A m \in Lanes : pc'[m] \in {"claim", "claimed"} => pc'[m] = pc[m]
  BY <1>5 DEF LaneStep, FactoryStep, Start, Abandon, BeginPass, EndPass, Defer, ClaimLost,
       Expire, LogOutcome, Record, WriteMeta, Fork, Register, StillComputing, Admit,
       LogCollected, RecordCollected, Unlink, FailOrphan, ClearOrphan, NoOrphan, Goto
<1> QED
  BY <1>1, <1>2, <1>3, <1>4, <1>5

LEMMA KillingStep == Typed /\ Killing /\ [Next]_vars => Killing'
<1> SUFFICES ASSUME Typed, Killing, [Next]_vars PROVE Killing'
  OBVIOUS
<1>1. CASE Switch
  BY <1>1 DEF Switch, Killing
<1>2. ASSUME NEW l \in Lanes, Die(l) PROVE Killing'
  BY <1>2 DEF Die, Killing, Typed, TypeOK
<1>3. CASE UNCHANGED <<allowed, afterKill, pc>>
  BY <1>3 DEF Killing
<1>4. CASE Operator \/ Tick \/ (\E r \in computing : ChildEnds(r)) \/ UNCHANGED vars
  BY <1>3, <1>4 DEF Operator, SetEnabled, Remove, Tick, ChildEnds, vars, laneVars
<1> QED
  BY <1>1, <1>2, <1>4, KillingByLane DEF Next

\* Under a kill each lane starts at most the one fire it had already looked at.
THEOREM KillIsPrompt == Spec => []KillStops
<1>1. Init => Typed /\ Killing
  BY InitTyped DEF Init, Killing
<1>2. Typed /\ Killing /\ [Next]_vars => Typed' /\ Killing'
  BY TypedStep, KillingStep
<1>3. Killing => KillStops
  BY DEF Killing, KillStops
<1> QED
  BY <1>1, <1>2, <1>3, PTL DEF Spec

-----------------------------------------------------------------------------
(* The life of a run: claimed, started, ended.                             *)

\* A run is started once, after its claim.  The run in a lane's hands, the runs a
\* startup found and the run of the registered child have no ending yet.
Life ==
  /\ \A r \in Runs : ends[r] # <<>> => r \in begun
  /\ \A r \in begun : \E c \in claims : c.row = r.row /\ c.at = r.at
  /\ \A l \in Lanes :
       /\ pc[l] = "claimed" => /\ cur[l] \notin begun
                               /\ \E c \in claims : c.row = cur[l].row /\ c.at = cur[l].at
       /\ pc[l] \in {"run", "fork", "pid"} => cur[l] \in begun /\ ends[cur[l]] = <<>>
       /\ \A r \in todo[l] : r \in begun /\ ends[r] = <<>>
  /\ child # NoRun => child \in begun /\ (pc["maint"] \notin {"close", "unlink"} => ends[child] = <<>>)
  /\ meta \subseteq begun

\* Only an orphan's ending follows another one, and only on a factory run.
Endless ==
  \A r \in Runs :
    /\ \A i \in 1 .. Len(ends[r]) : ends[r][i] \in {"fired", "abandoned"} => i = 1
    /\ r.row \notin Factory => Len(ends[r]) <= 1

\* Steps that end no run, start none and take none in hand.
LEMMA LifeKept ==
  ASSUME Claiming, Life, UNCHANGED <<begun, claims, ends>>,
         child' \in {child, NoRun}, meta' \subseteq meta,
         \A l \in Lanes :
           /\ todo'[l] \subseteq todo[l]
           /\ pc'[l] \in {"claimed", "run", "fork", "pid"} =>
                cur'[l] = cur[l] /\ (pc'[l] = pc[l] \/ (pc[l] = "run" /\ pc'[l] = "fork")
                                       \/ (pc[l] = "fork" /\ pc'[l] = "pid")),
         pc'["maint"] \notin {"close", "unlink"} /\ child' # NoRun => pc["maint"] \notin {"close", "unlink"}
  PROVE  Life'
  BY DEF Life

\* The first ending of a run.
LEMMA FirstEnding ==
  ASSUME Typed, Endless, NEW r \in Runs, NEW how \in Endings, ends[r] = <<>>, EndRun(r, how)
  PROVE  Endless'
<1>1. /\ ends'[r] = Append(<<>>, how)
      /\ \A x \in Runs : x # r => ends'[x] = ends[x]
  BY Ending DEF Typed, TypeOK
<1>2. ends'[r] = <<how>> /\ Len(ends'[r]) = 1
  BY <1>1
<1>3. \A i \in 1 .. Len(ends'[r]) : i = 1
  BY <1>2
<1>4. \A x \in Runs : x # r =>
        /\ \A i \in 1 .. Len(ends'[x]) : ends'[x][i] \in {"fired", "abandoned"} => i = 1
        /\ x.row \notin Factory => Len(ends'[x]) <= 1
  BY <1>1 DEF Endless
<1>5. /\ \A i \in 1 .. Len(ends'[r]) : ends'[r][i] \in {"fired", "abandoned"} => i = 1
      /\ r.row \notin Factory => Len(ends'[r]) <= 1
  BY <1>2, <1>3
<1> QED
  BY <1>4, <1>5 DEF Endless

\* An orphan's, whatever came before it.
LEMMA OrphanEnding ==
  ASSUME Typed, Endless, NEW r \in Runs, r.row \in Factory, EndRun(r, "orphaned")
  PROVE  Endless'
<1>1. /\ ends'[r] = Append(ends[r], "orphaned") /\ ends[r] \in Seq(Endings)
      /\ \A x \in Runs : x # r => ends'[x] = ends[x]
  BY Ending DEF Typed, TypeOK, Endings
<1>2. \A i \in 1 .. Len(ends'[r]) : ends'[r][i] \in {"fired", "abandoned"} => i = 1
  <2> SUFFICES ASSUME NEW i \in 1 .. Len(ends'[r]), ends'[r][i] \in {"fired", "abandoned"}
               PROVE  i = 1
    OBVIOUS
  <2>1. i # Len(ends[r]) + 1
    BY <1>1
  <2>2. i \in 1 .. Len(ends[r]) /\ ends'[r][i] = ends[r][i]
    BY <1>1, <2>1
  <2> QED
    BY <2>2 DEF Endless
<1>3. \A x \in Runs : x # r =>
        /\ \A i \in 1 .. Len(ends'[x]) : ends'[x][i] \in {"fired", "abandoned"} => i = 1
        /\ x.row \notin Factory => Len(ends'[x]) <= 1
  BY <1>1 DEF Endless
<1> QED
  BY <1>2, <1>3 DEF Endless

\* What the lanes hold is told apart by their kinds, and by the kind of the child.
LEMMA Apart ==
  ASSUME Typed, NEW l \in Lanes, NEW r \in Runs, r.row \in RowsOf(l)
  PROVE  /\ \A m \in Lanes : m # l /\ pc[m] \in Holding => cur[m] # r
         /\ \A m \in Lanes : m # l => r \notin todo[m]
         /\ l = "risk" /\ child # NoRun => child # r
<1>1. l = "risk" => r.row \notin Factory
  BY ConstantsAssumption DEF RowsOf
<1> QED
  BY <1>1, OneLane DEF Typed, Flow

\* Run r, of lane l, gets its first ending; nothing else that has none is touched.
LEMMA LifeEnded ==
  ASSUME Claiming, Life, NEW l \in Lanes, NEW r \in begun, NEW how \in Endings,
         r.row \in RowsOf(l), EndRun(r, how), UNCHANGED <<begun, claims, child, meta>>,
         \A m \in Lanes : m # l => UNCHANGED <<pc[m], cur[m], todo[m]>>,
         pc'[l] \notin {"claimed", "run", "fork", "pid"},
         todo'[l] \subseteq todo[l] \ {r},
         l = "maint" /\ child # NoRun => pc'["maint"] \in {"close", "unlink"} \/ (child # r /\ pc["maint"] \notin {"close", "unlink"})
  PROVE  Life'
<1>1. /\ r \in Runs /\ ends'[r] # <<>>
      /\ \A x \in Runs : x # r => ends'[x] = ends[x]
      /\ \A x \in begun : x \in Runs
  BY Ending DEF Claiming, Typed, TypeOK
<1>2. /\ \A m \in Lanes : m # l /\ pc[m] \in Holding => cur[m] # r
      /\ \A m \in Lanes : m # l => r \notin todo[m]
      /\ l = "risk" /\ child # NoRun => child # r
  BY <1>1, Apart DEF Claiming
<1>3. \A m \in Lanes : pc[m] \in Holding => cur[m] \in Runs
  BY DEF Claiming, Typed, Flow
<1>4. \A x \in Runs : ends'[x] # <<>> => x \in begun
  BY <1>1 DEF Life
<1>5. \A m \in Lanes :
        /\ pc'[m] = "claimed" => /\ cur'[m] \notin begun
                                 /\ \E c \in claims : c.row = cur'[m].row /\ c.at = cur'[m].at
        /\ pc'[m] \in {"run", "fork", "pid"} => cur'[m] \in begun /\ ends'[cur'[m]] = <<>>
        /\ \A x \in todo'[m] : x \in begun /\ ends'[x] = <<>>
  <2> SUFFICES ASSUME NEW m \in Lanes
      PROVE /\ pc'[m] = "claimed" => /\ cur'[m] \notin begun
                                     /\ \E c \in claims : c.row = cur'[m].row /\ c.at = cur'[m].at
            /\ pc'[m] \in {"run", "fork", "pid"} => cur'[m] \in begun /\ ends'[cur'[m]] = <<>>
            /\ \A x \in todo'[m] : x \in begun /\ ends'[x] = <<>>
    OBVIOUS
  <2>1. CASE m = l
    BY <1>1, <2>1 DEF Life
  <2>2. CASE m # l
    BY <1>1, <1>2, <1>3, <2>2 DEF Life, Holding
  <2> QED
    BY <2>1, <2>2
<1>6. child # NoRun =>
        child \in begun /\ (pc'["maint"] \notin {"close", "unlink"} => ends'[child] = <<>>)
  BY <1>1, <1>2 DEF Life, Lanes
<1> QED
  BY <1>4, <1>5, <1>6 DEF Life

\* A claimed run is a new one: the claims of its row are all behind its due time.
LEMMA LifeClaim ==
  ASSUME Claiming, Life, NEW l \in Lanes, Claim(l)
  PROVE  Life'
<1> DEFINE new == [row |-> cur[l].row, at |-> stamp[l], due |-> rows[cur[l].row].next]
<1>1. /\ cur[l].at = stamp[l] /\ rows[cur[l].row] # Gone
      /\ rows[cur[l].row].next <= stamp[l] /\ stamp[l] \in Nat /\ rows[cur[l].row].next \in Nat
      /\ claims' = claims \cup {new}
  BY ClaimMoves, ConstantsAssumption DEF Claiming, Records
<1>2. new.row = cur[l].row /\ new.at = cur[l].at
  BY <1>1
<1> HIDE DEF new
<1>3. \A c \in claims : c.row = cur[l].row => c.at \in Nat /\ c.at < rows[cur[l].row].next
  BY <1>1, ConstantsAssumption DEF Claiming, Typed, TypeOK, ClaimsBehind, Times
<1>4. cur[l] \notin begun
  <2> SUFFICES ASSUME cur[l] \in begun PROVE FALSE
    OBVIOUS
  <2>1. PICK c \in claims : c.row = cur[l].row /\ c.at = cur[l].at
    BY DEF Life
  <2> QED
    BY <1>1, <1>3, <2>1
<1>5. \A m \in Lanes : m # l => pc'[m] = pc[m] /\ cur'[m] = cur[m]
  BY DEF Claim, Goto, Claiming, Typed, TypeOK
<1>6. /\ pc'[l] = "claimed" => cur'[l] = cur[l]
      /\ pc'[l] \in {"claimed", "fires"}
      /\ UNCHANGED <<begun, ends, todo, child, meta>>
  BY DEF Claim, Goto, Claiming, Typed, TypeOK, childVars
<1>7. \A m \in Lanes : pc'[m] = "claimed" =>
        /\ cur'[m] \notin begun
        /\ \E c \in claims' : c.row = cur'[m].row /\ c.at = cur'[m].at
  BY <1>1, <1>2, <1>4, <1>5, <1>6 DEF Life
<1>8. \A m \in Lanes : pc'[m] \in {"run", "fork", "pid"} => cur'[m] \in begun /\ ends[cur'[m]] = <<>>
  BY <1>5, <1>6 DEF Life
<1>9. pc'["maint"] \notin {"close", "unlink"} /\ child # NoRun => pc["maint"] \notin {"close", "unlink"}
  BY <1>5, <1>6 DEF Claim, Lanes
<1> QED
  BY <1>1, <1>6, <1>7, <1>8, <1>9 DEF Life

LEMMA LifeStarted ==
  ASSUME Claiming, Life, NEW l \in Lanes, LogStarted(l)
  PROVE  Life'
<1>1. /\ cur[l] \in Runs /\ cur[l].row \in RowsOf(l) /\ cur[l] \notin begun
      /\ \E c \in claims : c.row = cur[l].row /\ c.at = cur[l].at
      /\ ends[cur[l]] = <<>>
  BY DEF LogStarted, Claiming, Typed, TypeOK, Flow, Holding, Life
<1>2. /\ begun' = begun \cup {cur[l]} /\ UNCHANGED <<claims, ends, cur, todo, child, meta>>
      /\ pc'[l] = "run" /\ \A m \in Lanes : m # l => pc'[m] = pc[m]
  BY DEF LogStarted, Goto, Claiming, Typed, TypeOK, childVars
<1>3. \A m \in Lanes : m # l /\ pc[m] \in Holding => cur[m] # cur[l]
  BY <1>1, Apart DEF Claiming
<1>4. \A m \in Lanes :
        /\ pc'[m] = "claimed" => /\ cur[m] \notin begun'
                                 /\ \E c \in claims : c.row = cur[m].row /\ c.at = cur[m].at
        /\ pc'[m] \in {"run", "fork", "pid"} => cur[m] \in begun' /\ ends[cur[m]] = <<>>
  BY <1>1, <1>2, <1>3 DEF Life, Holding
<1>5. pc'["maint"] \notin {"close", "unlink"} /\ child # NoRun => pc["maint"] \notin {"close", "unlink"}
  BY <1>2 DEF LogStarted, Lanes
<1> QED
  BY <1>1, <1>2, <1>4, <1>5 DEF Life

\* A startup finds runs of its own kinds without an ending.
LEMMA LifeStart ==
  ASSUME Claiming, Life, NEW l \in Lanes, Start(l)
  PROVE  Life'
<1>1. /\ \A r \in todo'[l] : r \in begun /\ ends[r] = <<>>
      /\ \A m \in Lanes : m # l => todo'[m] = todo[m] /\ pc'[m] = pc[m]
      /\ pc'[l] \in {"idle", "scan"} /\ pc[l] = "down"
      /\ UNCHANGED <<begun, claims, ends, cur, child, meta>>
  BY DEF Start, Open, Goto, Claiming, Typed, TypeOK, childVars
<1> QED
  BY <1>1 DEF Life, Lanes

LEMMA LifeAbandon ==
  ASSUME Claiming, Life, Endless, NEW l \in Lanes, Abandon(l)
  PROVE  Life' /\ Endless'
<1>1. PICK r \in todo[l] : /\ EndRun(r, "abandoned")
                           /\ todo' = [todo EXCEPT ![l] = @ \ {r}]
                           /\ Goto(l, IF todo[l] = {r} THEN "idle" ELSE "scan")
  BY DEF Abandon
<1>2. r \in begun /\ r \in Runs /\ ends[r] = <<>> /\ r.row \in RowsOf(l)
  BY DEF Life, Claiming, Typed, TypeOK, Flow
<1>3. l = "maint" => child = NoRun
  BY DEF Abandon, Claiming, Typed, Flow
<1>4. /\ UNCHANGED <<begun, claims, child, meta>>
      /\ \A m \in Lanes : m # l => UNCHANGED <<pc[m], cur[m], todo[m]>>
      /\ pc'[l] \in {"idle", "scan"}
      /\ todo'[l] \subseteq todo[l] \ {r}
  BY <1>1 DEF Abandon, Goto, Claiming, Typed, TypeOK, childVars
<1>5. Life'
  BY <1>1, <1>2, <1>3, <1>4, LifeEnded DEF Endings
<1>6. Endless'
  BY <1>1, <1>2, FirstEnding DEF Claiming, Endings
<1> QED
  BY <1>5, <1>6

LEMMA LifeOutcome ==
  ASSUME Claiming, Life, Endless, NEW l \in Lanes, LogOutcome(l)
  PROVE  Life' /\ Endless'
<1>1. PICK how \in {"fired", "failed"} : EndRun(cur[l], how)
  BY DEF LogOutcome
<1>2. cur[l] \in begun /\ cur[l] \in Runs /\ ends[cur[l]] = <<>> /\ cur[l].row \in RowsOf(l)
  BY DEF LogOutcome, Life, Claiming, Typed, Flow, Holding
<1>3. l = "maint" /\ child # NoRun => child # cur[l]
  BY DEF LogOutcome, Claiming, Typed, Flow
<1>4. todo[l] = {} /\ pc[l] \in {"run", "fork", "pid"}
  BY DEF LogOutcome, Claiming, Typed, Flow
<1>5. /\ UNCHANGED <<begun, claims, child, meta>>
      /\ \A m \in Lanes : m # l => UNCHANGED <<pc[m], cur[m], todo[m]>>
      /\ pc'[l] = "record"
      /\ todo'[l] \subseteq todo[l] \ {cur[l]}
  BY <1>4 DEF LogOutcome, Goto, Claiming, Typed, TypeOK, childVars
<1>6. Life'
  BY <1>1, <1>2, <1>3, <1>4, <1>5, LifeEnded DEF Endings
<1>7. Endless'
  BY <1>1, <1>2, FirstEnding DEF Claiming, Endings
<1> QED
  BY <1>6, <1>7

LEMMA LifeCollected ==
  ASSUME Claiming, Life, Endless, LogCollected
  PROVE  Life' /\ Endless'
<1>1. PICK how \in {"fired", "failed"} : EndRun(child, how)
  BY DEF LogCollected
<1>2. pc["maint"] \in {"fired", "collect"} /\ child # NoRun
  BY DEF LogCollected, Claiming, Typed, Flow
<1>3. child \in begun /\ child \in Runs /\ ends[child] = <<>> /\ child.row \in RowsOf("maint")
  BY <1>2 DEF Life, Claiming, Typed, TypeOK, Flow, RowsOf
<1>4. todo["maint"] = {}
  BY <1>2 DEF Claiming, Typed, Flow, Lanes
<1>5. /\ UNCHANGED <<begun, claims, child, meta>>
      /\ \A m \in Lanes : m # "maint" => UNCHANGED <<pc[m], cur[m], todo[m]>>
      /\ pc'["maint"] = "close"
      /\ todo'["maint"] \subseteq todo["maint"] \ {child}
  BY <1>4 DEF LogCollected, Goto, Claiming, Typed, TypeOK, Lanes
<1>6. Life'
  BY <1>1, <1>3, <1>5, LifeEnded DEF Endings, Lanes
<1>7. Endless'
  BY <1>1, <1>3, FirstEnding DEF Claiming, Endings
<1> QED
  BY <1>6, <1>7

LEMMA LifeOrphan ==
  ASSUME Claiming, Life, Endless, NEW r \in meta, FailOrphan(r)
  PROVE  Life' /\ Endless'
<1>1. r \in begun /\ r \in Runs /\ r.row \in Factory /\ r.row \in RowsOf("maint")
  BY DEF Life, Claiming, Typed, TypeOK, Flow, RowsOf
<1>2. pc["maint"] = "collect" /\ child = NoRun /\ todo["maint"] = {}
  BY DEF FailOrphan, Claiming, Typed, Flow, Lanes
<1>3. /\ UNCHANGED <<begun, claims, child, meta, todo>>
      /\ \A m \in Lanes : m # "maint" => UNCHANGED <<pc[m], cur[m]>>
      /\ pc'["maint"] = "orphan"
  BY DEF FailOrphan, Goto, Claiming, Typed, TypeOK, Lanes
<1>4. CASE EndRun(r, "orphaned")
  <2>1. Life'
    BY <1>1, <1>2, <1>3, <1>4, LifeEnded DEF Endings, Lanes
  <2> QED
    BY <1>1, <1>4, <2>1, OrphanEnding DEF Claiming
<1>5. CASE UNCHANGED ends
  <2>1. Life'
    BY <1>2, <1>3, <1>5 DEF Life, Lanes
  <2> QED
    BY <1>5, <2>1 DEF Endless
<1> QED
  BY <1>4, <1>5 DEF FailOrphan

\* The fork leaves a meta file first, then a registered child.
LEMMA LifeFork ==
  ASSUME Claiming, Life, WriteMeta \/ Fork \/ Register
  PROVE  Life'
<1>1. /\ pc["maint"] \in {"run", "fork", "pid"} /\ cur["maint"] \in begun
      /\ ends[cur["maint"]] = <<>>
  BY DEF WriteMeta, Fork, Register, Life, Lanes
<1>2. /\ UNCHANGED <<begun, claims, ends, cur, todo>>
      /\ child' \in {child, cur["maint"]} /\ meta' \subseteq meta \cup {cur["maint"]}
      /\ pc'["maint"] \in {"fork", "pid", "record"}
      /\ \A m \in Lanes : m # "maint" => pc'[m] = pc[m]
  BY DEF WriteMeta, Fork, Register, Goto, Claiming, Typed, TypeOK, Lanes
<1> QED
  BY <1>1, <1>2 DEF Life, Lanes

\* The other steps of a lane.
LEMMA LifeRest ==
  ASSUME Claiming, Life, NEW l \in Lanes,
         \/ BeginPass(l) \/ EndPass(l) \/ Look(l) \/ Defer(l) \/ ClaimLost(l) \/ Expire(l) \/ Record(l)
         \/ l = "maint" /\ (StillComputing \/ Admit \/ RecordCollected \/ Unlink \/ ClearOrphan \/ NoOrphan)
  PROVE  Life' /\ UNCHANGED <<begun, claims, ends>>
<1>1. /\ UNCHANGED <<begun, claims, ends, todo>> /\ child' \in {child, NoRun} /\ meta' \subseteq meta
  BY DEF BeginPass, EndPass, Look, Defer, ClaimLost, Expire, Record, StillComputing, Admit,
         RecordCollected, Unlink, ClearOrphan, NoOrphan, childVars
<1>2. /\ \A m \in Lanes : m # l => pc'[m] = pc[m] /\ cur'[m] = cur[m]
      /\ pc'[l] \notin {"claimed", "run", "fork", "pid"}
  BY DEF BeginPass, EndPass, Look, Defer, ClaimLost, Expire, Record, StillComputing, Admit,
         RecordCollected, Unlink, ClearOrphan, NoOrphan, Goto, Claiming, Typed, TypeOK
<1>3. pc'["maint"] \notin {"close", "unlink"} /\ child' # NoRun => pc["maint"] \notin {"close", "unlink"}
  BY <1>2 DEF BeginPass, EndPass, Look, Defer, ClaimLost, Expire, Record, StillComputing, Admit,
         RecordCollected, Unlink, ClearOrphan, NoOrphan, Goto, Claiming, Typed, TypeOK, Lanes
<1> QED
  BY <1>1, <1>2, <1>3, LifeKept

\* Deaths drop what was in hand; the operator, the clock and the children touch none of it.
LEMMA LifeAround ==
  ASSUME Claiming, Life,
         (\E l \in Lanes : Die(l)) \/ (\E r \in computing : ChildEnds(r))
           \/ Operator \/ Switch \/ Tick \/ UNCHANGED vars
  PROVE  Life' /\ UNCHANGED <<begun, claims, ends>>
<1>1. ASSUME NEW l \in Lanes, Die(l) PROVE Life' /\ UNCHANGED <<begun, claims, ends>>
  <2>1. /\ UNCHANGED <<begun, claims, ends>> /\ meta' = meta
        /\ child' \in {child, NoRun} /\ (l = "maint" => child' = NoRun)
        /\ \A m \in Lanes : todo'[m] \subseteq todo[m]
        /\ \A m \in Lanes : m # l => pc'[m] = pc[m] /\ cur'[m] = cur[m]
        /\ pc'[l] = "down"
    BY <1>1 DEF Die, Claiming, Typed, TypeOK
  <2> QED
    BY <2>1, LifeKept DEF Lanes
<1>2. CASE (\E r \in computing : ChildEnds(r)) \/ Operator \/ Switch \/ Tick \/ UNCHANGED vars
  <2>1. UNCHANGED <<begun, claims, ends, child, meta, pc, cur, todo>>
    BY <1>2 DEF ChildEnds, Operator, SetEnabled, Remove, Switch, Tick, vars, laneVars, childVars
  <2> QED
    BY <2>1, LifeKept
<1> QED
  BY <1>1, <1>2

LEMMA EndlessKept == Endless /\ UNCHANGED ends => Endless'
  BY DEF Endless

LEMMA LifeByLane ==
  ASSUME Claiming, Life, Endless, NEW l \in Lanes, LaneStep(l)
  PROVE  Life' /\ Endless'
<1>1. CASE Start(l)
  BY <1>1, LifeStart, EndlessKept DEF Start
<1>2. CASE Abandon(l)
  BY <1>2, LifeAbandon
<1>3. CASE Claim(l)
  BY <1>3, LifeClaim, EndlessKept DEF Claim
<1>4. CASE LogStarted(l)
  BY <1>4, LifeStarted, EndlessKept DEF LogStarted
<1>5. CASE LogOutcome(l)
  BY <1>5, LifeOutcome
<1>6. CASE l = "maint" /\ (WriteMeta \/ Fork \/ Register)
  BY <1>6, LifeFork, EndlessKept DEF WriteMeta, Fork, Register
<1>7. CASE l = "maint" /\ LogCollected
  BY <1>7, LifeCollected
<1>8. CASE l = "maint" /\ \E r \in meta : FailOrphan(r)
  BY <1>8, LifeOrphan
<1>9. CASE \/ BeginPass(l) \/ EndPass(l) \/ Look(l) \/ Defer(l) \/ ClaimLost(l) \/ Expire(l) \/ Record(l)
           \/ l = "maint" /\ (StillComputing \/ Admit \/ RecordCollected \/ Unlink \/ ClearOrphan \/ NoOrphan)
  BY <1>9, LifeRest, EndlessKept
<1> QED
  BY <1>1, <1>2, <1>3, <1>4, <1>5, <1>6, <1>7, <1>8, <1>9 DEF LaneStep, FactoryStep

LEMMA LifeStep == Claiming /\ Life /\ Endless /\ [Next]_vars => Life' /\ Endless'
  BY LifeByLane, LifeAround, EndlessKept DEF Next

LEMMA InitLife == Init => Life /\ Endless
<1> SUFFICES ASSUME Init PROVE Life /\ Endless
  OBVIOUS
<1>1. \A r \in Runs : ends[r] = <<>>
  BY DEF Init
<1> QED
  BY <1>1 DEF Init, Life, Endless

\* A life of one ending, or of several for an orphan, is never both abandoned and fired.
LEMMA EndedLives == Endless => EndedOnce /\ OrphansStayDead
<1> SUFFICES ASSUME Endless PROVE EndedOnce /\ OrphansStayDead
  OBVIOUS
<1>1. EndedOnce
  BY DEF Endless, EndedOnce, Ended
<1>2. ASSUME NEW r \in Runs, NEW i \in 1 .. Len(ends[r]), NEW j \in 1 .. Len(ends[r]), i < j
      PROVE  ends[r][j] # "fired"
  BY <1>2 DEF Endless
<1> QED
  BY <1>1, <1>2 DEF OrphansStayDead

\* The reachable lives.
LEMMA Living == Spec => [](Endless)
<1>1. Init => Claiming /\ Life /\ Endless
  BY InitClaiming, InitLife
<1>2. (Claiming /\ Life /\ Endless) /\ [Next]_vars => (Claiming /\ Life /\ Endless)'
  BY ClaimingStep, LifeStep
<1> QED
  BY <1>1, <1>2, PTL DEF Spec

\* No run is recorded both as abandoned and as fired, and a run without a child has
\* one ending, whichever lane restarts and whenever.
THEOREM OneEnding == Spec => []EndedOnce
<1>1. Endless => EndedOnce
  BY EndedLives
<1> QED
  BY <1>1, Living, PTL

\* A run failed as an orphan is never fired afterwards, nor collected twice.
THEOREM DeadForGood == Spec => []OrphansStayDead
<1>1. Endless => OrphansStayDead
  BY EndedLives
<1> QED
  BY <1>1, Living, PTL
=============================================================================
