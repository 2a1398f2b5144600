------------------------------ MODULE Schedules ------------------------------
(* The scheduler of runtime/mvp_runtime (scheduler.py, scheduler_cli.py): two *)
(* long-running processes, the risk lane and the maintenance lane, fire the   *)
(* due rows of one schedules file, while the operator edits it and turns the  *)
(* kill switch.  A factory row is computed by a child process, whose parent   *)
(* collects it passes later.  Every process may die between any two writes.   *)
(*                                                                            *)
(* One locked read-modify-write of the file, and one appended event, is one   *)
(* step.  A pass stamps its time once and reads the rows once (run_due); what *)
(* it does per row is judged again against the file's current content.        *)
(* The events skipped, deferred and gap_detected, and the mutation events,    *)
(* change nothing another step reads and are not kept; the notifier, the      *)
(* heartbeat and the task registry are left out.                              *)
EXTENDS Integers, Sequences, FiniteSets

CONSTANTS
  Risk, Plain, Factory,  \* the rows by kind: RISK_KINDS, other maintenance kinds, KIND_FACTORY
  Every,                 \* interval_seconds of each row
  Until,                 \* expires_at of each row
  Gone, NoRun,
  MaxTime, MaxUpsets     \* bounds of the model: the clock; deaths, edits and switches

Rows  == Risk \cup Plain \cup Factory
Lanes == {"risk", "maint"}
Times == 0 .. MaxTime

\* lane_kinds: each lane sees the rows of its own kinds, and those only.
RowsOf(l) == IF l = "risk" THEN Risk ELSE Plain \cup Factory

\* schedule_run_id: a claimed occurrence, named by its row and the time of the
\* pass that claimed it.
Runs == [row : Rows, at : Times]

\* The four endings a ledger may give a run; an orphan's is a "failed" event of
\* its own status.
Endings == {"fired", "failed", "orphaned", "abandoned"}

Records == [on : BOOLEAN, next : Nat, last : {"none", "running", "ended"}]

\* The lanes' kinds are disjoint (RISK_KINDS, MAINTENANCE_KINDS); an interval is at
\* least MIN_INTERVAL_SECONDS.
ASSUME ConstantsAssumption ==
  /\ Risk \cap (Plain \cup Factory) = {}
  /\ Every \in [Rows -> Nat \ {0}] /\ Until \in [Rows -> Nat]
  /\ Gone \notin Records /\ NoRun \notin Runs
  /\ MaxTime \in Nat /\ MaxUpsets \in Nat

VARIABLES
  now,        \* the clock
  rows,       \* the schedules file: enabled, next_run_at, last_status of each row
  allowed,    \* control: execution_allowed
  begun,      \* the runs with a started event
  claims,     \* every claim: the row, when, and for which due time (history)
  ends,       \* the terminal events of each run, in append order
  pc, stamp,  \* per lane: where it stands, and the `now` of its pass
  batch,      \* per lane: the rows of its pass still to be looked at
  todo,       \* per lane: the open runs its startup scan found
  cur,        \* per lane: the occurrence in hand
  child,                   \* maintenance: the run of the registered child
  meta, pids,              \* the spool: runs with a meta file, those whose pid is in it
  computing,               \* the child processes still running
  good,                    \* the runs with a result file that holds candidates
  pool,                    \* runs whose candidates were appended to the pool
  afterKill,               \* per lane: fires started since the last kill (history)
  upsets                   \* deaths, edits, switches, failed forks so far (a bound)

laneVars  == <<pc, stamp, batch, todo, cur>>
childVars == <<child, meta, pids, computing, good, pool>>
vars == <<now, rows, allowed, begun, claims, ends, laneVars, childVars, afterKill, upsets>>

Open == {r \in begun : ends[r] = <<>>}

\* (Without the extra step: the next due time may be t itself.)
NextOccurrenceFrom(due, every, t) == due + every * ((t - due) \div every)

\* next_occurrence: whole intervals from the due time, strictly past t.
NextOccurrence(due, every, t) == due + every * ((t - due) \div every + 1)

\* (Without the due time: enabled is enough.)
DueWhenEnabled(s, t) == rows[s] # Gone /\ rows[s].on

Due(s, t) == rows[s] # Gone /\ rows[s].on /\ rows[s].next <= t

Init ==
  /\ now = 0
  /\ rows = [s \in Rows |-> [on |-> TRUE, next |-> 0, last |-> "none"]]
  /\ allowed = TRUE
  /\ begun = {} /\ claims = {} /\ ends = [r \in Runs |-> <<>>]
  /\ pc = [l \in Lanes |-> "down"] /\ stamp = [l \in Lanes |-> 0]
  /\ batch = [l \in Lanes |-> {}] /\ todo = [l \in Lanes |-> {}]
  /\ cur = [l \in Lanes |-> NoRun]
  /\ child = NoRun /\ meta = {} /\ pids = {} /\ computing = {} /\ good = {} /\ pool = {}
  /\ afterKill = [l \in Lanes |-> 0]
  /\ upsets = 0

\* ledger.append_scheduler_event of a terminal event.
EndRun(r, how) == ends' = [ends EXCEPT ![r] = Append(@, how)]

\* (The row as the pass read it, written back whole.)
WriteBack(s, status) ==
  rows' = [rows EXCEPT ![s] = [on |-> TRUE, next |-> IF @ = Gone THEN 0 ELSE @.next, last |-> status]]

\* ScheduleStore.record_result: the row's current record, its last_status only;
\* nothing if the row is gone.
RecordResult(s, status) ==
  rows' = IF rows[s] = Gone THEN rows ELSE [rows EXCEPT ![s].last = status]

Goto(l, place) == pc' = [pc EXCEPT ![l] = place]

-----------------------------------------------------------------------------
(* A process of the lane: its startup and its passes.                       *)

\* (The scan of every kind, the other lane's runs included.)
StartEverything(l) ==
  /\ pc[l] = "down"
  /\ todo' = [todo EXCEPT ![l] = Open]
  /\ Goto(l, IF Open = {} THEN "idle" ELSE "scan")
  /\ UNCHANGED <<now, rows, allowed, begun, claims, ends, stamp, batch, cur, childVars, afterKill, upsets>>

\* (No scan.)
StartBlind(l) ==
  /\ pc[l] = "down"
  /\ Goto(l, "idle")
  /\ UNCHANGED <<now, rows, allowed, begun, claims, ends, stamp, batch, todo, cur, childVars, afterKill, upsets>>

\* Docker starts the process again (restart: unless-stopped); its startup reads
\* the ledger for runs of its own kinds that have no ending.
Start(l) ==
  /\ pc[l] = "down"
  /\ LET found == {r \in Open : r.row \in RowsOf(l)} IN
       /\ todo' = [todo EXCEPT ![l] = found]
       /\ Goto(l, IF found = {} THEN "idle" ELSE "scan")
  /\ UNCHANGED <<now, rows, allowed, begun, claims, ends, stamp, batch, cur, childVars, afterKill, upsets>>

\* report_abandoned_runs: one event per run it found.
Abandon(l) ==
  /\ pc[l] = "scan"
  /\ \E r \in todo[l] :
       /\ EndRun(r, "abandoned")
       /\ todo' = [todo EXCEPT ![l] = @ \ {r}]
       /\ Goto(l, IF todo[l] = {r} THEN "idle" ELSE "scan")
  /\ UNCHANGED <<now, rows, allowed, begun, claims, stamp, batch, cur, childVars, afterKill, upsets>>

\* run_due: the pass takes its time and its snapshot of the due rows; the lane
\* that owns the factory first looks at the child.  (A pass that would find
\* nothing to do changes nothing and is left out.)
BeginPass(l) ==
  /\ pc[l] = "idle"
  /\ (\E s \in RowsOf(l) : Due(s, now)) \/ (l = "maint" /\ (child # NoRun \/ meta # {} \/ good # {}))
  /\ Goto(l, IF l = "maint" THEN "collect" ELSE "fires")
  /\ stamp' = [stamp EXCEPT ![l] = now]
  /\ batch' = [batch EXCEPT ![l] = {s \in RowsOf(l) : Due(s, now)}]
  /\ UNCHANGED <<now, rows, allowed, begun, claims, ends, todo, cur, childVars, afterKill, upsets>>

EndPass(l) ==
  /\ pc[l] = "fires" /\ batch[l] = {}
  /\ Goto(l, "idle")
  /\ stamp' = [stamp EXCEPT ![l] = 0]
  /\ UNCHANGED <<now, rows, allowed, begun, claims, ends, batch, todo, cur, childVars, afterKill, upsets>>

\* (Control is not read again for each row.)
LookOnce(l) ==
  /\ pc[l] = "fires"
  /\ \E s \in batch[l] :
       /\ batch' = [batch EXCEPT ![l] = @ \ {s}]
       /\ cur' = [cur EXCEPT ![l] = [row |-> s, at |-> stamp[l]]]
       /\ Goto(l, "claim")
  /\ UNCHANGED <<now, rows, allowed, begun, claims, ends, stamp, todo, childVars, afterKill, upsets>>

\* The next row of the batch: the control state is read again before each one.
\* Runs that are not allowed are claimed and dropped.
Look(l) ==
  /\ pc[l] = "fires"
  /\ \E s \in batch[l] :
       /\ batch' = [batch EXCEPT ![l] = @ \ {s}]
       /\ cur' = [cur EXCEPT ![l] = [row |-> s, at |-> stamp[l]]]
       /\ Goto(l, IF allowed THEN "claim" ELSE "drop")
  /\ UNCHANGED <<now, rows, allowed, begun, claims, ends, stamp, todo, childVars, afterKill, upsets>>

\* The pass budget is spent, or a factory row meets a running child: the row is
\* left due, unclaimed (how long the fires took is not modelled).
Defer(l) ==
  /\ pc[l] = "claim" /\ l = "maint"
  /\ Goto(l, "fires")
  /\ cur' = [cur EXCEPT ![l] = NoRun]
  /\ UNCHANGED <<now, rows, allowed, begun, claims, ends, stamp, batch, todo, childVars, afterKill, upsets>>

\* claim_due, under the file's lock: only a row that is still there, enabled and
\* due is claimed, and its next_run_at goes past the pass's time.
ClaimDue(s, t) ==
  /\ rows'   = [rows EXCEPT ![s].next = NextOccurrence(@, Every[s], t)]
  /\ claims' = claims \cup {[row |-> s, at |-> t, due |-> rows[s].next]}

Claim(l) ==
  /\ pc[l] \in {"claim", "drop"}
  /\ pc[l] = "claim" => ~(cur[l].row \in Factory /\ child # NoRun)
  /\ Due(cur[l].row, stamp[l])
  /\ ClaimDue(cur[l].row, stamp[l])
  /\ IF pc[l] = "claim"
       THEN Goto(l, "claimed") /\ UNCHANGED cur
       ELSE Goto(l, "fires") /\ cur' = [cur EXCEPT ![l] = NoRun]
  /\ UNCHANGED <<now, allowed, begun, ends, stamp, batch, todo, childVars, afterKill, upsets>>

\* Removed, disabled or claimed since the snapshot: nothing to do.
ClaimLost(l) ==
  /\ pc[l] \in {"claim", "drop"}
  /\ ~Due(cur[l].row, stamp[l])
  /\ Goto(l, "fires")
  /\ cur' = [cur EXCEPT ![l] = NoRun]
  /\ UNCHANGED <<now, rows, allowed, begun, claims, ends, stamp, batch, todo, childVars, afterKill, upsets>>

\* A claimed row past its expires_at is disabled and not fired.
Expire(l) ==
  /\ pc[l] = "claimed" /\ Until[cur[l].row] <= stamp[l]
  /\ rows' = IF rows[cur[l].row] = Gone THEN rows ELSE [rows EXCEPT ![cur[l].row].on = FALSE]
  /\ Goto(l, "fires")
  /\ cur' = [cur EXCEPT ![l] = NoRun]
  /\ UNCHANGED <<now, allowed, begun, claims, ends, stamp, batch, todo, childVars, afterKill, upsets>>

\* The started event, before any work.
LogStarted(l) ==
  /\ pc[l] = "claimed" /\ Until[cur[l].row] > stamp[l]
  /\ begun' = begun \cup {cur[l]}
  /\ afterKill' = [afterKill EXCEPT ![l] = IF allowed THEN 0 ELSE @ + 1]
  /\ Goto(l, "run")
  /\ UNCHANGED <<now, rows, allowed, claims, ends, stamp, batch, todo, cur, childVars, upsets>>

\* _execute ran (a factory row: it could not prepare its child, not fork it, or not
\* write the pid of the forked child, which then computes unregistered) and the
\* event of its outcome is appended.  A fork or write that fails is an upset.
LogOutcome(l) ==
  /\ \/ pc[l] = "run" /\ UNCHANGED upsets
     \/ pc[l] \in {"fork", "pid"} /\ upsets < MaxUpsets /\ upsets' = upsets + 1
  /\ \E how \in IF cur[l].row \in Factory THEN {"failed"} ELSE {"fired", "failed"} :
       EndRun(cur[l], how)
  /\ Goto(l, "record")
  /\ UNCHANGED <<now, rows, allowed, begun, claims, stamp, batch, todo, cur, childVars, afterKill>>

\* record_result: the child of a factory row is running, any other row is done.
Record(l) ==
  /\ pc[l] = "record"
  /\ RecordResult(cur[l].row, IF cur[l] = child THEN "running" ELSE "ended")
  /\ Goto(l, "fires")
  /\ cur' = [cur EXCEPT ![l] = NoRun]
  /\ UNCHANGED <<now, allowed, begun, claims, ends, stamp, batch, todo, childVars, afterKill, upsets>>

-----------------------------------------------------------------------------
(* The factory child: _spawn_factory_child, and what collects it.           *)

\* The meta file first, so that a parent that dies leaves a claim.
WriteMeta ==
  /\ pc["maint"] = "run" /\ cur["maint"].row \in Factory
  /\ meta' = meta \cup {cur["maint"]}
  /\ Goto("maint", "fork")
  /\ UNCHANGED <<now, rows, allowed, begun, claims, ends, stamp, batch, todo, cur,
                 child, pids, computing, good, pool, afterKill, upsets>>

Fork ==
  /\ pc["maint"] = "fork"
  /\ computing' = computing \cup {cur["maint"]}
  /\ Goto("maint", "pid")
  /\ UNCHANGED <<now, rows, allowed, begun, claims, ends, stamp, batch, todo, cur,
                 child, meta, pids, good, pool, afterKill, upsets>>

\* The pid goes into the meta file and the child is registered in memory.
Register ==
  /\ pc["maint"] = "pid"
  /\ pids' = pids \cup {cur["maint"]}
  /\ child' = cur["maint"]
  /\ Goto("maint", "record")
  /\ UNCHANGED <<now, rows, allowed, begun, claims, ends, stamp, batch, todo, cur,
                 meta, computing, good, pool, afterKill, upsets>>

\* _factory_child_main: one result file and the child is gone.  A result that is
\* an error, or a child that dies without one, is the same to its parent.
ChildEnds(r) ==
  /\ r \in computing
  /\ computing' = computing \ {r}
  /\ good' \in {good, good \cup {r}}
  /\ UNCHANGED <<now, rows, allowed, begun, claims, ends, laneVars, child, meta, pids, pool, afterKill, upsets>>

\* _collect_factory_child: the registered child still computes.
StillComputing ==
  /\ pc["maint"] = "collect" /\ child # NoRun
  /\ child \in computing
  /\ Goto("maint", "fires")
  /\ UNCHANGED <<now, rows, allowed, begun, claims, ends, stamp, batch, todo, cur, childVars, afterKill, upsets>>

\* A good result: its candidates are appended before the event.
Admit ==
  /\ pc["maint"] = "collect" /\ child \in good
  /\ pool' = pool \cup {child}
  /\ Goto("maint", "fired")
  /\ UNCHANGED <<now, rows, allowed, begun, claims, ends, stamp, batch, todo, cur,
                 child, meta, pids, computing, good, afterKill, upsets>>

\* The event of the outcome: a child with no good result has failed, or died, or
\* is past FACTORY_CHILD_TIMEOUT_SECONDS (at some pass, if it still computes) and
\* killed.
LogCollected ==
  /\ \/ pc["maint"] = "fired" /\ EndRun(child, "fired") /\ UNCHANGED computing
     \/ /\ pc["maint"] = "collect" /\ child # NoRun /\ child \notin good
        /\ EndRun(child, "failed")
        /\ computing' = computing \ {child}
  /\ Goto("maint", "close")
  /\ UNCHANGED <<now, rows, allowed, begun, claims, stamp, batch, todo, cur,
                 child, meta, pids, good, pool, afterKill, upsets>>

RecordCollected ==
  /\ pc["maint"] = "close"
  /\ RecordResult(child.row, "ended")
  /\ Goto("maint", "unlink")
  /\ UNCHANGED <<now, allowed, begun, claims, ends, stamp, batch, todo, cur, childVars, afterKill, upsets>>

\* Both files go, then the registration.
Unlink ==
  /\ pc["maint"] = "unlink"
  /\ meta' = meta \ {child} /\ pids' = pids \ {child}
  /\ good' = good \ {child}
  /\ child' = NoRun
  /\ Goto("maint", "fires")
  /\ UNCHANGED <<now, rows, allowed, begun, claims, ends, stamp, batch, todo, cur, computing, pool, afterKill, upsets>>

\* (The orphan's result is used after all.)
ResumeOrphan(r) ==
  /\ pc["maint"] = "collect" /\ child = NoRun /\ r \in meta
  /\ computing' = IF r \in pids THEN computing \ {r} ELSE computing
  /\ EndRun(r, IF r \in good THEN "fired" ELSE "orphaned")
  /\ cur' = [cur EXCEPT !["maint"] = r]
  /\ Goto("maint", "orphan")
  /\ UNCHANGED <<now, rows, allowed, begun, claims, stamp, batch, todo,
                 child, meta, pids, good, pool, afterKill, upsets>>

\* _fail_orphaned_factory_spool: no child is registered, so each meta file is a
\* fire whose parent died.  Its child is killed if the pid is known; the run is
\* failed if its row is still there.
FailOrphan(r) ==
  /\ pc["maint"] = "collect" /\ child = NoRun /\ r \in meta
  /\ computing' = IF r \in pids THEN computing \ {r} ELSE computing
  /\ IF rows[r.row] # Gone THEN EndRun(r, "orphaned") ELSE UNCHANGED ends
  /\ cur' = [cur EXCEPT !["maint"] = r]
  /\ Goto("maint", "orphan")
  /\ UNCHANGED <<now, rows, allowed, begun, claims, stamp, batch, todo,
                 child, meta, pids, good, pool, afterKill, upsets>>

\* Its row's last_status, then its files.
ClearOrphan ==
  /\ pc["maint"] = "orphan"
  /\ LET r == cur["maint"] IN
       /\ RecordResult(r.row, "ended")
       /\ meta' = meta \ {r} /\ pids' = pids \ {r}
       /\ good' = good \ {r}
  /\ cur' = [cur EXCEPT !["maint"] = NoRun]
  /\ Goto("maint", "collect")
  /\ UNCHANGED <<now, allowed, begun, claims, ends, stamp, batch, todo,
                 child, computing, pool, afterKill, upsets>>

\* Result files that no meta file claims are deleted unread.
NoOrphan ==
  /\ pc["maint"] = "collect" /\ child = NoRun /\ meta = {}
  /\ good' = {}
  /\ Goto("maint", "fires")
  /\ UNCHANGED <<now, rows, allowed, begun, claims, ends, stamp, batch, todo, cur,
                 child, meta, pids, computing, pool, afterKill, upsets>>

-----------------------------------------------------------------------------
(* The operator, the clock and deaths.                                      *)

\* schedule_delegation.apply_change through set_enabled and remove.
SetEnabled(s, on) ==
  /\ rows[s] # Gone /\ rows[s].on # on /\ upsets < MaxUpsets
  /\ rows' = [rows EXCEPT ![s].on = on]
  /\ upsets' = upsets + 1
  /\ UNCHANGED <<now, allowed, begun, claims, ends, laneVars, childVars, afterKill>>

Remove(s) ==
  /\ rows[s] # Gone /\ upsets < MaxUpsets
  /\ rows' = [rows EXCEPT ![s] = Gone]
  /\ upsets' = upsets + 1
  /\ UNCHANGED <<now, allowed, begun, claims, ends, laneVars, childVars, afterKill>>

\* A kill or pause, and the way back.
Switch ==
  /\ upsets < MaxUpsets
  /\ allowed' = ~allowed
  /\ afterKill' = [l \in Lanes |-> 0]
  /\ upsets' = upsets + 1
  /\ UNCHANGED <<now, rows, begun, claims, ends, laneVars, childVars>>

Tick ==
  /\ now < MaxTime /\ now' = now + 1
  /\ UNCHANGED <<rows, allowed, begun, claims, ends, laneVars, childVars, afterKill, upsets>>

\* A lane's process dies; a factory child survives its parent or goes with it
\* (its container stops).
Die(l) ==
  /\ pc[l] # "down" /\ upsets < MaxUpsets
  /\ upsets' = upsets + 1
  /\ pc' = [pc EXCEPT ![l] = "down"]
  /\ batch' = [batch EXCEPT ![l] = {}] /\ todo' = [todo EXCEPT ![l] = {}]
  /\ cur' = [cur EXCEPT ![l] = NoRun] /\ stamp' = [stamp EXCEPT ![l] = 0]
  /\ IF l = "maint"
       THEN /\ child' = NoRun
            /\ computing' \in {computing, {}}
       ELSE UNCHANGED <<child, computing>>
  /\ UNCHANGED <<now, rows, allowed, begun, claims, ends, meta, pids, good, pool, afterKill>>

-----------------------------------------------------------------------------

FactoryStep ==
  \/ WriteMeta \/ Fork \/ Register
  \/ StillComputing \/ Admit \/ LogCollected \/ RecordCollected \/ Unlink
  \/ (\E r \in meta : FailOrphan(r)) \/ ClearOrphan \/ NoOrphan

LaneStep(l) ==
  \/ Start(l) \/ Abandon(l) \/ BeginPass(l) \/ EndPass(l)
  \/ Look(l) \/ Defer(l) \/ Claim(l) \/ ClaimLost(l) \/ Expire(l)
  \/ LogStarted(l) \/ LogOutcome(l) \/ Record(l)
  \/ l = "maint" /\ FactoryStep

Operator ==
  \E s \in Rows : (\E on \in BOOLEAN : SetEnabled(s, on)) \/ Remove(s)

Next ==
  \/ \E l \in Lanes : LaneStep(l) \/ Die(l)
  \/ \E r \in computing : ChildEnds(r)
  \/ Operator \/ Switch \/ Tick

\* A live process keeps taking its steps and Docker restarts a dead one.  Strong
\* fairness of LogCollected is the child's deadline: passes that find it computing
\* for ever would be past it.
Spec ==
  /\ Init /\ [][Next]_vars
  /\ \A l \in Lanes : WF_vars(LaneStep(l))
  /\ SF_vars(LogCollected)

-----------------------------------------------------------------------------
(* Properties.                                                              *)

Places   == {"down", "scan", "idle", "collect", "fires", "claim", "drop", "claimed", "run",
             "fork", "pid", "record", "fired", "close", "unlink", "orphan"}

TypeOK ==
  /\ now \in Times /\ allowed \in BOOLEAN
  /\ rows \in [Rows -> Records \cup {Gone}]
  /\ begun \subseteq Runs
  /\ claims \subseteq [row : Rows, at : Times, due : Times]
  /\ ends \in [Runs -> Seq(Endings)]
  /\ pc \in [Lanes -> Places] /\ stamp \in [Lanes -> Times]
  /\ batch \in [Lanes -> SUBSET Rows] /\ todo \in [Lanes -> SUBSET Runs]
  /\ cur \in [Lanes -> Runs \cup {NoRun}]
  /\ child \in Runs \cup {NoRun}
  /\ meta \subseteq Runs /\ pids \subseteq Runs /\ computing \subseteq Runs
  /\ good \subseteq Runs /\ pool \subseteq Runs
  /\ afterKill \in [Lanes -> Nat]
  /\ upsets \in Nat

Ended(r, how) == \E i \in 1 .. Len(ends[r]) : ends[r][i] = how

\* run_due's promise as written: exactly one terminal event per started run.  The
\* code breaks it for a factory run whose parent died: the startup scan writes
\* abandoned, and the first pass then finds the spool's meta file and writes failed.
OneTerminal == \A r \in Runs : Len(ends[r]) <= 1

\* What remains of it (report_abandoned_runs' lane scope): no run is recorded both
\* as abandoned and as fired, and a run without a child has one terminal event,
\* whatever lane restarts while the other is in the middle of a fire.
EndedOnce ==
  \A r \in Runs :
    /\ ~(Ended(r, "abandoned") /\ Ended(r, "fired"))
    /\ r.row \notin Factory => Len(ends[r]) <= 1

\* At-most-once (claim_due, next_occurrence): over crashes, disables and late
\* passes one due time is claimed by one pass only, and one pass claims a row once,
\* so schedule_run_id names one occurrence.
AtMostOnce ==
  \A a, b \in claims : a.row = b.row => (a.due = b.due <=> a.at = b.at)

\* The candidates of a factory run enter the pool only when its own parent collected
\* it: a run failed as an orphan is never fired afterwards, nor collected twice.
OrphansStayDead ==
  \A r \in Runs : \A i, j \in 1 .. Len(ends[r]) :
    i < j => ends[r][j] # "fired"

\* A kill issued while a pass is running stops the rows behind it: each lane starts
\* at most the one fire it had already looked at.
KillStops == ~allowed => \A l \in Lanes : afterKill[l] <= 1

\* The operator's edit wins over a pass that works on an older snapshot: only the
\* operator enables, removes or brings back a row, and a due time never goes back.
OperatorWins ==
  [][~Operator =>
       \A s \in Rows :
         IF rows[s] = Gone THEN rows'[s] = Gone
         ELSE /\ rows'[s] # Gone
              /\ rows'[s].on => rows[s].on
              /\ rows'[s].next >= rows[s].next]_vars

\* Every fire gets its ending, and a row does not say running for ever, through
\* deaths of either lane and of the child.
EveryRunEnds ==
  /\ \A r \in Runs : r \in begun ~> ends[r] # <<>>
  /\ \A s \in Rows : (rows[s] # Gone /\ rows[s].last = "running")
                       ~> (rows[s] = Gone \/ rows[s].last # "running")
=============================================================================
