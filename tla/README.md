# thomas_agent: verification project

thomas_agent is a governed agent runtime. A control loop takes messages from one
operator (Thomas), a scheduler fires periodic work, and every act that changes the
outside world (an order on an exchange, a deploy, a promotion of a memory into the
trusted set, a step up the execution ladder) goes through an approval that is asked,
decided, spent once and audited. State is a directory of append-only JSONL files and
small JSON records, shared by several processes that lock it with `flock`.

This directory holds TLA+ modules that model the parts of that system whose
correctness depends on interleaving, crashes and ordering, the TLC configurations that
check them, and TLAPS proofs of the properties that matter most.

## 1. Inventory

Paths are relative to `src/runtime/mvp_runtime/` unless they say otherwise.

| component | state it keeps | operations | hard behaviour | what makes it correct |
|---|---|---|---|---|
| **execution stage** (`crypto/execution_stage.py`, `src/scripts/register_execution_stage.py`) | stage ledger, anchor, mirror | request, confirm, demote, sync-anchor; read on every order | several door processes under one lock, each with a clock sampled before the wait; three file writes a process can die between; restore of an archive that omits the anchor | no stage is in force that no approval granted; a stop is never lost; a restore does not bring a demoted stage back |
| **governed asks** (`approval.py`, `approval_store.py`, `consumption.py`, `trial.py`) | approval records (append-only, latest wins), permission decisions | ask, decide, expire, spend | decisions without a lock, spends under one; expiry and kill switch read before a lock wait of up to 60 s; crash between the CONSUMED record and the effect | an approval is spent at most once and only after APPROVED; no effect without a spent approval |
| **memory** (`memory.py`, `working_memory.py`, `memory_console.py`, `memory_cli.py`) | working candidates, VALIDATED records | append, promote, retire, prune | promotion doors outside the spend lock; crash between append and retire | one VALIDATED record per candidate; nothing VALIDATED that was not promoted |
| **control** (`control.py`, `operator.py`, `frontdesk.py`, consoles) | runtime mode, halt level, kill switch, command log | kill, pause, resume, halt, release | commands and readers race; a latch must survive restart | a latched stop is left only by an approved release |
| **scheduler** (`scheduler.py`, `fire_watchdog.py`, `heartbeat.py`) | schedules with `next_run_at`, run events | claim, fire, finish, abandon; catch-up after downtime | two services (risk and maintenance lanes) claim from one file; deadline races; restart between claim and fire | an occurrence is fired at most once; a due risk occurrence is eventually fired or recorded as dropped |
| **pipeline worker, read bridge, socket door** (`pipeline_worker.py`, `read_bridge.py`, `socket_door.py`) | request spool, socket | accept, serve, time out | late answers, half-closed peers | an answer goes to the request that asked |
| **planning** (`intake.py`, `binding.py`, `planner.py`, `prime.py`, `assignment.py`, `triage.py`) | none across runs | build a task, bind it to Core, plan, assign | single-threaded | a plan binds to the Core version it was made from |
| **governance** (`permission.py`, `authority.py`, `safety_gate.py`, `budgets.py`) | budget counters | decide, gate, charge | counters at their limit | no charge above a budget |
| **work** (`worker.py`, providers, tools) | none across runs | run one task with a provider and tools | provider failures, retries | fail closed |
| **assurance** (`validation.py`, `validator.py`, `audit.py`, `store.py`, `jsonl.py`, `filelock.py`) | audit hash chain, ledgers | append, verify, torn-tail repair | torn last line after a crash, concurrent appends | the chain never forks; a torn tail is never read as a record |
| **live orders** (`crypto/live_order*.py`, `live_leg.py`, `live_route.py`, `live_execution.py`, `live_reconcile.py`, `protection_watch.py`, `breaker_watch.py`) | order intents, submissions, positions, breaker state | plan, submit, protect, settle, reconcile, time exit | venue answers late, twice or never; crash between submit and record; two legs | no order twice for one intent; a filled entry is protected or closed; reconcile converges |
| **paper, factory, pool, lifecycle, promotion, forward cohort** (`crypto/`) | strategies and their state, evidence | generate, admit, promote, retire | long-lived state machines over many runs | no strategy live without its evidence |
| **holdings, blog** (`holdings/`, `blog/`) | portfolios, posts | rebalance, publish | retry of an external call | at most one publication or transfer per approval |
| **deploy runner** (`deploy_runner/`) | request state, latch, consumption records, audit chain | request, gate, run, latch, clear | an actor outside the container; crash mid-deploy | one deploy per approval; a latched runner does nothing |
| **task registry** (`task_registry.py`) | task records | register, advance, close | concurrent updates | status only moves forward |
| **read-only kernel** (`../read_only_kernel/`) | none | hashing, schema validation, policy load | pure | - |
| **backup and restore** (`src/scripts/ops/harness_backup.sh`, `src/docs/RUNBOOK_HARNESS_BACKUP_RESTORE.md`) | archives | archive without the anchor, restore | rollback of part of the state | see execution stage |

How they interact: the operator loop and the scheduler are processes of their own that
call planning, governance and work in-process; doors (`src/scripts/*.py`) are short-lived
processes a person starts; all of them meet only through files under the state
directory, each file guarded by its own lock file or by none. The deploy runner is a
host-side actor that reads the same approvals. The live-order path reads the execution
stage, the control state and the budgets on every entry.

## 2. What is modelled

| module | models | against |
|---|---|---|
| `StageRules` | the pure rules of the execution stage: what a chain of records, an anchor, a mirror and the approvals add up to; planning of a transition; the record a confirm or a demotion writes | `crypto/execution_stage.py` |
| `ExecutionStage` | the registration door's processes, their file writes, deaths, policy changes, the signed testnet cycle, archives and restores | `src/scripts/register_execution_stage.py`, `crypto/execution_stage.py`, the backup runbook |
| `SingleUseGrant` | the abstract promise of an approval: answered once, spent once, used at most once and only after the spend | - |
| `ApprovalSpend` | asks, answers, the spend lock, consume, trial, the promotion doors, the retention of candidates | `approval.py`, `consumption.py`, `trial.py`, `working_memory.py`, `memory_console.py`, `src/scripts/promote_memory_candidate.py` |
| `DeployRunner` | the privileged actor of the deploy runner and its startup reconciliation | `deploy_runner/actor.py`, `startup.py` and their stores |
| `Schedules` | the two lanes of the scheduler, the schedules file, claims and run events, the factory child and its spool, the kill switch, the operator's edits, deaths | `scheduler.py`, `scheduler_cli.py`, `schedule_delegation.py` |
| `LiveBook` | the live leg, the slippage probe and the emergency close over one venue, the position book, the in-flight claims and the ledger of outcomes | `crypto/live_leg.py`, `live_route.py`, `live_order_stores.py`, `live_position.py`, `src/scripts/run_slippage_probe.py` |
| `Autoinvest` | the approved buy scenario: approval, fires over two markets and several days, the journal, the exchange, deaths and lost answers | `holdings/autoinvest.py` |
| `MC*` | instances and symmetry sets for TLC; `MCLiveCaps` also gives an order of the processes' steps | |
| `*Proofs` | theorems and proofs of the module they are named after | |
| `AutoinvestBooks` | the totals of the approved buy, over `AutoinvestProofs` | |
| `SumFacts` | what the library's sum of a function over a finite set comes to | |

`SingleUseGrant` is the abstract specification of two of them: both `ApprovalSpend` and
`DeployRunner` instantiate it with a refinement mapping (`Grant`) and are shown, by TLC and
by TLAPS, to implement it.

In each module an operator whose comment is in parentheses, or begins "Variant of", is a
plausible mistake in the code at that place. No action uses it: it is there to show that a
property can tell it from what the code does (`PROJECT.json`, "mutants").

### 2.1 ExecutionStage

The state is the three files (`ledger`, `anchor`, `mirror`), the approvals in the stage's
scope (`asks`, by the second they were asked in), the policy, the clock, and for each door
process where it is (`pc`), the second it sampled (`now`), what it was asked to do (`arg`)
and the record it is writing (`rec`). Records are named by their content, so an approval
that binds "the record it was asked over" binds a record and not an index.

One invocation of the door is `ConfirmBegin`, `DemoteBegin` or `SyncBegin` (the clock is
sampled here), then one step under the lock that re-reads and decides (`ConfirmSpend`,
`DemotePlan`, `SyncAnchor`), then up to four writes: `SetAside` (an untrusted chain is
moved away), `WriteRow`, `WriteAnchor`, `WriteMirror`. `Crash(d)` may happen at any of
them. It also stands for a write that raises after the row landed, because the code then
only warns. `Backup` and `Restore` follow the runbook: the archive leaves the anchor out,
and it is restored over the directory or into an empty one while no door runs. Two history
variables are only read by properties: `ceiling` (the stage of the last row any door
landed) and `exposed` (some restore ran while the anchor was not at the tip).

Simplifications: an archive is an atomic snapshot (a real `tar` of a live directory is
not); two invocations never sample the same second; the kill switch and an approval's
expiry, which can only refuse a confirm at its start, are left out; damage to a file other
than by the door's own steps is left out.

### 2.2 ApprovalSpend

The state is the latest row per ask and per candidate, the count of VALIDATED entries and
of audit events, the spend lock, and each process with what it holds in hand. `Spenders` run
`approval_cli consume` and `trial_cli run`, `Promoters` the two doors that promote without
a grant and without the spend lock. A spender is `SpendBegin` (the checks before the lock,
with the clock of the start), one of `LoseSpend`, `GiveUp`, `ResolveCandidate`,
`SpendTrial` once it may have the lock, and the writes in the code's order: `SpendGrant`,
`WriteValidated`, `Retire`, `Audit`; a trial is `SpendTrial`, `RunTrial`, `Audit`. `Fail`
ends any of them between two writes, as a failed write or a death does; the kernel frees
the lock of a dead process. `Prune` may use any clock up to the present one. The history
variables `effects`, `spentAt` and `unretired` are only read by properties.

Simplifications: Thomas's answers come from the operator loop alone, so an answer is one
step; an ask is told apart by its target, since its content does not change after it is
stored; the id of a candidate derives from its content and it is proposed once; refusals
before the lock leave no trace and are not steps; the audit ledger counts only the events of
spends and promotions. Core candidates, retrieval and the emergency close's own spend are
not in this module.

### 2.3 DeployRunner

The state is the actor's files (`request`, `spent`, `audit`, `latch`, and which of the logs
are `torn`), the process (`actor`: down, in one of the phases of the start, or up; latched
in memory or not), the operation lock and what each handler carries (`work`). One action is
one call of `_handle`, `_prepare`, `_act`, `_refuse_before_consume` or `_fail_after_spend`,
and one phase or one row of `reconcile` for the start (`Start`, `MarkUnknown`,
`RecordUnknown`, `Judge`, `StartLatch`, `Open`). Admission is unlocked in the code, so it is four actions between
which the other handler may run: `Arrive` tests the memory of the latch, `LookForLatch` reads
the LATCH file, `AssignLatched` sets the memory to what was found, `Recheck` tests it again.
A handler that found no file may thereby put "not latched" over what another handler set
meanwhile. `Write` is `append_row`: the row lands,
or it fails and is absent, there all the same, or torn, and a torn log refuses every later
append and read. `Die` ends the process anywhere; if it was appending, the log may be left
torn, and an interrupted latch leaves an unreadable file. `DeleteLatch` is a person who
removes the file instead of resolving it. `begun`, `built`, `stopped` and `slips` are history;
`slips` says what befell the latch since the process started: its memory was `overwritten`,
its file `lost` (it could not be created, or somebody deleted it).

Simplifications: whether an approval verifies, the clock is trusted and the measured tree
and images agree are free choices; docker's commands may succeed, fail before or after
their effect, or run out of time; what the image tags show afterwards is a free choice in
`Remeasure`; a docker daemon that finishes a command after the actor died, the
gatekeeper's intake log, inspections and the recovery documents are left out. A refused
start writes a row that is left out too: the store it refused on stays broken, so the
actor never serves again.

### 2.4 Schedules

The state is the schedules file (`rows`: enabled, `next_run_at`, `last_status`), the event
ledger (`begun`, `ends`), control (`allowed`), each lane's process (`pc`, the time `stamp`
of its pass, the `batch` it read, the occurrence in hand `cur`, what its startup found
`todo`) and the factory's spool (`meta`, `pids`, `good`), its processes (`computing`) and
the parent's registration (`child`). `claims` and `afterKill` are history.

A lane is `Start` (the startup scan), `Abandon` per open run, then passes: `BeginPass`
stamps the time and takes the snapshot of due rows, `Look` takes the next row and re-reads
control, `Claim` is `claim_due` under the file's lock (`ClaimLost` when the row is gone,
disabled or no longer due), `Expire`, `LogStarted`, `LogOutcome`, `Record`, and `Defer` for
a row left due. A factory row runs `WriteMeta`, `Fork`, `Register` (each of which may fail
instead, the last two as an upset: a child whose pid could not be written computes on,
unregistered); the next passes of its
lane `StillComputing`, `Admit`, `LogCollected`, `RecordCollected`, `Unlink`; a lane that
finds a meta file without a registered child runs `FailOrphan`, `ClearOrphan`, `NoOrphan`.
`SetEnabled`, `Remove` and `Switch` are the operator, `Die` a death of a lane between any
two writes; a child survives it or goes with it.

Simplifications: a fire's work is one step with an outcome; how long it takes is not
modelled, so any pass may defer; rows are created before the model starts; skipped,
deferred and gap events, notifications and heartbeats change nothing another step reads.

### 2.5 LiveBook

The state is the venue (`order`, `units`, `resting` and `fired` legs, which order `took` a
position, which `closes` filled), the three files (`book`, one record per symbol; `claim`,
the entry marks; `rows`, the realized outcomes), and each process with the position in hand
and the account it read (`seen`, `at`). One venue call or one locked read-modify-write is
one step.

A pass of the leg is `ReadVenue`, `ReadBook`, then `Look` at each booked position (settle,
close as unprotected, time exit, hold; the leg first saves the record with its new holding
count, `SaveHolding`, whatever the venue holds of it and on an unreadable account too), then
at most one entry: `Claim`
under the marks lock with the caps, `CheckResting`, `Send`, `Confirm`, `PlaceStop`,
`PlaceTarget`, `Save`, `Release`; `Refuse` before the send. A probe is the same entry with a
stop only, then `Watch` until it closes or settles its own record. The emergency close is
`EmerRead` (one account read under a halt) and `EmerLook` per position. Every end goes
`Close` or `Settle`, `Cancel`, `Record`, `Clear`, and each of the file writes may fail. The
venue fills an order whole, in part or not at all (`Land`: after a first part the rest
fills, or the order ends short), triggers legs (`Trigger`) and drops them (`Drop`); `Crash`
may come anywhere. A settlement reads the fill history only when nothing of the position is
left open.

Simplifications: all positions are on one side and an entry is `Full` units, which may fill
in two halves; the decision, the guard, the sizing, bar marks, slots, cooldowns and breakers
only refuse (`Refuse`); prices and P&L are left out, the count of positions stands for both
caps. `Tick` keeps two facts of the code's timing: an order does not rest on the wire
longer than its window, and an entry in progress ends before its claim expires
(`TimingAssumption` is the relation of the constants that makes it so; the code's values are
minutes against a claim of 30 minutes).

### 2.6 Autoinvest

The state is the scenario file, the journal, the exchange's orders by client order id with
the KST day they were posted on, the `stamp` of the last pass (its KST day), and the fire that is placing with its copy of the file (`mem`), the items it still has to order
(`todo`) and their prices. `Approve` replaces the file unless an order is open. A fire reads
back any subset of its open orders (the reads that failed are the rest) and then does
`Finish`, `Hold` or `Begin`; placing is `Intend` (the intent row), `Post`, `Answered` (the
outcome row) per item, or `Refuse` when the journal has the id; `Write` is the only write of
the file. `Die` may come between any two. A day has three parts, because the US session
spans midnight in Korea; `Tick` closes the session that ends and cancels what is unfilled, or
is midnight. A pass counts its spending, and dates its rows, by the day it was stamped with;
midnight may pass between the stamp and the fire's first look, and at any step of its
placing. Stamps never go back, since one pass runs at a time.

Simplifications: fees, rounding and the notice are left out; a US amount order is one unit
at its estimate; the checks that only hold the day are `Hold`'s choice; no session closes
while a fire places, since orders stop half an hour and more before it does
(`CLOSE_BEFORE`, `US_CLOSE_BEFORE`).

## 3. Runs

| run | instance | shows |
|---|---|---|
| `stage_race` | 2 doors, from SIGNED_TESTNET, 5 seconds, 2 policies, all targets, no archives | `NoRowOvertakesADemotion`: an approved row lands only over the record it was asked over. `BrokenOnlyAtTheFloor`: the doors break their own chain only at READ_ONLY. `LoweredOnlyByDemotion`, `RaisedOnlyByGrant`: apart from the policy's own changes, only a landed demotion lowers the stage and only a landed grant raises it, across every death and lost anchor write. `LadderEarned`: every rung in force was climbed by its own spent approval, in order |
| `stage_restore` | 1 door, from PAPER, 5 seconds, 2 policies, 1 archive | `RestoreProofWhenAnchored` and the inductive invariant `IInv` |
| `stage_stop` | 2 doors, 5 seconds, no deaths, fair doors | `StopTakesEffect` (liveness) |
| `spend_race` | 2 spenders, 1 promoter, 2 asks, 1 candidate, lifetimes of one tick, 1 tick, 1 failure | `SingleUse` and the refinement `Promise`; `OncePerRetirement`: two grants for one candidate promote it twice only if a PROMOTED marker was lost; `LoserLearnsItLost`; `EffectsAreAudited`; `IInv` |
| `deploy_handlers` | 2 handlers, 2 request ids, 2 approvals, 2 deaths, 1 failed write, 1 deletion | `Promise`; `UncertainMeansLatched`: no uncertain effect is behind an unlatched actor, unless an admission overwrote the memory, and then the LATCH file is there or was lost; `RepliesAreTrue`, `RecordedFirst`, and `IInv` |
| `sched_lanes` | one risk row due twice, one maintenance row that expires, one factory row; 1 tick, 2 upsets | `AtMostOnce`: one due time, one claim. `EndedOnce`: no run both abandoned and fired. `KillStops`: at most the fire a lane had already looked at starts after a kill. `OperatorWins`: a pass on an old snapshot never undoes an edit |
| `sched_ends` | one factory row, 1 tick, 3 upsets, fair lanes | `EveryRunEnds` (liveness): each started run gets an ending through deaths of the parent, of its successor and of the child. `OrphansStayDead` |
| `live_book` | the leg, a probe and the emergency close on one symbol, an entry each for the first two, claims that expire after one tick, 1 death, dropped leg or halt | `OnePerSymbol`, `NoForeignLeg`, `RowsUnique`, `RecordedFirst`, `StaysCovered` |
| `live_one_row` | the leg alone, one entry | violation: `OneRowEach` |
| `live_caps` | the leg and two probes on three symbols under the code's cap of two, along one order of their steps | violation: `CapsHold` |
| `auto_invest` | a domestic item of 2 shares and a US one, 2 approvals of 3 won, 2 days, 1 death or lost answer | `DailyCapHolds`: the passes of a day send no more than the limit, and no more than twice it reaches the exchange on a day; `WithinApproval`, `EveryFillIsBooked` |
| `auto_unknown` | the domestic item alone, 1 approval | violation: `UnknownSendsNoMore` |

`TypeOK` of each module is checked by the run that is first in its group. The largest runs
have one to three million distinct states and take two to four minutes with two workers.

**Bounds, and why they are enough.** A door's run of the stage is decided by at most three
records (the tip, the one it was asked over, the one it writes). From a chain that is already
climbed (`StartRung = 3`, two rows), five seconds leave three for an ask, its confirm and a
demotion or a second confirm that races it; two policies let a grant be planned under one
and land under the other. The properties of `stage_race` are also proved for any number of
doors, seconds and policies (section 5). `MaxTime = 1` with lifetimes of one tick in `spend_race` is
enough for an ask, a candidate, both or neither to be expired at each sampling of the
clock. Two spenders on two asks cover one grant spent twice, two grants for one candidate,
and a grant beside a trial; the promoter adds a door that takes no lock. The deploy runner's
door serves two requests at a time (`max_concurrent_requests`), so two handlers are not a
bound; two request ids and two approvals cover resends, an id sent with another approval and
an approval sent with another id. Two deaths are a death of an actor and one of its
reconciliation. One failed write tears a log, loses a row, or keeps the LATCH from being
created, with a death behind it or in front of it; that a second one breaks nothing more of
what is checked is proved (section 5).

The scheduler has exactly two lanes. A second occurrence of a row within the run needs its
interval inside the clock, which the risk row of `sched_lanes` and the factory row of
`sched_ends` have. Two upsets are a death and an edit, a kill and its end, a failed fork and
a death, or two deaths;
`sched_ends` has three for a death, a death of the one that fails the orphan, and a removal.
In `live_book` the two entries are on one symbol because `OnePerSymbol` and `NoForeignLeg`
speak of one symbol; the claim's lifetime is the run's only tick, so an entry meets a claim
that is fresh, expiring or expired. `HaltEarly` searches a halt only in the first minute
and beside one entry: the emergency close reads the account it acts on under the halt, and its
race is with the process that settles that position.
`live_caps` needs three symbols, four entries and some fifty steps, too many for a search of
all orders: `ScheduledSpec` of `MCLiveCaps` has each process take the turns listed there, by
the process and the place it goes to, and leaves what each step does and all of the venue to
TLC. Each of its steps is one of `Next`. In `auto_invest` two days give an item a second
session and have one midnight, which a fire's stamp, look and orders may each fall on either
side of; two approvals are a scenario replaced by another on the same day, under a limit of
the day (3) that one scenario can fill and two cannot both.

Runs stop when a clock, the approvals or the deaths are used up, so deadlock is checked in
`spend_race` only, whose processes always end. Symmetry sets are taken over processes and
ids only, and never in a liveness run.

**Fairness.** `stage_stop` uses `CrashFree`: no deaths, and weak fairness of
each door's own steps, because a process that is alive and holds or may take the lock
runs on. It assumes nothing of operators, asks or policies. `flock` is not fair, but each
door process asks once, so weak fairness of a step that stays enabled whenever the lock is
free suffices in a behaviour with finitely many invocations. `sched_ends` uses `Spec` of
`Schedules`: weak fairness of each lane's steps, the start included, because a live lane
polls for ever and Docker restarts a dead one (`restart: unless-stopped`); and strong
fairness of `LogCollected`, which stands for the child's deadline
(`FACTORY_CHILD_TIMEOUT_SECONDS`): passes that find it computing for ever would be past it.
Nothing is assumed of the child, the operator or the number of passes between two steps.

## 4. Where the code does not keep what it says

Three runs end in a violation and are findings:

- `live_one_row`: one position gets two rows in the ledger of outcomes. The settlement by
  the stop order and the retry by the fill history name the exit by different ids, so the
  retry's settlement id is not the one the code says it rebuilds
  (`crypto/live_leg.py:1363`). What is kept is `RowsUnique`: no id is recorded twice.
- `live_caps`: three symbols have a live entry under a cap of two
  (`crypto/live_position.py:73`). The leg's `SaveHolding` brings back a record a probe had
  cleared; the probe's next entry on that symbol cannot be booked, its claim expires, and the
  old record makes the book agree with the venue. The leg then times the old position out,
  finds its own close already filled under the same id, and clears the record between two
  doors' decisions and their claims: neither counts the entry. `claim_caps_problem` counts on
  every entry being "in the book, in flight, or both"
  (`crypto/live_order_stores.py:1100`). What is kept, for every cap, is `CapOfTheCounted`, and
  `CapUnlessRevived`: without that one save the cap holds (section 5).
- `auto_unknown`: a fire's order reaches the exchange and the fire dies before the outcome
  row. The scenario file still says pending with nothing tried, and the id of an order holds
  the day, so in the next day's session the same two shares are posted again under a new id,
  where the design note says that such a scenario sends no more
  (`src/docs/proposals/G6_BUY_CASH_AUTOINVEST_V0.1.md:35`). What is kept is `SentOnce` and
  `DailyCapHolds`: never twice under one id, never more than the day's limit.

The modules also state these, which TLC violates when they are added to the named cfg; each
has a weaker one beside it that holds:

| property | added to | what happens | what is kept |
|---|---|---|---|
| `DoorsKeepTheChain` | `stage_race.cfg` | two `--demote READ_ONLY` whose clocks are out of the order of their writes write a row the ledger's own reader refuses | `BrokenOnlyAtTheFloor` |
| `RestoreProof` | `stage_restore.cfg` | an append whose anchor write failed only warns; an archive taken before a demotion then matches the anchor, and a restore brings the demoted stage back | `RestoreProofWhenAnchored` |
| `PromotedOnce` | `spend_race.cfg` | the promotion doors outside the spend lock promote a candidate a consume is promoting | `OncePerRetirement`, between grants |
| `SpentInTime` | `spend_race.cfg` | the expiry is judged before the wait for the lock, so a grant is spent after it expired | `SingleUse` |
| `MemoryLatches` | `deploy_handlers.cfg` | an admission that found no LATCH file sets the memory to "not latched" after another handler's failure set it (`deploy_runner/actor.py:153`): the actor is unlatched, with an uncertain effect behind it, until the next admission reads the file | `UncertainMeansLatched`, which excepts it only while the file is there, about to be written, or was lost |
| `LatchStops` | `deploy_handlers.cfg` | the latch is read at admission only, so a request admitted before a failure runs docker after the runner latched | `UncertainMeansLatched` |
| `LatchRederived` | `deploy_handlers.cfg` | the same overwriting undoes a latch; and with two failed writes (`MaxFaults = 2`), the EXECUTING row's and the LATCH file's, the next start is not latched though nobody overwrote it | `UncertainMeansLatched` |
| `OneTerminal` | `sched_lanes.cfg` | a factory run whose parent died is abandoned by the startup scan, then failed by the first pass that finds its meta file | `EndedOnce` |
| `ClosesItsOwn` | `live_book.cfg` | between the probe's look at the book and its reduce-only close its stop fires and another entry takes the symbol; the close takes from that one | `OnePerSymbol`, `StaysCovered` |
| `KstDayCapHolds` | `auto_invest.cfg` | a fire stamped before midnight posts after it (its session spans midnight), and the next pass counts the new day from nothing: the orders that reach the exchange on one KST day exceed the limit that the comment at `DAILY_CAP_KRW` calls "a KST day, every scenario together" (`holdings/autoinvest.py:404`) | `DailyCapHolds`: the limit by the day of the stamp, and twice the limit by the day of the posting |
| `ClosedOrderIsBooked` | `auto_invest.cfg` under `FairSpec` | a scenario that stopped with an order open is not read back again, so its fill is never booked (an instance with one approval shows it) | `EveryFillIsBooked` |


## 5. What is proved

For every value of the constants that satisfies the modules' named assumptions:

| theorem | says |
|---|---|
| `ExecutionStageProofs!Typing` | `Spec => []TypeOK` |
| `ExecutionStageProofs!StageInvariant` | `Spec => []IInv` |
| `ExecutionStageProofs!AnchoredRestoreIsSafe` | `Spec => []RestoreProofWhenAnchored` |
| `ExecutionStageProofs!NoneOvertakes` | `MaxArchives = 0 => (Spec => []NoRowOvertakesADemotion)` |
| `ExecutionStageProofs!FloorOnly` | `MaxArchives = 0 => (Spec => []BrokenOnlyAtTheFloor)` |
| `ExecutionStageProofs!LadderIsEarned` | `MaxArchives = 0 => (Spec => []LadderEarned)` |
| `ExecutionStageProofs!RisesForAGrant` | `MaxArchives = 0 => (Spec => RaisedOnlyByGrant)` |
| `ExecutionStageProofs!FallsForADemotion` | `MaxArchives = 0 => (Spec => LoweredOnlyByDemotion)` |
| `ApprovalSpendProofs!SpendTypes` | `Spec => []TypeOK` |
| `ApprovalSpendProofs!SpendInvariant` | `Spec => []IInv` |
| `ApprovalSpendProofs!GrantUsedOnce` | `Spec => []SingleUse` |
| `ApprovalSpendProofs!KeepsItsPromise` | `ApprovalSpend` implements `SingleUseGrant` |
| `ApprovalSpendProofs!NothingUnaudited` | `Spec => []EffectsAreAudited` |
| `ApprovalSpendProofs!SecondGrantFindsNothing` | `Spec => []OncePerRetirement` |
| `ApprovalSpendProofs!LosersLearn` | `Spec => LoserLearnsItLost` |
| `DeployRunnerProofs!RunnerTypes` | `Spec => []TypeOK` |
| `DeployRunnerProofs!RunnerInvariant` | `Spec => []IInv` |
| `DeployRunnerProofs!LatchedWhenUncertain` | `Spec => []UncertainMeansLatched` |
| `DeployRunnerProofs!TrueReplies` | `Spec => []RepliesAreTrue` |
| `DeployRunnerProofs!RecordsComeFirst` | `Spec => []RecordedFirst` |
| `DeployRunnerProofs!RunnerKeepsItsPromise` | `DeployRunner` implements `SingleUseGrant` |
| `SchedulesProofs!Typing` | `Spec => []TypeOK` |
| `SchedulesProofs!EditsWin` | `Spec => OperatorWins` |
| `SchedulesProofs!ClaimedOnce` | `Spec => []AtMostOnce` |
| `SchedulesProofs!KillIsPrompt` | `Spec => []KillStops` |
| `SchedulesProofs!OneEnding` | `Spec => []EndedOnce` |
| `SchedulesProofs!DeadForGood` | `Spec => []OrphansStayDead` |
| `LiveBookProofs!Typing` | `Spec => []TypeOK` |
| `LiveBookProofs!NoRowTwice` | `Spec => []RowsUnique` |
| `LiveBookProofs!MoneyFirst` | `Spec => RecordedFirst` |
| `LiveBookProofs!OneOnASymbol` | `Spec => []OnePerSymbol` |
| `LiveBookProofs!LegsAreOwn` | `Spec => []NoForeignLeg` |
| `LiveBookProofs!AllCovered` | `Spec => StaysCovered` |
| `LiveBookProofs!CapOfTheCounted` | `Spec => []((\A e \in Entries : Live(e) => Counted(e)) => CapsHold)` |
| `LiveBookProofs!CapUnlessRevived` | `Spec /\ [][~ Revives]_vars => []CapsHold` |
| `AutoinvestProofs!Typing` | `Spec => []TypeOK` |
| `AutoinvestProofs!NeverResent` | `Spec => []SentOnce` |
| `AutoinvestProofs!NoneIsForgotten` | `Spec => []LiveIsOpen` |
| `AutoinvestBooks!WithinTheDay` | `Spec => []DailyCapHolds` |
| `AutoinvestBooks!NeverBuysMore` | `Spec => []WithinApproval` |
| `AutoinvestBooks!NothingGoesUnbooked` | `Spec => []EveryFillIsBooked` |

**The stage.** `RestoreProofWhenAnchored` speaks of the stage in force; to be kept by a
restore it must also speak of what lies in the archives. `IInv` adds: the stage lock is held
exactly by the process that is between its plan and its last write (`LockInv`); no two
running processes share a second and no row of any chain is of a process that has not
written it yet (`FreshInv`), so a row about to be written extends no archived chain; and a
chain the anchor vouches for is no higher than the last landed row, with no archived strict
continuation of it waiting to be put back (`VouchedInv`).

The five theorems with `MaxArchives = 0` are about a machine that is never restored, the
one `stage_race` checks: a restore may keep the ledger and roll its approvals back, after
which a row no longer stands on a spent approval. `NoneOvertakes` needs that the record
in a writer's hand is the one an approval was spent for, asked against the tip it is about
to extend (`PromisedInv`), and that every landed row is such a one (`RowsInv`). `FloorOnly` adds that a
writer's record continues the chain it was planned over (`WritersInv`: while it holds the
lock, nobody else moves that chain). `LadderIsEarned` adds, for each row and each record
in hand, the spent approvals of every rung below it in the order of their spending
(`EarnedInv`); a demotion keeps those of its ancestor, which is why it may carry its approval.

The two about the moves of the stage first reduce what a reader is told to the chain, its
anchor, the approvals and the policy (`Level`): no row is from the future, so the reader's
clock drops out, and a spent approval is never touched again, so the book of approvals does
too (`StageStands`). What is left are the steps of `StageMovers`. `ExtendsInv` says what a
writer knows when its row lands: a demotion is below the stage in force, a climb one above it
with the anchor at the tip, a rebind replaces a record bound to another policy, a bootstrap
starts where nothing is in force. The last needs a clock argument: a door that sampled its
time before the tip's own would find the tip not yet effective and start over, but its
approval was asked over that tip, hence after it.

**The spend.** A process about to act must be alone with its grant, and the grant spent and
unused (`ActingInv`); that follows from the lock (`LockInv`) and from what each place of
a door implies of what it has in hand (`HandInv`). The refinement maps an ask's status to
`state` and the history of effects to `used`; under `IInv` each step is a step of the
abstract grant or leaves it alone. `EffectsAreAudited` needs no more than the places a door
can be between its effect and its audit event. `OncePerRetirement` counts uses against lost
markers (`UsesInv`): a candidate that can still be looked up, with nobody about to mark it,
and a candidate somebody is about to promote under a grant, have no more uses than markers
lost. The lock makes the one who promotes the only one, so the next use finds the count with
one to spare, and the marker written or lost behind it restores the count. The lookup under
the lock is what keeps the first of these up to date (`Paired`: the candidate in hand is the one
its grant names).

**The deploy runner.** The invariant has a part per handler (`HandlerInv`: past its claim
it owns its request, and what is behind each step), a part per request (`RequestInv`) and
one for the start (`StartInv`: what is left to reconcile covers every request without an
outcome). One frame lemma (`OneRequest`) says that a handler's step touches its own record
and the one request it owns; each operation then has one lemma about that handler and that
request. `BootingIsQuiet` says that no handler works during a start. The latch is in two
places, and neither suffices: the memory may be overwritten, the file be missing. So
`RequestInv` says of a request with an uncertain effect that the actor is latched in memory
or was overwritten, and in either case that the LATCH file is there, that its handler has yet
to write it, or that it was lost (`OnFile`). A restart reads the records again, and what it
finds does not depend on either. That is the property too: the exception for an overwritten
memory ends with the process.

**The scheduler.** `Typed` is the types with what each place of a lane says of the occurrence
in hand (`Flow`). `AtMostOnce` needs that a claim is behind the file (`ClaimsBehind`: what
was claimed is earlier than the row's next time) and that a lane about to claim holds a time
nobody claimed; `KillStops` that a lane which read control before the kill is the only way a
fire starts after it; `EndedOnce` and `OrphansStayDead` follow from one invariant on
a run's life (`Life`, `Endless`): a run that is in hand, spooled or registered
has no ending, and an orphan that was failed has no registration left.

**The position book.** `Typed` joins the types with `Hands` (what each place of a process says
of the position it carries) and `Parts` (a part fill is less than the whole).
`RowsUnique` is kept because only `Record` appends, and it looks for the
id under the ledger's own lock (`AppendsOnce`). `RecordedFirst` needs that a process on its way to
`Clear` has recorded its money or is clearing a record that another process recorded
(`Cleared`, `ToClear`).

`OnePerSymbol` and `NoForeignLeg` are two conjuncts' worth of `Apart`: beside a live entry no
other of its symbol is live, and no leg of another rests. `Sound` makes that inductive, in the
order in which the code secures it. `VenueInv` says what the venue can show (legs belong to
an entry that filled whole, one that fired has flattened it); `Jobs` what each place of a
process implies of the order in its hand; `Records` that a position that was booked leaves
the book only when it is over, whichever process clears or re-saves it. `Dated` and
`Outlives` are the clock: a claim is younger than the decision it was taken on, and lasts
longer than that decision stays fresh, than the entry sent on it and than its order may rest.
`Knows` says what a fresh account that showed a symbol flat is worth: whatever is live there is
booked or claimed since, so `Claim` refuses. `Alone` carries this from the claim to the send
(nothing live, then nothing resting either) and through the entry. The step lemmas are split by
what moves (`WhoMoves`, `OnlyOneMoves`, and one per variable), since most steps touch one
process and one file.

For the cap, the symbols in flight or booked with a position not yet over (`Counting`) never
exceed `MaxPositions`, because only `Claim` adds one. That gives `CapsHold` wherever every live
entry is counted (`CapOfTheCounted`), which the run `live_caps` shows is not always.
`CapUnlessRevived` names the one step that makes it fail: the leg's save of a record that has
left the book (`Revives`). Without it, for any cap, a symbol's record is that of the entry just
decided, sent or live there (`BookedOwn`), so whatever is live when a door decides stays in the
book or under a claim while that decision is fresh (`Decided`), and the symbols on which
something is live or may yet be sent (`Acting`) are no more than the cap.

These rest on `TimingAssumption`, whose `2 * FreshFor < Ttl` is the code's minutes against 30
and with it the two facts `Tick` keeps (section 2.5), and on `NoneAssumption`: the value for no
record and no claim is not a record or a claim.

**The approved buy.** `SentOnce` rests on the order of the two writes: what was posted is in
the journal (`Sent`), so an id whose intent is journalled is not posted again. `LiveIsOpen`
follows a live order from the exchange to the copy in a fire's hand or the file
(`Tracking`); a fire that dies before its write counts what it held as lost.

The totals are in `AutoinvestBooks`. For the day's limit (`Budget`) the intents of a day, with
what the fire in hand has left to order, are within it: the check is made once, before the
first order, and every order turns a part of the estimate into a row. Each order at the
exchange has its own intent row (`OneIntent`), for its value, dated by the stamp of its pass,
which is the day it was posted on or the one before (`CountedOnce`, from `Stamps`: midnight is
the only thing that passes while a fire places). So the orders of one stamp are within the
limit, and those posted on one day are within the rows of two. For the books, an order of the scenario
is open in the copy, or answered for with all it filled and counted there (`Books`, for the
file and for the copy in hand, which differ while a fire reads back). A scenario that is pending
and lost no write has only accepted orders (`AllAccepted`), so what remains to be ordered
of an item is the approved quantity less what its orders filled or may still fill, and an order
for the remainder cannot exceed it (`Limits`); the cap is the same argument over prices, with
what the fire still means to order under it too. `Orderly` and `Holdings` are the facts of one
order these need: it fills up to its quantity and no further, a closed one fills no
more, the copy's open order is the one at the exchange under its id.

The sums are the library's, whose definition recurs on the set. `SumFacts` gets the facts of them
from two proofs: that a sum is the number of cells below its values (`SumIsSize`, an
induction over finite sets made as an argument from a smallest counterexample, with the
well-foundedness theorem of the library and no operator parameter), and from there, by
counting, that it adds, splits and grows as a sum does.

**Only model-checked.** The liveness properties `StopTakesEffect` and `EveryRunEnds`, because
fairness is out of TLAPS's reach. Every other property of a passing run is proved.

## 6. Not modelled

Numerical code (market data, features, backtests, evidence statistics), language-model
calls, rendering, and single-threaded chains of checks (planning, permission, validation)
keep no state between calls, so there is nothing for a model checker to interleave. They
are most of the repository's lines.

These keep shared state and are left out all the same:

- **Control** (`control.py`). Its writers are lock-free by design: a command re-reads the
  state, replaces the file, then appends its ledger event, and the docstring of
  `apply_command` names what that leaves ("the window left is the replace itself"). What the
  modelled components need of it is one switch that may turn between any two of their steps,
  and that is how `ApprovalSpend`, `Schedules` and `LiveBook` see it.
- **Task registry** (`task_registry.py`). Its entries report what other components did;
  nothing modelled here reads them to decide.
- **Append-only stores** (`jsonl.py`, `audit.py`, `store.py`). An append under its lock is one
  step everywhere except in `DeployRunner`, whose own code handles torn rows. The
  re-anchoring of the audit chain and the incremental reader are not modelled.
- **Core candidates** (`memory_cli.py`): two appends by one person's commands.
- **The gatekeeper of the deploy runner**: it numbers requests and forwards them; its two
  threads are the two handlers of `DeployRunner`.
- **Readers of the stage without its lock**: `ExecutionStage` reads at one instant.

`PROJECT.json` lists every component with its reason, and the hazards that no property
covers with theirs.

## 7. What would come next

1. `ControlState`: the state file, its command ledger, and what is recovered when one is lost.
2. `TaskRegistry`: three services and their startup reconciliation; the abstract entry that
   only moves forward.
3. `AuditChain` and `AppendCursor`: re-anchored appends, torn tails, incremental reading.
4. `StageReaders`: readers without the lock between the writes of an append; the timed
   approval window of the deploy runner; decisions on core candidates.
5. Theorems: the stage's properties over restores that put back approvals and ledger
   together.
