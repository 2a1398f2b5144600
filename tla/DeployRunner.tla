----------------------------- MODULE DeployRunner -----------------------------
(***************************************************************************)
(* The privileged actor of the deploy runner (deploy_runner/actor.py) and   *)
(* the startup check that must make sense of whatever a dead actor left     *)
(* behind (deploy_runner/startup.py).                                       *)
(*                                                                          *)
(* One process at a time (the instance lock) serves requests on a pool of   *)
(* Handlers, the door's threads.  A request names a request id and carries  *)
(* a signed approval; the pair is its fingerprint, and a caller may send it *)
(* again, or send the id with another approval, at any time.  The actor's   *)
(* records are five files, each append atomic under its own lock.           *)
(*                                                                          *)
(* Simplifications.  Whether an approval verifies, the clock is trusted and *)
(* the measured tree and images agree is decided outside: each may pass or  *)
(* refuse.  The docker commands may succeed, fail before or after their     *)
(* effect, or run out of time.  Audit rows that no code reads back are      *)
(* written (a write can fail and tear the file) but not kept.  Inspection,  *)
(* which claims and changes nothing, and the gatekeeper's own log are left  *)
(* out; so is LATCH_RESOLVED, which no code writes.                         *)
(***************************************************************************)
EXTENDS Naturals

CONSTANTS Handlers,      \* the door's threads (max_concurrent_requests)
          Requests,      \* request ids
          Approvals,     \* signed approvals, each with its own nonce
          Nobody,
          MaxRestarts,   \* how often the process dies
          MaxFaults,     \* how many writes fail
          MaxDeletions   \* how often somebody deletes the LATCH file

ASSUME Bounds == MaxRestarts \in Nat /\ MaxFaults \in Nat /\ MaxDeletions \in Nat
ASSUME Names  == Nobody \notin Handlers \cup Requests \cup Approvals

VARIABLES request,    \* requests.jsonl: latest row per request id
          spent,      \* consumed.jsonl: the request an approval was spent by
          audit,      \* audit.jsonl: the execution states of the rows about each request
          latch,      \* LATCH: absent, set, or there but not a valid record
          torn,       \* the files whose last line is torn: nothing reads them any more
          actor,      \* the process: where its life is, and what it holds in memory
          opLock,     \* operation.lock: the handler that holds it
          work,       \* each handler: where it is and what it carries
          deaths, faults, deletions,   \* counted, to bound them
          begun,      \* history: how often a request's docker commands were started
          built,      \* history: requests whose candidate image was built and checked
          stopped,    \* history: the actor has been latched in memory
          slips       \* history: what befell the latch since the process started

files   == <<request, spent, audit, latch, torn>>
counts  == <<deaths, faults, deletions>>
history == <<begun, built, stopped, slips>>
vars    == <<files, actor, opLock, work, counts, history>>
-----------------------------------------------------------------------------
Logs          == {"requests", "store", "audit"}
RequestStates == {"none", "claimed", "completed", "refused", "unknown", "partial"}
Terminal      == {"COMPLETED", "FAILED_NOT_STARTED", "FAILED_EFFECT_PARTIAL",
                  "EFFECT_STATE_UNKNOWN", "RECONCILED_UNKNOWN"}
Unresolved    == {"FAILED_EFFECT_PARTIAL", "EFFECT_STATE_UNKNOWN", "RECONCILED_UNKNOWN"}
Events        == Terminal \cup {"CONSUMED", "EXECUTING"}

(* The steps of a prepare_candidate, the two ways it can end badly, and the *)
(* steps of a start.                                                        *)
Steps  == {"idle", "look", "assign", "recheck", "begin", "received", "verify", "lock", "measure", "consume",
           "consumed", "executing", "tag", "build", "completed", "finish",
           "refuse", "finishRefused",
           "remeasure", "failed", "setLatch", "finishFailed"}
Phases == {"down", "mark", "judge", "setLatch", "open", "up"}

Idle == [at |-> "idle", request |-> Nobody, approval |-> Nobody, verdict |-> "none"]
Down == [at |-> "down", latched |-> FALSE, doubt |-> FALSE, todo |-> {}]

Init == /\ request = [r \in Requests |-> [state |-> "none", approval |-> Nobody]]
        /\ spent = [a \in Approvals |-> Nobody]
        /\ audit = [r \in Requests |-> {}]
        /\ latch = "absent"
        /\ torn = {}
        /\ actor = Down
        /\ opLock = Nobody
        /\ work = [h \in Handlers |-> Idle]
        /\ deaths = 0 /\ faults = 0 /\ deletions = 0
        /\ begun = [r \in Requests |-> 0]
        /\ built = {}
        /\ stopped = FALSE
        /\ slips = {}
-----------------------------------------------------------------------------
(* append_row.  A failed write is cut back; when that fails too the row, or *)
(* part of it, stays in the file although the writer was told it failed.    *)
(* A file with a torn line takes no more rows.                              *)
Outcomes  == {"ok", "clean", "landed", "torn"}
Landed(o) == o \in {"ok", "landed"}

Write(log, o) ==
  \/ /\ log \in torn
     /\ o = "clean"
     /\ UNCHANGED <<torn, faults>>
  \/ /\ log \notin torn
     /\ o = "ok"
     /\ UNCHANGED <<torn, faults>>
  \/ /\ log \notin torn
     /\ o # "ok"
     /\ faults < MaxFaults
     /\ faults' = faults + 1
     /\ torn' = IF o = "torn" THEN torn \cup {log} ELSE torn

LogRow(event, r, o) ==
  /\ Write("audit", o)
  /\ audit' = IF Landed(o) THEN [audit EXCEPT ![r] = @ \cup {event}] ELSE audit

SetState(r, state, o) ==
  /\ Write("requests", o)
  /\ request' = IF Landed(o) THEN [request EXCEPT ![r].state = state] ELSE request

(* Latch.set where there is none, failing: not created, or created and not  *)
(* written, or written and not known to be.                                 *)
LatchFails ==
  /\ latch = "absent"
  /\ faults < MaxFaults
  /\ faults' = faults + 1
  /\ latch' \in {"absent", "unreadable", "set"}
  /\ slips' = IF latch' = "absent" THEN slips \cup {"lost"} ELSE slips
  /\ UNCHANGED torn
-----------------------------------------------------------------------------
(* Handlers.                                                                *)
At(h, step) == actor.at = "up" /\ work[h].at = step
Go(h, step) == work' = [work EXCEPT ![h].at = step] /\ UNCHANGED opLock
End(h)      == /\ work' = [work EXCEPT ![h] = Idle]
               /\ opLock' = IF opLock = h THEN Nobody ELSE opLock
After(h, o, step, otherwise) == Go(h, IF o = "ok" THEN step ELSE otherwise)

(* What ends without the approval spent, and what goes wrong after it was.  *)
Verdict(h, verdict) == /\ work' = [work EXCEPT ![h].at = "remeasure", ![h].verdict = verdict]
                       /\ UNCHANGED opLock

(* Admission takes no lock, and another handler may run between any two of  *)
(* its steps.  Memory is tested; if it says nothing, the LATCH file is read,*)
(* memory is set to whether one was found, and tested again.                *)
Arrive(h, r, a) ==
  /\ At(h, "idle")
  /\ ~ actor.latched
  /\ work' = [work EXCEPT ![h] = [at |-> "look", request |-> r, approval |-> a, verdict |-> "none"]]
  /\ UNCHANGED <<files, actor, opLock, counts, history>>

(* A LATCH that cannot be read is a latch.                                  *)
LookForLatch(h) ==
  /\ At(h, "look")
  /\ work' = [work EXCEPT ![h].at = "assign",
                          ![h].verdict = IF latch = "absent" THEN "none" ELSE "found"]
  /\ UNCHANGED <<files, actor, opLock, counts, history>>

(* This may put FALSE over what another handler set since.                  *)
AssignLatched(h) ==
  LET found == work[h].verdict = "found" IN
  /\ At(h, "assign")
  /\ actor' = [actor EXCEPT !.latched = found]
  /\ slips' = IF actor.latched /\ ~ found THEN slips \cup {"overwritten"} ELSE slips
  /\ stopped' = (stopped \/ found)
  /\ work' = [work EXCEPT ![h].at = "recheck", ![h].verdict = "none"]
  /\ UNCHANGED <<files, opLock, counts, begun, built>>

Recheck(h) ==
  /\ At(h, "recheck")
  /\ IF actor.latched THEN End(h) ELSE Go(h, "begin")
  /\ UNCHANGED <<files, actor, counts, history>>

(* RequestStore.begin: a request id is claimed once.  A resend is answered  *)
(* from the record, and an id carrying another approval is refused.         *)
Begin(h) ==
  LET r == work[h].request IN
  /\ At(h, "begin")
  /\ \/ /\ request[r].state # "none"
        /\ End(h)
        /\ UNCHANGED <<files, faults>>
     \/ /\ request[r].state = "none"
        /\ \E o \in Outcomes :
             /\ Write("requests", o)
             /\ request' = IF Landed(o)
                  THEN [request EXCEPT ![r] = [state |-> "claimed", approval |-> work[h].approval]]
                  ELSE request
             /\ IF o = "ok" THEN Go(h, "received") ELSE End(h)
        /\ UNCHANGED <<spent, audit, latch>>
  /\ UNCHANGED <<actor, deaths, deletions, history>>

(* The RECEIVED row; without it the request stays claimed.                  *)
Received(h) ==
  /\ At(h, "received")
  /\ \E o \in Outcomes : /\ Write("audit", o)
                         /\ IF o = "ok" THEN Go(h, "verify") ELSE End(h)
  /\ UNCHANGED <<request, spent, audit, latch, actor, deaths, deletions, history>>

Verify(h) ==
  /\ At(h, "verify")
  /\ Go(h, "lock") \/ Go(h, "refuse")
  /\ UNCHANGED <<files, actor, counts, history>>

(* operation.lock, without waiting: the second operation is RUNNER_BUSY.    *)
TakeLock(h) ==
  /\ At(h, "lock")
  /\ IF opLock = Nobody
     THEN opLock' = h /\ work' = [work EXCEPT ![h].at = "measure"]
     ELSE Go(h, "refuse")
  /\ UNCHANGED <<files, actor, counts, history>>

Measure(h) ==
  /\ At(h, "measure")
  /\ Go(h, "consume") \/ Go(h, "refuse")
  /\ UNCHANGED <<files, actor, counts, history>>

ConsumeBlind(h) ==     \* a variant for the mutants: the spent approvals are not looked up
  /\ At(h, "consume")
  /\ \E o \in Outcomes :
       /\ Write("store", o)
       /\ spent' = IF Landed(o) THEN [spent EXCEPT ![work[h].approval] = work[h].request] ELSE spent
       /\ After(h, o, "consumed", "refuse")
  /\ UNCHANGED <<request, audit, latch, actor, deaths, deletions, history>>

ConsumeUnsure(h) ==    \* a variant for the mutants: a failed append is taken for a spend
  LET a == work[h].approval IN
  /\ At(h, "consume")
  /\ \/ spent[a] # Nobody /\ Go(h, "refuse") /\ UNCHANGED <<spent, torn, faults>>
     \/ /\ spent[a] = Nobody
        /\ \E o \in Outcomes :
             /\ Write("store", o)
             /\ spent' = IF Landed(o) THEN [spent EXCEPT ![a] = work[h].request] ELSE spent
             /\ Go(h, "consumed")
  /\ UNCHANGED <<request, audit, latch, actor, deaths, deletions, history>>

(* ConsumptionStore.consume: check and append under one lock.               *)
Consume(h) ==
  LET a == work[h].approval IN
  /\ At(h, "consume")
  /\ \/ /\ spent[a] # Nobody
        /\ Go(h, "refuse")
        /\ UNCHANGED <<spent, torn, faults>>
     \/ /\ spent[a] = Nobody
        /\ \E o \in Outcomes :
             /\ Write("store", o)
             /\ spent' = IF Landed(o) THEN [spent EXCEPT ![a] = work[h].request] ELSE spent
             /\ After(h, o, "consumed", "refuse")
  /\ UNCHANGED <<request, audit, latch, actor, deaths, deletions, history>>

(* The CONSUMED and EXECUTING rows; nothing is started without both.        *)
Consumed(h) ==
  /\ At(h, "consumed")
  /\ \E o \in Outcomes : /\ LogRow("CONSUMED", work[h].request, o)
                         /\ IF o = "ok" THEN Go(h, "executing") ELSE Verdict(h, "absent")
  /\ UNCHANGED <<request, spent, latch, actor, deaths, deletions, history>>

ExecutingAnyway(h) ==  \* a variant for the mutants: a row that failed stops nothing
  /\ At(h, "executing")
  /\ \E o \in Outcomes : LogRow("EXECUTING", work[h].request, o) /\ Go(h, "tag")
  /\ UNCHANGED <<request, spent, latch, actor, deaths, deletions, history>>

Executing(h) ==
  /\ At(h, "executing")
  /\ \E o \in Outcomes : /\ LogRow("EXECUTING", work[h].request, o)
                         /\ IF o = "ok" THEN Go(h, "tag") ELSE Verdict(h, "absent")
  /\ UNCHANGED <<request, spent, latch, actor, deaths, deletions, history>>

(* docker tag of the running image: the first effect, unless the deadline   *)
(* has already passed.                                                      *)
Tag(h) ==
  /\ At(h, "tag")
  /\ \/ Verdict(h, "measured") /\ UNCHANGED begun
     \/ /\ begun' = [begun EXCEPT ![work[h].request] = @ + 1]
        /\ Go(h, "build") \/ Verdict(h, "measured")
  /\ UNCHANGED <<files, actor, counts, built, stopped, slips>>

BuildRefused(h) ==     \* a variant for the mutants: a failed build ends like a refusal
  /\ At(h, "build")
  /\ \/ built' = built \cup {work[h].request} /\ Go(h, "completed")
     \/ Go(h, "refuse") /\ UNCHANGED built
  /\ UNCHANGED <<files, actor, counts, begun, stopped, slips>>

(* docker build and the check of the image it left.                         *)
Build(h) ==
  /\ At(h, "build")
  /\ \/ built' = built \cup {work[h].request} /\ Go(h, "completed")
     \/ Verdict(h, "measured") /\ UNCHANGED built
  /\ UNCHANGED <<files, actor, counts, begun, stopped, slips>>

Completed(h) ==
  /\ At(h, "completed")
  /\ \E o \in Outcomes : /\ LogRow("COMPLETED", work[h].request, o)
                         /\ IF o = "ok" THEN Go(h, "finish") ELSE Verdict(h, "measured")
  /\ UNCHANGED <<request, spent, latch, actor, deaths, deletions, history>>

Finish(h) ==
  /\ At(h, "finish")
  /\ \E o \in Outcomes : SetState(work[h].request, "completed", o)
  /\ End(h)
  /\ UNCHANGED <<spent, audit, latch, actor, deaths, deletions, history>>

(* _refuse_before_consume: the REFUSED row, then the request's end.         *)
Refuse(h) ==
  /\ At(h, "refuse")
  /\ \E o \in Outcomes : /\ Write("audit", o)
                         /\ IF o = "ok" THEN Go(h, "finishRefused") ELSE End(h)
  /\ UNCHANGED <<request, spent, audit, latch, actor, deaths, deletions, history>>

FinishRefused(h) ==
  /\ At(h, "finishRefused")
  /\ \E o \in Outcomes : SetState(work[h].request, "refused", o)
  /\ End(h)
  /\ UNCHANGED <<spent, audit, latch, actor, deaths, deletions, history>>

(* _fail_after_spend.  The images are measured again unless nothing was     *)
(* started, the actor is latched in memory; then the row, the file and the  *)
(* request.                                                                 *)
Remeasure(h) ==
  /\ At(h, "remeasure")
  /\ actor' = [actor EXCEPT !.latched = TRUE]
  /\ stopped' = TRUE
  /\ \E verdict \in IF work[h].verdict = "absent" THEN {"absent"} ELSE {"partial", "unknown"} :
       work' = [work EXCEPT ![h].at = "failed", ![h].verdict = verdict]
  /\ UNCHANGED <<files, opLock, counts, begun, built, slips>>

FailureRow(verdict) == CASE verdict = "absent"  -> "FAILED_NOT_STARTED"
                         [] verdict = "partial" -> "FAILED_EFFECT_PARTIAL"
                         [] OTHER               -> "EFFECT_STATE_UNKNOWN"

Failed(h) ==
  /\ At(h, "failed")
  /\ \E o \in Outcomes :
       /\ LogRow(FailureRow(work[h].verdict), work[h].request, o)
       /\ work' = [work EXCEPT ![h].at = "setLatch",
                               ![h].verdict = IF o = "ok" THEN @ ELSE "unknown"]
  /\ UNCHANGED <<request, spent, latch, actor, opLock, deaths, deletions, history>>

(* The LATCH file, then its LATCH_SET row; a failure of either is ignored.  *)
SetLatch(h) ==
  /\ At(h, "setLatch")
  /\ \/ LatchFails
     \/ latch = "unreadable" /\ UNCHANGED <<latch, torn, faults, slips>>
     \/ /\ latch # "unreadable"
        /\ latch' = "set"
        /\ \E o \in Outcomes : Write("audit", o)
        /\ UNCHANGED slips
  /\ Go(h, "finishFailed")
  /\ UNCHANGED <<request, spent, audit, actor, deaths, deletions, begun, built, stopped>>

FinishVerdict(h) ==    \* a variant for the mutants: the verdict is recorded as the state
  /\ At(h, "finishFailed")
  /\ \E o \in Outcomes : SetState(work[h].request, work[h].verdict, o)
  /\ End(h)
  /\ UNCHANGED <<spent, audit, latch, actor, deaths, deletions, history>>

FinishFailed(h) ==
  /\ At(h, "finishFailed")
  /\ \E o \in Outcomes :
       SetState(work[h].request, IF work[h].verdict = "partial" THEN "partial" ELSE "unknown", o)
  /\ End(h)
  /\ UNCHANGED <<spent, audit, latch, actor, deaths, deletions, history>>
-----------------------------------------------------------------------------
(* The process.                                                             *)

(* The process or its machine dies, perhaps in the middle of an append, or  *)
(* of the creation of the latch, which then stays empty.                    *)
Writers == [requests |-> {"begin", "finish", "finishRefused", "finishFailed"},
            store    |-> {"consume"},
            audit    |-> {"received", "consumed", "executing", "completed", "refuse", "failed",
                          "setLatch"}]
StartWriters == [requests |-> {"mark"}, store |-> {}, audit |-> {"mark", "setLatch", "open"}]
Appending(log) == \/ actor.at \in StartWriters[log]
                  \/ \E h \in Handlers : work[h].at \in Writers[log]
Latching == actor.at = "setLatch" \/ \E h \in Handlers : work[h].at = "setLatch"

Die ==
  /\ actor.at # "down"
  /\ deaths < MaxRestarts
  /\ deaths' = deaths + 1
  /\ actor' = Down
  /\ work' = [h \in Handlers |-> Idle]
  /\ opLock' = Nobody
  /\ \/ UNCHANGED <<latch, torn>>
     \/ \E log \in Logs : Appending(log) /\ torn' = torn \cup {log} /\ UNCHANGED latch
     \/ latch = "absent" /\ Latching /\ latch' = "unreadable" /\ UNCHANGED torn
  /\ UNCHANGED <<request, spent, audit, faults, deletions, history>>

DeleteLatch ==
  /\ latch # "absent"
  /\ deletions < MaxDeletions
  /\ deletions' = deletions + 1
  /\ latch' = "absent"
  /\ slips' = slips \cup {"lost"}
  /\ UNCHANGED <<request, spent, audit, torn, actor, opLock, work, deaths, faults,
                 begun, built, stopped>>

(* What the start reads: every spent approval has its CONSUMED row and no   *)
(* CONSUMED row is without its spend; which requests have no outcome; which *)
(* outcomes nobody resolved.                                                *)
CrossChecked == \A r \in Requests : "CONSUMED" \in audit[r] <=> \E a \in Approvals : spent[a] = r
Unfinished   == {r \in Requests : /\ "CONSUMED" \in audit[r]
                                  /\ \A event \in Terminal : event \notin audit[r]}
UncertainIfUnknown ==  \* a variant for the mutants: a partial effect counts as resolved
  \E r \in Requests : "EFFECT_STATE_UNKNOWN" \in audit[r] \/ "RECONCILED_UNKNOWN" \in audit[r]
Uncertain    == \E r \in Requests, event \in Unresolved : event \in audit[r]
Claimed      == {r \in Requests : request[r].state = "claimed"}

Booting == UNCHANGED <<opLock, work, deaths, deletions>>

(* A torn store, or torn request records beside a sound audit, block the    *)
(* start.  A torn audit is not read, and latches.                           *)
Start ==
  /\ actor.at = "down"
  /\ "store" \notin torn
  /\ IF "audit" \in torn
     THEN actor' = [Down EXCEPT !.at = "judge", !.doubt = TRUE]
     ELSE /\ "requests" \notin torn
          /\ actor' = [Down EXCEPT !.at = "mark", !.doubt = ~ CrossChecked, !.todo = Unfinished]
  /\ slips' = {}
  /\ Booting
  /\ UNCHANGED <<files, faults, begun, built, stopped>>

(* Every leftover claim becomes unknown, one row each.                      *)
MarkUnknown(r) ==
  /\ actor.at = "mark"
  /\ r \in Claimed
  /\ \E o \in Outcomes : /\ SetState(r, "unknown", o)
                         /\ actor' = IF o = "ok" THEN [actor EXCEPT !.todo = @ \cup {r}] ELSE Down
  /\ Booting
  /\ UNCHANGED <<spent, audit, latch, history>>

RecordUnknown(r) ==
  /\ actor.at = "mark"
  /\ Claimed = {}
  /\ r \in actor.todo
  /\ \E o \in Outcomes : /\ LogRow("RECONCILED_UNKNOWN", r, o)
                         /\ actor' = IF o = "ok" THEN [actor EXCEPT !.todo = @ \ {r}] ELSE Down
  /\ Booting
  /\ UNCHANGED <<request, spent, latch, history>>

(* An unreadable latch blocks the start.                                    *)
Judge ==
  LET doubt == actor.doubt \/ ("audit" \notin torn /\ Uncertain) IN
  /\ \/ actor.at = "judge"
     \/ actor.at = "mark" /\ Claimed = {} /\ actor.todo = {}
  /\ actor' = IF latch = "unreadable" THEN Down
              ELSE [actor EXCEPT !.at = IF doubt /\ latch = "absent" THEN "setLatch" ELSE "open",
                                 !.latched = doubt \/ latch = "set"]
  /\ Booting
  /\ UNCHANGED <<files, faults, history>>

StartLatch ==
  /\ actor.at = "setLatch"
  /\ \/ /\ LatchFails
        /\ actor' = Down
     \/ /\ latch' = "set"
        /\ "audit" \in torn
        /\ actor' = [actor EXCEPT !.at = "open"]
        /\ UNCHANGED <<torn, faults, slips>>
     \/ /\ latch' = "set"
        /\ "audit" \notin torn
        /\ \E o \in Outcomes :
             /\ Write("audit", o)
             /\ actor' = IF o = "ok" THEN [actor EXCEPT !.at = "open"] ELSE Down
        /\ UNCHANGED slips
  /\ Booting
  /\ UNCHANGED <<request, spent, audit, begun, built, stopped>>

(* RUNNER_START, and the door opens, latched or not.                        *)
Open ==
  /\ actor.at = "open"
  /\ \E o \in Outcomes :
       /\ Write("audit", o)
       /\ actor' = IF o = "ok" \/ "audit" \in torn THEN [actor EXCEPT !.at = "up"] ELSE Down
  /\ stopped' = (stopped \/ actor.latched)
  /\ Booting
  /\ UNCHANGED <<request, spent, audit, latch, begun, built, slips>>
-----------------------------------------------------------------------------
Handle(h) ==
  \/ \E r \in Requests, a \in Approvals : Arrive(h, r, a)
  \/ LookForLatch(h) \/ AssignLatched(h) \/ Recheck(h)
  \/ Begin(h) \/ Received(h) \/ Verify(h) \/ TakeLock(h) \/ Measure(h) \/ Consume(h)
  \/ Consumed(h) \/ Executing(h) \/ Tag(h) \/ Build(h) \/ Completed(h) \/ Finish(h)
  \/ Refuse(h) \/ FinishRefused(h)
  \/ Remeasure(h) \/ Failed(h) \/ SetLatch(h) \/ FinishFailed(h)

Boot == \/ Start \/ Judge \/ StartLatch \/ Open
        \/ \E r \in Requests : MarkUnknown(r) \/ RecordUnknown(r)

Next == Die \/ DeleteLatch \/ Boot \/ \E h \in Handlers : Handle(h)

Spec == Init /\ [][Next]_vars
-----------------------------------------------------------------------------
(* A signed approval is a grant; its act is the first docker command.       *)
Grant == INSTANCE SingleUseGrant WITH
  Asks  <- Approvals,
  state <- [a \in Approvals |-> IF spent[a] = Nobody THEN "APPROVED" ELSE "CONSUMED"],
  used  <- [a \in Approvals |-> IF spent[a] = Nobody THEN 0 ELSE begun[spent[a]]]

(* The runner keeps the promise of a single-use grant: spent once, acted    *)
(* on once, and only after the spend, through deaths, failed writes and     *)
(* resends (consumption.py: "exactly once, before any effect").             *)
Promise == Grant!GrantSpec

TypeOK ==
  /\ request \in [Requests -> [state : RequestStates, approval : Approvals \cup {Nobody}]]
  /\ spent \in [Approvals -> Requests \cup {Nobody}]
  /\ audit \in [Requests -> SUBSET Events]
  /\ latch \in {"absent", "set", "unreadable"}
  /\ torn \subseteq Logs
  /\ actor \in [at : Phases, latched : BOOLEAN, doubt : BOOLEAN, todo : SUBSET Requests]
  /\ opLock \in Handlers \cup {Nobody}
  /\ work \in [Handlers -> [at : Steps, request : Requests \cup {Nobody},
                            approval : Approvals \cup {Nobody},
                            verdict : {"none", "found", "absent", "measured", "partial", "unknown"}]]
  /\ deaths \in Nat /\ faults \in Nat /\ deletions \in Nat
  /\ begun \in [Requests -> Nat]
  /\ built \subseteq Requests
  /\ stopped \in BOOLEAN
  /\ slips \subseteq {"overwritten", "lost"}

(* The audit knew first: nothing is started before the rows that say the    *)
(* approval was consumed and is being executed are on disk.                 *)
RecordedFirst == \A r \in Requests : begun[r] > 0 =>
                   "CONSUMED" \in audit[r] /\ "EXECUTING" \in audit[r]

(* An actor that serves unlatched has no effect behind it whose outcome is  *)
(* uncertain: it completed, or a handler still has it in hand.  Except that *)
(* an admission which found no LATCH may have put that over the memory of   *)
(* one; then the file latches the next request, unless it could not be      *)
(* created or somebody deleted it.  A restart ends that too: deleting the   *)
(* file changes nothing (startup.py, step 6).                               *)
InHand(r) == \E h \in Handlers : /\ work[h].request = r
                                 /\ work[h].at \in {"build", "completed", "remeasure"}
Ending(r) == \E h \in Handlers : work[h].request = r /\ work[h].at \in {"failed", "setLatch"}
OnFile(r) == latch = "absent" => Ending(r) \/ "lost" \in slips
Overwritten(r) == "overwritten" \in slips /\ OnFile(r)
UncertainMeansLatched ==
  actor.at = "up" /\ ~ actor.latched =>
    \A r \in Requests : begun[r] > 0 => InHand(r) \/ "COMPLETED" \in audit[r] \/ Overwritten(r)

(* "Latched in memory" (_fail_after_spend): an actor that must not act on   *)
(* what it does not know does not serve.                                    *)
MemoryLatches ==
  actor.at = "up" /\ ~ actor.latched =>
    \A r \in Requests : begun[r] > 0 => InHand(r) \/ "COMPLETED" \in audit[r]

(* What a resend is told is true: a request recorded completed was built,   *)
(* once, under its own approval, and one recorded refused started nothing.  *)
RepliesAreTrue == \A r \in Requests :
  /\ request[r].state = "completed" => r \in built /\ begun[r] = 1 /\ "COMPLETED" \in audit[r]
  /\ request[r].state = "refused" => begun[r] = 0

(* The inductive invariant behind these, per handler, per request and for   *)
(* the start.  A handler past its claim owns the request: nobody else works *)
(* on it, it is recorded claimed, and each step has these things behind it. *)
BeforeTag == {"received", "verify", "lock", "measure", "consume", "consumed", "executing", "tag",
              "refuse", "finishRefused"}
Admission == {"look", "assign", "recheck", "begin"}
Owns(h)   == work[h].at \notin {"idle"} \cup Admission

HandlerInv(h) ==
  LET r == work[h].request  step == work[h].at IN
  /\ step # "idle" => actor.at = "up" /\ r \in Requests /\ work[h].approval \in Approvals
  /\ Owns(h) => /\ request[r] = [state |-> "claimed", approval |-> work[h].approval]
                /\ \A g \in Handlers : Owns(g) /\ work[g].request = r => g = h
                /\ work[h].verdict = "absent" => begun[r] = 0
  /\ step \in {"look", "recheck", "begin"} \cup BeforeTag => work[h].verdict = "none"
  /\ step = "assign" => work[h].verdict \in {"none", "found"}
  /\ step \in BeforeTag => begun[r] = 0 /\ \A event \in Terminal : event \notin audit[r]
  /\ step \in {"consumed", "executing", "tag"} => spent[work[h].approval] = r
  /\ step \in {"executing", "tag"} => "CONSUMED" \in audit[r]
  /\ step = "tag" => "EXECUTING" \in audit[r]
  /\ step = "build" => begun[r] > 0
  /\ step \in {"completed", "finish"} => begun[r] > 0 /\ r \in built
  /\ step = "finish" => "COMPLETED" \in audit[r]
  /\ step \in {"failed", "setLatch", "finishFailed"} => actor.latched \/ "overwritten" \in slips
  /\ step = "finishFailed" /\ latch = "absent" => "lost" \in slips

RequestInv(r) ==
  /\ request[r].state = "none" => begun[r] = 0 /\ audit[r] = {}
  /\ begun[r] > 0 => /\ begun[r] = 1
                     /\ request[r].approval \in Approvals
                     /\ spent[request[r].approval] = r
                     /\ "CONSUMED" \in audit[r] /\ "EXECUTING" \in audit[r]
                     /\ "FAILED_NOT_STARTED" \notin audit[r]
                     /\ request[r].state # "refused"
  /\ request[r].state = "completed" => r \in built /\ begun[r] = 1 /\ "COMPLETED" \in audit[r]
  /\ \A a \in Approvals : spent[a] = r => request[r].state # "none" /\ request[r].approval = a
  /\ actor.at \in {"open", "up"} /\ begun[r] > 0 =>
       \/ InHand(r)
       \/ "COMPLETED" \in audit[r]
       \/ OnFile(r) /\ (actor.latched \/ "overwritten" \in slips)

(* What the start still has to do covers every request without an outcome.  *)
StartInv ==
  /\ actor.at = "mark" => /\ Unfinished \subseteq actor.todo
                          /\ \A r \in actor.todo : request[r].state # "none"
                          /\ "audit" \notin torn
  /\ actor.at = "judge" => actor.doubt
  /\ actor.at = "setLatch" => actor.latched

IInv == /\ TypeOK
        /\ StartInv
        /\ \A h \in Handlers : HandlerInv(h)
        /\ \A r \in Requests : RequestInv(r)

(* "A file that says the runner must refuse everything until an operator    *)
(* resolves it" (latch.py): a latched actor starts nothing.                 *)
LatchStops == [][begun' # begun => ~ actor.latched]_vars

(* "Latched in memory; the next startup re-derives the latch from the       *)
(* records" (_fail_after_spend): an actor that was latched stays latched    *)
(* across restarts while nobody deletes the file.                           *)
LatchRederived == stopped /\ actor.at = "up" /\ deletions = 0 => actor.latched
=============================================================================
