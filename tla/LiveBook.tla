------------------------------- MODULE LiveBook -------------------------------
(* Live orders of runtime/mvp_runtime/crypto: who may open a position, how it *)
(* is protected, closed and accounted for.  Processes share the venue and     *)
(* three files: the book (one record per symbol), the in-flight claims of the *)
(* entry marks, and the ledger of realized outcomes.  They are the live leg   *)
(* of the scheduler (live_route, live_leg), the operator's probe              *)
(* (scripts/run_slippage_probe) and the emergency close                       *)
(* (run_emergency_close).  The venue fills, drops and triggers orders on its  *)
(* own, and every process may die between two steps.                          *)
(*                                                                            *)
(* One venue call, or one locked read-modify-write of a file, is one step.    *)
(* An entry orders Full units and all positions are on one side: the venue    *)
(* nets them per symbol.  The guard, the sizing, the bar marks, the day's     *)
(* slot, the cooldowns and the breakers only refuse: Refuse stands for them.  *)
EXTENDS Integers, Sequences, FiniteSets

CONSTANTS
  Leg, Probes, Emers,  \* the processes, by program
  Entries,             \* one id per entry order and its position,
  On, Opener,          \* its symbol and the door that may send it
  MaxPositions,        \* MAX_LIVE_CONCURRENT_POSITIONS
  Ttl,                 \* LIVE_ENTRY_CLAIM_TTL_MINUTES
  FreshFor,            \* MAX_SNAPSHOT_AGE_SECONDS
  None,
  MaxTime, MaxUpsets   \* bounds of the model: the clock; deaths, halts and dropped legs

\* A claim outlives every decision made before it, and the order sent on it.
ASSUME TimingAssumption ==
  /\ MaxPositions \in Nat /\ Ttl \in Nat /\ FreshFor \in Nat /\ MaxTime \in Nat /\ MaxUpsets \in Nat
  /\ 2 * FreshFor < Ttl

ASSUME EntriesAssumption == IsFiniteSet(Entries)

\* The record of no position, the claim of no order.
ASSUME NoneAssumption == None \notin Entries /\ None \notin [order : Entries, since : Nat]

Procs   == {Leg} \cup Probes \cup Emers
Doors   == {Leg} \cup Probes
Symbols == {On[e] : e \in Entries}
Times   == 0 .. MaxTime
Full    == 2

\* The protective legs: the closePosition stop and the reduceOnly target.
Legs == {"SL", "TP"}

\* Why a runtime close is sent: its order id is made of the position and this.
Reasons == {"naked", "time", "unprotected", "emergency"}

\* An order at the venue that can end a position.  A triggered stop fills through
\* a child order, "SLfill", of an id of its own (normalize_algo_order: the algo
\* order's id is its orderId).
Orders == [of : Entries, as : Reasons \cup Legs \cup {"SLfill"}]

VARIABLES
  now, halted, upsets,
  order,      \* entry orders at the venue: none, wire, part, full, short, dead
  units,      \* what is open at the venue of each position
  resting,    \* the legs of each position that rest at the venue
  fired,      \* the legs that filled
  took,       \* the order that flattened each position
  closes,     \* the runtime's close orders that filled whole
  book,       \* live_positions: the position booked on each symbol
  claim,      \* entry marks: the order in flight on each symbol, and since when
  rows,       \* live outcomes: the position and the exit order each row settles
  pc, job, why,   \* per process: where it stands, the position in hand, the flow
  seen, at,       \* per process: the account it read, and when it may enter on it
  todo,           \* per process: booked positions still to look at
  exit,           \* per process: the order its outcome names
  keep            \* per process: the claim or the legs in hand must stay

venueVars == <<order, units, resting, fired, took, closes>>
fileVars  == <<book, claim, rows>>
procVars  == <<pc, job, why, seen, at, todo, exit, keep>>
vars == <<now, halted, upsets, venueVars, fileVars, procVars>>

EntriesOn(s) == {e \in Entries : On[e] = s}
Sym(p)       == On[job[p]]
Booked       == {s \in Symbols : book[s] # None}

\* What the venue shows on a symbol: it nets what is open there, unit by unit.
Held(s) == Cardinality({u \in EntriesOn(s) \X (1 .. Full) : u[2] <= units[u[1]]})

Init ==
  /\ now = 0 /\ halted = FALSE /\ upsets = 0
  /\ order = [e \in Entries |-> "none"] /\ units = [e \in Entries |-> 0]
  /\ resting = [e \in Entries |-> {}] /\ fired = [e \in Entries |-> {}]
  /\ took = [e \in Entries |-> None] /\ closes = {}
  /\ book = [s \in Symbols |-> None] /\ claim = [s \in Symbols |-> None]
  /\ rows = <<>>
  /\ pc = [p \in Procs |-> "idle"] /\ job = [p \in Procs |-> None]
  /\ why = [p \in Procs |-> "none"]
  /\ seen = [p \in Procs |-> [s \in Symbols |-> 0]] /\ at = [p \in Procs |-> None]
  /\ todo = [p \in Procs |-> {}] /\ exit = [p \in Procs |-> None]
  /\ keep = [p \in Procs |-> FALSE]

-----------------------------------------------------------------------------
(* Control flow of a process.                                               *)

Go(p, place) ==
  /\ pc' = [pc EXCEPT ![p] = place]
  /\ UNCHANGED <<job, why, seen, at, todo, exit, keep>>

\* Everything the process held in memory is gone.
Rest(p) ==
  /\ pc' = [pc EXCEPT ![p] = "idle"] /\ job' = [job EXCEPT ![p] = None]
  /\ why' = [why EXCEPT ![p] = "none"]
  /\ seen' = [seen EXCEPT ![p] = [s \in Symbols |-> 0]] /\ at' = [at EXCEPT ![p] = None]
  /\ todo' = [todo EXCEPT ![p] = {}] /\ exit' = [exit EXCEPT ![p] = None]
  /\ keep' = [keep EXCEPT ![p] = FALSE]

\* One position is dealt with.  A probe is over; the leg and the emergency close
\* go on with the next one, and a pass that settled or tried to does not enter.
Done(p) ==
  IF p \in Probes THEN Rest(p)
  ELSE /\ pc' = [pc EXCEPT ![p] = "pass"] /\ job' = [job EXCEPT ![p] = None]
       /\ why' = [why EXCEPT ![p] = "none"] /\ at' = [at EXCEPT ![p] = None]
       /\ exit' = [exit EXCEPT ![p] = None] /\ keep' = [keep EXCEPT ![p] = FALSE]
       /\ UNCHANGED <<seen, todo>>

\* The process takes position e in hand.
Take(p, e, place, reason, kept) ==
  /\ pc' = [pc EXCEPT ![p] = place] /\ job' = [job EXCEPT ![p] = e]
  /\ why' = [why EXCEPT ![p] = reason] /\ keep' = [keep EXCEPT ![p] = kept]

-----------------------------------------------------------------------------
(* A pass of the leg, a fire of a probe: the facts.                         *)

\* read_account, before the book is read.  With an account it could not read the leg
\* still looks after what is booked, as if nothing had drifted, and enters nothing.
ReadVenue(p) ==
  /\ p \in Doors /\ pc[p] = "idle"
  /\ pc' = [pc EXCEPT ![p] = "venue"]
  /\ \/ /\ seen' = [seen EXCEPT ![p] = [s \in Symbols |-> Held(s)]]
        /\ at' = [at EXCEPT ![p] = now]
     \/ /\ p = Leg /\ UNCHANGED at
        /\ seen' = [seen EXCEPT ![p] = [s \in Symbols |-> Full]]
  /\ UNCHANGED <<now, halted, upsets, venueVars, fileVars, job, why, todo, exit, keep>>

\* reconcile_positions, live_capacity: an entry needs a book that agrees with the
\* venue on every symbol, and room.
MayEnter(p) ==
  /\ \A s \in Symbols : seen[p][s] = IF book[s] = None THEN 0 ELSE Full
  /\ Cardinality(Booked) < MaxPositions

ReadBook(p) ==
  /\ pc[p] = "venue"
  /\ pc' = [pc EXCEPT ![p] = "pass"]
  /\ todo' = [todo EXCEPT ![p] = IF p = Leg THEN {book[s] : s \in Booked} ELSE {}]
  /\ at' = [at EXCEPT ![p] = IF MayEnter(p) THEN @ ELSE None]
  /\ UNCHANGED <<now, halted, upsets, venueVars, fileVars, job, why, seen, exit, keep>>

EndPass(p) ==
  /\ pc[p] = "pass" /\ todo[p] = {}
  /\ Rest(p)
  /\ UNCHANGED <<now, halted, upsets, venueVars, fileVars>>

\* _settle_or_protect: a position the account did not show is settled; one with a
\* leg that does not rest is closed, and under drift keeps its legs; any other is timed,
\* if this context is the one that times it.  (A probe has a stop
\* only: the read of its legs is never complete, read_bracket_legs.)
Look(e) ==
  /\ pc[Leg] = "pass" /\ e \in todo[Leg]
  /\ LET quantity == seen[Leg][On[e]] IN
       \/ quantity = 0 /\ Take(Leg, e, "settle", "settle", FALSE)
       \/ /\ quantity # 0 /\ Opener[e] = Leg /\ resting[e] # Legs
          /\ Take(Leg, e, "close", "unprotected", quantity # Full)
       \/ quantity # 0 /\ Take(Leg, e, "time", "time", quantity # Full)
       \/ quantity # 0 /\ UNCHANGED <<pc, job, why, keep>>
  /\ todo' = [todo EXCEPT ![Leg] = @ \ {e}]
  /\ UNCHANGED <<now, halted, upsets, venueVars, fileVars, seen, at, exit>>

\* _time_exit_or_hold saves the holding count before it holds or, when time is up and
\* nothing has drifted, closes: the whole record as the pass read it, refused only if
\* another position has the symbol.
SaveHolding ==
  /\ pc[Leg] = "time"
  /\ IF book[Sym(Leg)] \in {None, job[Leg]}
       THEN /\ book' = [book EXCEPT ![Sym(Leg)] = job[Leg]]
            /\ (~keep[Leg] /\ Go(Leg, "close")) \/ Done(Leg)
       ELSE Rest(Leg) /\ UNCHANGED book
  /\ UNCHANGED <<now, halted, upsets, venueVars, claim, rows>>

-----------------------------------------------------------------------------
(* An entry: execute_live_entry of the leg, --fire of a probe.              *)

Fresh(p) == at[p] # None /\ now - at[p] <= FreshFor

\* symbol_in_flight
InFlight(s) == claim[s] # None /\ now < claim[s].since + Ttl

\* claim_symbol and claim_caps_problem, under the marks lock.
Fits(s) ==
  LET others == {t \in Symbols \ {s} : InFlight(t) /\ book[t] = None} IN
    /\ ~InFlight(s) /\ book[s] = None
    /\ Cardinality(Booked) + Cardinality(others) + 1 <= MaxPositions

\* An entry decided on the facts of the pass takes its symbol.
Claim(p, e) ==
  /\ p \in Doors /\ pc[p] = "pass" /\ todo[p] = {} /\ at[p] # None
  /\ Opener[e] = p /\ order[e] = "none" /\ seen[p][On[e]] = 0
  /\ Fits(On[e])
  /\ claim' = [claim EXCEPT ![On[e]] = [order |-> e, since |-> now]]
  /\ Take(p, e, "claimed", "entry", FALSE)
  /\ UNCHANGED <<now, halted, upsets, venueVars, book, rows, seen, at, todo, exit>>

\* (What rests on the symbol is not asked.)
CheckAge(p) ==
  /\ pc[p] = "claimed" /\ Fresh(p)
  /\ Go(p, "ready")
  /\ UNCHANGED <<now, halted, upsets, venueVars, fileVars>>

\* resting_orders on the symbol just taken, and verify_snapshot again.
CheckResting(p) ==
  /\ pc[p] = "claimed" /\ Fresh(p)
  /\ \A e \in EntriesOn(Sym(p)) : resting[e] = {}
  /\ Go(p, "ready")
  /\ UNCHANGED <<now, halted, upsets, venueVars, fileVars>>

\* Nothing has left: orders rest or could not be listed, the decision is too old,
\* the bar, the slot or the record of the decision is refused, or the runtime is
\* halted.
Refuse(p) ==
  /\ pc[p] \in {"claimed", "ready"}
  /\ Go(p, "giveback")
  /\ UNCHANGED <<now, halted, upsets, venueVars, fileVars>>

\* (The decision's age is not judged again.)
SendAnyway(p) ==
  /\ pc[p] = "ready" /\ ~halted
  /\ order' = [order EXCEPT ![job[p]] = "wire"]
  /\ Go(p, "sent")
  /\ UNCHANGED <<now, halted, upsets, units, resting, fired, took, closes, fileVars>>

\* submit_and_reconcile binds the decision once more, and the adapter refuses an
\* order that opens exposure under a halt.
Send(p) ==
  /\ pc[p] = "ready" /\ Fresh(p) /\ ~halted
  /\ order' = [order EXCEPT ![job[p]] = "wire"]
  /\ Go(p, "sent")
  /\ UNCHANGED <<now, halted, upsets, units, resting, fired, took, closes, fileVars>>

\* What the status query says of the entry: filled; filled in part, and that is closed at
\* once; refused outright by the venue, and the symbol goes back; or no telling,
\* and the claim stays.
Confirm(p) ==
  /\ pc[p] = "sent"
  /\ LET found == order[job[p]] IN
       \/ found = "full" /\ Go(p, "stop")
       \/ /\ found \in {"part", "short"} /\ Take(p, job[p], "close", "naked", TRUE)
          /\ UNCHANGED <<seen, at, todo, exit>>
       \/ found = "dead" /\ Go(p, "giveback")
       \/ Rest(p)
  /\ UNCHANGED <<now, halted, upsets, venueVars, fileVars>>

\* place_bracket_leg: the venue takes a leg only if there is something to close.
\* A leg that could not be confirmed may rest all the same.
Place(p, leg, next) ==
  /\ \E rests, confirmed \in BOOLEAN :
       /\ rests => Held(Sym(p)) > 0
       /\ confirmed => rests
       /\ resting' = [resting EXCEPT ![job[p]] = IF rests THEN @ \cup {leg} ELSE @]
       /\ why' = [why EXCEPT ![p] = IF confirmed THEN @ ELSE "naked"]
  /\ pc' = [pc EXCEPT ![p] = IF why'[p] = "naked" /\ next = "book" THEN "close" ELSE next]
  /\ UNCHANGED <<now, halted, upsets, order, units, fired, took, closes, fileVars,
                 job, seen, at, todo, exit, keep>>

PlaceStop(p)   == pc[p] = "stop" /\ Place(p, "SL", IF p = Leg THEN "target" ELSE "book")
PlaceTarget(p) == pc[p] = "target" /\ Place(p, "TP", "book")

\* save_position: never over another position's record.
Save(p) ==
  /\ pc[p] = "book" /\ book[Sym(p)] \in {None, job[p]}
  /\ book' = [book EXCEPT ![Sym(p)] = job[p]]
  /\ Take(p, job[p], "giveback", "open", FALSE)
  /\ UNCHANGED <<now, halted, upsets, venueVars, claim, rows, seen, at, todo, exit>>

\* The write is refused or fails: the claim stays.
SaveFails(p) ==
  /\ pc[p] = "book"
  /\ Rest(p)
  /\ UNCHANGED <<now, halted, upsets, venueVars, fileVars>>

\* (Whoever holds the symbol.)
ReleaseAny(s, e) == claim' = [claim EXCEPT ![s] = None]

\* release_symbol: only the claim this order took.
ReleaseOwn(s, e) ==
  claim' = IF claim[s] # None /\ claim[s].order = e THEN [claim EXCEPT ![s] = None] ELSE claim

\* _give_back_symbol, which may fail; a probe then watches what it booked, and the
\* leg's naked close goes to the ledger (_record_entry_outcome).
Release(p) ==
  /\ pc[p] = "giveback"
  /\ ReleaseOwn(Sym(p), job[p]) \/ UNCHANGED claim
  /\ IF p \in Probes /\ why[p] = "open" THEN Go(p, "watch")
     ELSE IF p = Leg /\ why[p] = "naked" THEN Go(p, "append")
     ELSE Rest(p)
  /\ UNCHANGED <<now, halted, upsets, venueVars, book, rows>>

-----------------------------------------------------------------------------
(* The end of a position.                                                   *)

\* A probe watches its own record: gone, its stop filled, or its time is up.
Watch(p) ==
  /\ pc[p] = "watch"
  /\ \/ book[Sym(p)] # job[p] /\ Rest(p)
     \/ /\ book[Sym(p)] = job[p] /\ "SL" \in fired[job[p]]
        /\ Take(p, job[p], "settle", "settle", FALSE) /\ UNCHANGED <<seen, at, todo, exit>>
     \/ /\ book[Sym(p)] = job[p]
        /\ Take(p, job[p], "close", "time", FALSE) /\ UNCHANGED <<seen, at, todo, exit>>
  /\ UNCHANGED <<now, halted, upsets, venueVars, fileVars>>

\* run_emergency_close: under a halt, the account is read once and the grant is
\* spent.  The grant names booked positions.
EmerRead(p) ==
  /\ p \in Emers /\ pc[p] = "idle" /\ halted
  /\ \E named \in SUBSET {book[s] : s \in Booked} :
       named # {} /\ todo' = [todo EXCEPT ![p] = named]
  /\ pc' = [pc EXCEPT ![p] = "pass"]
  /\ seen' = [seen EXCEPT ![p] = [s \in Symbols |-> Held(s)]]
  /\ UNCHANGED <<now, halted, upsets, venueVars, fileVars, job, why, at, exit, keep>>

\* _close_emergency_positions: the halt and the book are read again for each; it
\* is closed only if the account, as read, agrees with the book.
EmerLook(p, e) ==
  /\ p \in Emers /\ pc[p] = "pass" /\ e \in todo[p]
  /\ IF halted /\ book[On[e]] = e /\ seen[p][On[e]] = Full
       THEN Take(p, e, "close", "emergency", FALSE)
       ELSE UNCHANGED <<pc, job, why, keep>>
  /\ todo' = [todo EXCEPT ![p] = @ \ {e}]
  /\ UNCHANGED <<now, halted, upsets, venueVars, fileVars, seen, at, exit>>

\* What fills at the venue takes up to n of what is open on the symbol.
Fill(s, n, by) ==
  \E h \in EntriesOn(s) :
    /\ units[h] > 0
    /\ units' = [units EXCEPT ![h] = IF @ > n THEN @ - n ELSE 0]
    /\ took' = [took EXCEPT ![h] = IF units[h] > n THEN @ ELSE by]

\* execute_live_exit, _close_naked_position: a reduceOnly market order, sent once
\* per position and reason (the venue knows its id again).  It is confirmed when
\* it filled whole and the query says so; then the legs come off, unless drift
\* keeps them.
Close(p) ==
  /\ pc[p] = "close"
  /\ LET id       == [of |-> job[p], as |-> why[p]]
         quantity == IF why[p] = "naked" /\ keep[p] THEN 1 ELSE Full
         whole    == Held(Sym(p)) >= quantity
         then     == IF keep[p] /\ why[p] = "unprotected" THEN "append" ELSE "cancel"
         confirmed == /\ pc' = [pc EXCEPT ![p] = then]
                      /\ exit' = [exit EXCEPT ![p] = id]
                      /\ UNCHANGED <<job, why, seen, at, todo, keep>>
         unknown   == IF why[p] = "naked" THEN Rest(p) ELSE Done(p)
     IN \/ /\ id \notin closes /\ Held(Sym(p)) > 0
           /\ Fill(Sym(p), quantity, id)
           /\ closes' = IF whole THEN closes \cup {id} ELSE closes
           /\ (whole /\ confirmed) \/ unknown
        \/ id \in closes /\ confirmed /\ UNCHANGED <<units, took, closes>>
        \/ unknown /\ UNCHANGED <<units, took, closes>>
  /\ UNCHANGED <<now, halted, upsets, order, resting, fired, fileVars>>

\* The exit order as the fill history names it.
ChildOf(o) == IF o.as = "SL" THEN [o EXCEPT !.as = "SLfill"] ELSE o

\* (Settled by what the venue shows, with or without evidence of the exit.)
SettleBlind(p) ==
  /\ pc[p] = "settle"
  /\ exit' = [exit EXCEPT ![p] = took[job[p]]]
  /\ pc' = [pc EXCEPT ![p] = "cancel"]
  /\ UNCHANGED <<now, halted, upsets, venueVars, fileVars, job, why, seen, at, todo, keep>>

\* settle_venue_closed_position: the leg that filled, or the fill history if the
\* legs do not say and it covers the whole position; if neither can, the book stays open.
Settle(p) ==
  /\ pc[p] = "settle"
  /\ LET e == job[p]
         exits == {[of |-> e, as |-> l] : l \in fired[e]}
                    \cup (IF took[e] # None /\ units[e] = 0 THEN {ChildOf(took[e])} ELSE {})
     IN \/ /\ \E o \in exits : exit' = [exit EXCEPT ![p] = o]
           /\ pc' = [pc EXCEPT ![p] = "cancel"]
           /\ UNCHANGED <<job, why, seen, at, todo, keep>>
        \/ Done(p)
  /\ UNCHANGED <<now, halted, upsets, venueVars, fileVars>>

\* cancel_bracket_legs: each leg that still rests, and a failure is only reported.
\* After a naked close it also keeps the symbol claimed.
Cancel(p) ==
  /\ pc[p] = "cancel"
  /\ \E left \in SUBSET resting[job[p]] :
       /\ resting' = [resting EXCEPT ![job[p]] = left]
       /\ keep' = [keep EXCEPT ![p] = @ \/ left # {}]
  /\ pc' = [pc EXCEPT ![p] = IF p = Leg /\ why[p] = "naked" /\ ~keep'[p]
                               THEN "giveback" ELSE "append"]
  /\ UNCHANGED <<now, halted, upsets, order, units, fired, took, closes, fileVars,
                 job, why, seen, at, todo, exit>>

\* (Whether or not the settlement is there.)
WriteRow(row) == rows' = Append(rows, row)

\* append_outcome: nothing if its settlement id, the position and the exit order,
\* is already recorded.
AppendOutcome(row) ==
  rows' = IF \E i \in 1 .. Len(rows) : rows[i] = row THEN rows ELSE Append(rows, row)

\* The money first; the book is cleared only after it is recorded.  (A naked close
\* of the leg has no record to clear.)
Record(p) ==
  /\ pc[p] = "append"
  /\ AppendOutcome([pos |-> job[p], exit |-> exit[p]])
  /\ IF p = Leg /\ why[p] = "naked" THEN Rest(p) ELSE Go(p, "clear")
  /\ UNCHANGED <<now, halted, upsets, venueVars, book, claim>>

\* (The book is cleared all the same.)
RecordSkipped(p) ==
  /\ pc[p] = "append"
  /\ Go(p, "clear")
  /\ UNCHANGED <<now, halted, upsets, venueVars, fileVars>>

RecordFails(p) ==
  /\ pc[p] = "append"
  /\ IF why[p] = "naked" THEN Rest(p) ELSE Done(p)
  /\ UNCHANGED <<now, halted, upsets, venueVars, fileVars>>

\* (Whatever record the symbol has.)
ClearAny(s, e) == book' = [book EXCEPT ![s] = None]

\* clear_position: only this position's record.
ClearOwn(s, e) == book' = IF book[s] = e THEN [book EXCEPT ![s] = None] ELSE book

\* The write may fail, which is only reported.  A probe's naked close that left
\* nothing resting gives the symbol back.
Clear(p) ==
  /\ pc[p] = "clear"
  /\ ClearOwn(Sym(p), job[p]) \/ UNCHANGED book
  /\ IF why[p] = "naked" /\ ~keep[p] THEN Go(p, "giveback") ELSE Done(p)
  /\ UNCHANGED <<now, halted, upsets, venueVars, claim, rows>>

-----------------------------------------------------------------------------
(* The venue, the clock and faults.                                         *)

\* An entry order on the wire fills, whole or in part, or dies; the rest of a part
\* fills, or the order ends short of it.
Land(e) ==
  /\ \/ /\ order[e] = "wire"
        /\ \/ order' = [order EXCEPT ![e] = "full"] /\ units' = [units EXCEPT ![e] = Full]
           \/ order' = [order EXCEPT ![e] = "part"] /\ units' = [units EXCEPT ![e] = 1]
           \/ order' = [order EXCEPT ![e] = "dead"] /\ UNCHANGED units
     \/ /\ order[e] = "part"
        /\ \/ order' = [order EXCEPT ![e] = "full"] /\ units' = [units EXCEPT ![e] = @ + 1]
           \/ order' = [order EXCEPT ![e] = "short"] /\ UNCHANGED units
  /\ UNCHANGED <<now, halted, upsets, resting, fired, took, closes, fileVars, procVars>>

\* A leg triggers and closes what its symbol holds.
Trigger(e, leg) ==
  /\ leg \in resting[e] /\ Held(On[e]) > 0
  /\ Fill(On[e], Full, [of |-> e, as |-> leg])
  /\ fired' = [fired EXCEPT ![e] = @ \cup {leg}]
  /\ resting' = [resting EXCEPT ![e] = @ \ {leg}]
  /\ UNCHANGED <<now, halted, upsets, order, closes, fileVars, procVars>>

\* The venue drops a leg (expired, rejected, withdrawn by hand).
Drop(e, leg) ==
  /\ leg \in resting[e] /\ upsets < MaxUpsets
  /\ resting' = [resting EXCEPT ![e] = @ \ {leg}]
  /\ upsets' = upsets + 1
  /\ UNCHANGED <<now, halted, order, units, fired, took, closes, fileVars, procVars>>

\* The operator's HARD halt, and its end.
Halt ==
  /\ Emers # {} /\ upsets < MaxUpsets
  /\ halted' = ~halted /\ upsets' = upsets + 1
  /\ UNCHANGED <<now, venueVars, fileVars, procVars>>

Crash(p) ==
  /\ pc[p] # "idle" /\ upsets < MaxUpsets
  /\ Rest(p)
  /\ upsets' = upsets + 1
  /\ UNCHANGED <<now, halted, venueVars, fileVars>>

\* An entry that was sent and is not over.
Entering(p) ==
  why[p] \in {"entry", "naked", "open"} /\ order[job[p]] # "none" /\ pc[p] # "watch"

\* A minute.  An order does not stay on the wire past its window, and an entry is
\* over before its claim could expire ("2-3 minutes" of 30).
Tick ==
  /\ now < MaxTime /\ now' = now + 1
  /\ \A e \in Entries : order[e] \notin {"wire", "part"}
  /\ \A p \in Doors : Entering(p) => now' < at[p] + Ttl
  /\ UNCHANGED <<halted, upsets, venueVars, fileVars, procVars>>

DoorStep(p) ==
  \/ ReadVenue(p) \/ ReadBook(p) \/ EndPass(p)
  \/ (\E e \in Entries : Claim(p, e)) \/ CheckResting(p) \/ Refuse(p) \/ Send(p) \/ Confirm(p)
  \/ PlaceStop(p) \/ PlaceTarget(p) \/ Save(p) \/ SaveFails(p) \/ Release(p)

ExitStep(p) ==
  \/ Watch(p) \/ EmerRead(p) \/ (\E e \in Entries : EmerLook(p, e))
  \/ Close(p) \/ Settle(p) \/ Cancel(p) \/ Record(p) \/ RecordFails(p) \/ Clear(p)

Venue == \E e \in Entries : Land(e) \/ (\E leg \in Legs : Trigger(e, leg) \/ Drop(e, leg))

Next ==
  \/ \E p \in Procs : DoorStep(p) \/ ExitStep(p) \/ Crash(p)
  \/ (\E e \in Entries : Look(e)) \/ SaveHolding
  \/ Venue \/ Halt \/ Tick

Spec == Init /\ [][Next]_vars

-----------------------------------------------------------------------------
(* Properties.                                                              *)

Places == {"idle", "venue", "pass", "time", "claimed", "ready", "sent", "stop", "target", "book",
           "giveback", "watch", "close", "settle", "cancel", "append", "clear"}
Flows  == {"none", "entry", "open", "settle"} \cup Reasons
Claims == [order : Entries, since : Times]

TypeOK ==
  /\ now \in Times /\ halted \in BOOLEAN /\ upsets \in 0 .. MaxUpsets
  /\ order \in [Entries -> {"none", "wire", "part", "full", "short", "dead"}]
  /\ units \in [Entries -> 0 .. Full]
  /\ resting \in [Entries -> SUBSET Legs] /\ fired \in [Entries -> SUBSET Legs]
  /\ took \in [Entries -> Orders \cup {None}] /\ closes \subseteq Orders
  /\ book \in [Symbols -> Entries \cup {None}] /\ claim \in [Symbols -> Claims \cup {None}]
  /\ rows \in Seq([pos : Entries, exit : Orders])
  /\ pc \in [Procs -> Places] /\ job \in [Procs -> Entries \cup {None}]
  /\ why \in [Procs -> Flows]
  /\ seen \in [Procs -> [Symbols -> Nat]] /\ at \in [Procs -> Times \cup {None}]
  /\ todo \in [Procs -> SUBSET Entries] /\ exit \in [Procs -> Orders \cup {None}]
  /\ keep \in [Procs -> BOOLEAN]

\* An entry that is open at the venue or may still be.
Live(e) == units[e] > 0 \/ order[e] \in {"wire", "part"}

\* One position per symbol: the venue nets what two doors open on one symbol, and
\* the book has one record for it.
OnePerSymbol == \A e, f \in Entries : e # f /\ On[e] = On[f] => ~(Live(e) /\ Live(f))

\* claim_caps_problem: no more symbols have an entry live at the venue than there may be
\* positions, over two doors.  It does not hold: a record that SaveHolding brings back
\* can keep a live entry out of the book until its claim expires, and nothing counts it
\* then.  Without that it does (CapUnlessRevived of LiveBookProofs).
CapsHold == Cardinality({On[e] : e \in {f \in Entries : Live(f)}}) <= MaxPositions

\* No settlement is recorded twice, over retries and two settling processes: one
\* duplicate makes the whole history unreadable (read_live_outcomes).
RowsUnique == \A i, j \in 1 .. Len(rows) : rows[i] = rows[j] => i = j

\* No position is opened or held while a leg of another one rests on its symbol: it
\* would be closed by it.
NoForeignLeg ==
  \A e, f \in Entries : e # f /\ On[e] = On[f] /\ units[e] > 0 => resting[f] = {}

\* A record leaves the book only for nothing, and only after the money of its
\* position is in the ledger.
RecordedFirst ==
  [][\A s \in Symbols : book[s] # None /\ book'[s] # book[s] =>
        book'[s] = None /\ \E i \in 1 .. Len(rows) : rows[i].pos = book[s]]_vars

Covered(e) == book[On[e]] = e \/ (claim[On[e]] # None /\ claim[On[e]].order = e)

\* claim_caps_problem relies on it: every entry that reached the venue is in the
\* book, in flight, or both.  Only the claim of an entry nobody booked can end
\* that, by expiring.
StaysCovered ==
  [][\A e \in Entries :
       /\ Live(e)' /\ ~Live(e) => Covered(e)'
       /\ Live(e)' /\ Covered(e) /\ ~Covered(e)' => book[On[e]] # e /\ ~InFlight(On[e])]_vars

\* settle_venue_closed_position says that a retry rebuilds the same settlement id,
\* so that one position has one row.  The stop's own id and the id its fill has in
\* the history are not the same.
OneRowEach == \A i, j \in 1 .. Len(rows) : rows[i].pos = rows[j].pos => i = j

\* The probe says that its close never shrinks what the symbol holds of another
\* entry; the book is read before the order is sent, and not at the same time.
ClosesItsOwn ==
  [][\A p \in Procs : pc[p] = "close" /\ pc'[p] # "close" =>
       \A e \in Entries : e # job[p] => units'[e] = units[e]]_vars
=============================================================================
