------------------------------ MODULE Autoinvest ------------------------------
(* The approved buy scenario of runtime/mvp_runtime/holdings/autoinvest.py:   *)
(* Thomas approves one in a terminal, the scheduler's holdings fires place it *)
(* and book what filled.  Approval and fire hold one file lock, so at most    *)
(* one of them runs, but a fire may die between any two of its steps, and the *)
(* exchange fills and cancels on its own.                                     *)
(*                                                                            *)
(* A KST day has three parts: the end of the US session of the day before,    *)
(* the domestic session, the start of the day's US session.  Orders are sent  *)
(* half an hour and more before a session closes (CLOSE_BEFORE, US_CLOSE_BEFORE): *)
(* no session ends while a fire places.  Midnight falls inside the US session *)
(* and may: a fire counts by the KST day its pass was stamped with.           *)
(*                                                                            *)
(* A US amount order is one unit at its KRW estimate; fees, the rounding and  *)
(* the Telegram notice are left out.  The checks that only hold the day (ETF  *)
(* status aside) are Hold's choice.                                           *)
EXTENDS Integers, FiniteSets, Functions

CONSTANTS
  Domestic, Us,       \* instruments of the candidates, by market
  Quantity,           \* the shares an approval asks of each; one unit of a US amount
  Prices,             \* won a share or a US amount may cost
  DailyCap,           \* DAILY_CAP_KRW
  ValidDays,          \* VALID_DAYS
  Caps,               \* --max-krw of an approval: some of 1 .. DailyCap
  Approvals,          \* scenario ids are 1 .. Approvals: a bound
  MaxDay, MaxUpsets,  \* bounds: days; deaths and lost answers
  None

Items == Domestic \cup Us
Days  == 0 .. MaxDay
Ids   == 1 .. Approvals

\* The client order id: scenario, instrument, and the day of its session.
Cids == Ids \X Items \X Days
CidOf(id, i, d) == <<id, i, d>>

Outcomes == {"accepted", "rejected", "unknown"}
Statuses == {"pending", "executed", "stopped", "unknown", "expired"}

Held  == [cid : Cids, qty : Nat \ {0}, price : Prices]
Order == [qty : Nat \ {0}, price : Prices, day : Days, filled : Nat, live : BOOLEAN]
Row   == [state : {"intent"} \cup Outcomes, cid : Cids, day : Days, est : Nat]
Body  == [id : Ids, items : SUBSET Items, cap : Caps, expires : Nat, status : Statuses,
          filled : [Items -> Nat], spent : [Items -> Nat],
          open : [Items -> Held \cup {None}], tried : [{"kr", "us"} -> Days \cup {None}]]

ASSUME ConstantsAssumption ==
  /\ Domestic \cap Us = {} /\ IsFiniteSet(Items)
  /\ Quantity \in [Items -> Nat \ {0}] /\ \A i \in Us : Quantity[i] = 1
  /\ Prices \subseteq Nat \ {0} /\ DailyCap \in Nat /\ Caps \subseteq 1 .. DailyCap /\ ValidDays \in Nat
  /\ Approvals \in Nat /\ MaxDay \in Nat /\ MaxUpsets \in Nat
  /\ None \notin Items \cup Prices /\ None \notin Outcomes
  /\ None \notin Body /\ None \notin Held /\ None \notin Order

VARIABLES
  day, part,   \* the KST day, and which of its parts
  stamp,       \* `today`: the KST day of the pass whose fire looked last
  upsets,
  latest,      \* scenarios approved so far
  file,        \* the scenario file, None before the first approval
  journal,     \* the rows of the journal
  venue,       \* orders at the exchange, by client order id
  posts,       \* how often each client order id reached the exchange
  pc, mem,     \* the fire that places: where it stands, its copy of the file,
  todo, quote, \* the items left to order, the price of each,
  item, answer,\* the item in hand, the answer to its order
  lost         \* history: scenarios with an order the dead fire never wrote down

vars == <<day, part, stamp, upsets, latest, file, journal, venue, posts,
          pc, mem, todo, quote, item, answer, lost>>
exchange == <<venue, posts>>
fire     == <<pc, mem, todo, quote, item, answer>>

Remaining(body, i) == Quantity[i] - body.filled[i]
Journalled(c)      == \E r \in journal : r.cid = c

\* The market whose session this part of the day is in, and the session's day.  A pass
\* stamped on either side of midnight is in the same US session.
Market  == IF part = "kr" THEN "kr" ELSE "us"
Session == IF part = "night" THEN day - 1 ELSE day

\* The stamps of a fire at work now: until the US session closes, its pass may have
\* begun before midnight.
Stamps == {d \in Days : d = day \/ (part = "night" /\ d = day - 1)}

Init ==
  /\ day = 0 /\ part = "kr" /\ stamp = 0 /\ upsets = 0 /\ latest = 0
  /\ file = None /\ journal = {}
  /\ venue = [c \in Cids |-> None] /\ posts = [c \in Cids |-> 0]
  /\ pc = "idle" /\ mem = None /\ todo = {} /\ quote = [i \in Items |-> None]
  /\ item = None /\ answer = None /\ lost = {}

-----------------------------------------------------------------------------
(* Thomas's terminal.                                                       *)

\* A scenario replaces the last one unless that one has an open order.
ReplaceAny == TRUE

MayReplace == file # None => \A i \in file.items : file.open[i] = None

Approve ==
  /\ pc = "idle" /\ latest < Approvals /\ MayReplace
  /\ \E chosen \in SUBSET Items \ {{}}, cap \in Caps :
       file' = [id |-> latest + 1, items |-> chosen, cap |-> cap, expires |-> day + ValidDays,
                status |-> "pending", filled |-> [i \in Items |-> 0],
                spent |-> [i \in Items |-> 0], open |-> [i \in Items |-> None],
                tried |-> [m \in {"kr", "us"} |-> None]]
  /\ latest' = latest + 1
  /\ UNCHANGED <<day, part, stamp, upsets, journal, exchange, fire, lost>>

-----------------------------------------------------------------------------
(* A fire: read back, then look.                                            *)

\* The open orders among those read that the exchange has closed.
ClosedOrFilling(read) ==
  {i \in read : ~ venue[file.open[i].cid].live \/ venue[file.open[i].cid].filled > 0}

Closed(read) == {i \in read : ~ venue[file.open[i].cid].live}

Open(body) == {i \in body.items : body.open[i] # None}

\* _track: a closed order is booked with what filled of it, any other stays open.
\* A read that failed leaves its order open.
Tracked(read) ==
  LET got(i) == venue[file.open[i].cid].filled
      shut   == Closed(read)
      body   == [file EXCEPT
        !.filled = [i \in Items |-> IF i \in shut THEN @[i] + got(i) ELSE @[i]],
        !.spent  = [i \in Items |-> IF i \in shut THEN @[i] + got(i) * file.open[i].price ELSE @[i]],
        !.open   = [i \in Items |-> IF i \in shut THEN None ELSE @[i]]]
  IN [body EXCEPT !.status =
        IF \A i \in body.items : Remaining(body, i) = 0 THEN "executed" ELSE @]

\* What is left to order in this session, unless it was tried already.
Wanted(body) ==
  IF body.tried[Market] = Session THEN {}
  ELSE {i \in body.items \cap (IF Market = "kr" THEN Domestic ELSE Us) :
          Remaining(body, i) > 0 /\ body.open[i] = None}

Tried(body) == [body EXCEPT !.tried[Market] = Session]

Committed(body) ==
  SumFunctionOnSet(body.spent, body.items)
    + SumFunction([i \in Open(body) |-> body.open[i].qty * body.open[i].price])

Estimate(body, want, price) ==
  SumFunction([i \in want |-> Remaining(body, i) * price[i]])

RowsOf(d, state) == {r \in journal : r.day = d /\ r.state = state}

SpentAccepted(today) == SumFunction([r \in RowsOf(today, "accepted") |-> r.est])

SpentToday(today) == SumFunction([r \in RowsOf(today, "intent") |-> r.est])

\* The scenario's cap and that of the pass's day, over every scenario.
WithinCaps(body, want, price, today) ==
  /\ Committed(body) + Estimate(body, want, price) <= body.cap
  /\ SpentToday(today) + Estimate(body, want, price) <= DailyCap

\* One pass runs at a time: its stamp is no earlier than the last one's.
Fires(read) ==
  /\ pc = "idle" /\ file # None /\ file.status = "pending" /\ read \subseteq Open(file)
  /\ stamp' \in Stamps /\ stamp' >= stamp

\* All filled: the scenario is done.  Past its hour, at some time of its last day: it
\* expires.
Finish(read) ==
  /\ Fires(read)
  /\ LET body == Tracked(read) IN
       \/ body.status = "executed" /\ file' = body
       \/ body.status = "pending" /\ stamp' >= body.expires /\ file' = [body EXCEPT !.status = "expired"]
  /\ UNCHANGED <<day, part, upsets, latest, journal, exchange, fire, lost>>

\* Orders off, nothing wanted, out of session, a hold: only what was read is kept.  A
\* hold of the checks spends the session's try; an instrument no longer traded stops
\* the scenario.
Hold(read) ==
  /\ Fires(read)
  /\ LET body == Tracked(read) IN
       /\ body.status = "pending" /\ stamp' <= body.expires
       /\ \/ file' = body
          \/ Wanted(body) # {} /\ file' = Tried(body)
          \/ Wanted(body) # {} /\ file' = [Tried(body) EXCEPT !.status = "stopped"]
  /\ UNCHANGED <<day, part, upsets, latest, journal, exchange, fire, lost>>

\* Every check passed: the fire places.  Nothing of this is on disk yet.
Begin(read) ==
  /\ Fires(read)
  /\ LET body == Tracked(read)
         want == Wanted(body)
     IN /\ body.status = "pending" /\ stamp' <= body.expires /\ want # {}
        /\ \E price \in [want -> Prices] :
             /\ WithinCaps(body, want, price, stamp')
             /\ quote' = [i \in Items |-> IF i \in want THEN price[i] ELSE None]
        /\ mem' = Tried(body) /\ todo' = want
  /\ pc' = "next"
  /\ UNCHANGED <<day, part, upsets, latest, file, journal, exchange, item, answer, lost>>

-----------------------------------------------------------------------------
(* Placing: _place, _place_us, _send.                                       *)

Cid(i) == CidOf(mem.id, i, Session)

\* An id the journal has is never sent again: the scenario ends as unknown.
Refuse(i) ==
  /\ pc = "next" /\ i \in todo /\ Journalled(Cid(i))
  /\ pc' = "write" /\ mem' = [mem EXCEPT !.status = "unknown"]
  /\ UNCHANGED <<day, part, stamp, upsets, latest, file, journal, exchange, todo, quote, item, answer, lost>>

Log(i, state) ==
  journal' = journal \cup {[state |-> state, cid |-> Cid(i), day |-> stamp,
                            est |-> Remaining(mem, i) * quote[i]]}

Intend(i) ==
  /\ pc = "next" /\ i \in todo /\ ~ Journalled(Cid(i))
  /\ Log(i, "intent")
  /\ pc' = "post" /\ item' = i
  /\ UNCHANGED <<day, part, stamp, upsets, latest, file, exchange, mem, todo, quote, answer, lost>>

\* The exchange takes the order.
Reach(i) ==
  /\ venue' = [venue EXCEPT ![Cid(i)] =
       [qty |-> Remaining(mem, i), price |-> quote[i], day |-> day, filled |-> 0, live |-> TRUE]]
  /\ posts' = [posts EXCEPT ![Cid(i)] = @ + 1]

\* One POST: accepted, rejected, or an answer that says neither.
Post ==
  /\ pc = "post" /\ pc' = "answer"
  /\ \/ Reach(item) /\ answer' = "accepted" /\ upsets' = upsets
     \/ UNCHANGED exchange /\ answer' = "rejected" /\ upsets' = upsets
     \/ /\ upsets < MaxUpsets /\ upsets' = upsets + 1 /\ answer' = "unknown"
        /\ Reach(item) \/ UNCHANGED exchange
  /\ UNCHANGED <<day, part, stamp, latest, file, journal, mem, todo, quote, item, lost>>

\* How an order that was not accepted ends its scenario.
AsAnswered(a) == a

Ended(a) == IF a = "rejected" THEN "stopped" ELSE "unknown"

\* The outcome row.  Anything but an acceptance ends the scenario.
Answered ==
  /\ pc = "answer" /\ Log(item, answer)
  /\ IF answer = "accepted"
     THEN /\ mem' = [mem EXCEPT !.open[item] =
                       [cid |-> Cid(item), qty |-> Remaining(mem, item), price |-> quote[item]]]
          /\ pc' = "next" /\ todo' = todo \ {item}
     ELSE /\ mem' = [mem EXCEPT !.status = Ended(answer)]
          /\ pc' = "write" /\ todo' = todo
  /\ item' = None /\ answer' = None
  /\ UNCHANGED <<day, part, stamp, upsets, latest, file, exchange, quote, lost>>

Forget ==
  /\ pc' = "idle" /\ mem' = None /\ todo' = {} /\ quote' = [i \in Items |-> None]
  /\ item' = None /\ answer' = None

\* _placed: only now does the scenario file learn of the orders.
Write ==
  /\ pc = "write" \/ (pc = "next" /\ todo = {})
  /\ file' = mem /\ Forget
  /\ UNCHANGED <<day, part, stamp, upsets, latest, journal, exchange, lost>>

\* Orders of this fire that the exchange has and the file does not.
Unwritten == {i \in Items : posts[Cid(i)] > 0 /\ (file.open[i] = None \/ file.open[i].cid # Cid(i))}

\* The process dies, or a write to a file fails: the error ends the fire.
Die ==
  /\ pc # "idle" /\ upsets < MaxUpsets /\ upsets' = upsets + 1
  /\ lost' = IF Unwritten = {} THEN lost ELSE lost \cup {mem.id}
  /\ Forget
  /\ UNCHANGED <<day, part, stamp, latest, file, journal, exchange>>

-----------------------------------------------------------------------------
(* The exchange and the clock.                                              *)

Fill(c) ==
  /\ venue[c] # None /\ venue[c].live
  /\ venue' = [venue EXCEPT ![c].filled = @ + 1, ![c].live = venue[c].filled + 1 < venue[c].qty]
  /\ UNCHANGED <<day, part, stamp, upsets, latest, file, journal, posts, fire, lost>>

\* What is unfilled at the close of its session is cancelled.
Close(market) ==
  venue' = [c \in Cids |-> IF venue[c] # None /\ c[2] \in market
                           THEN [venue[c] EXCEPT !.live = FALSE] ELSE venue[c]]

\* Midnight waits for no fire; a session closes when none is placing.
Tick ==
  /\ \/ pc = "idle" /\ part = "night" /\ part' = "kr" /\ day' = day /\ Close(Us)
     \/ pc = "idle" /\ part = "kr" /\ part' = "evening" /\ day' = day /\ Close(Domestic)
     \/ part = "evening" /\ part' = "night" /\ day < MaxDay /\ day' = day + 1 /\ venue' = venue
  /\ UNCHANGED <<stamp, upsets, latest, file, journal, posts, fire, lost>>

Look(read) == Finish(read) \/ Hold(read) \/ Begin(read)
Place      == (\E i \in Items : Refuse(i) \/ Intend(i)) \/ Post \/ Answered \/ Write

Next ==
  \/ Approve \/ Place \/ Die \/ Tick
  \/ \E read \in SUBSET Items : Look(read)
  \/ \E c \in Cids : Fill(c)

Spec == Init /\ [][Next]_vars

\* The holdings fires go on, and not every read of the open orders fails.
FairSpec == Spec /\ WF_vars(Place) /\ WF_vars(file # None /\ Look(Open(file)))

-----------------------------------------------------------------------------
(* Properties.                                                              *)

\* What the scenario file, the journal, the exchange and a fire may hold: no
\* fire runs on a scenario it has not read, or with an answer to no order.
TypeOK ==
  /\ day \in Days /\ part \in {"night", "kr", "evening"} /\ stamp \in Days
  /\ upsets \in 0 .. MaxUpsets /\ latest \in 0 .. Approvals
  /\ file \in Body \cup {None} /\ journal \subseteq Row
  /\ venue \in [Cids -> Order \cup {None}] /\ posts \in [Cids -> Nat]
  /\ pc \in {"idle", "next", "post", "answer", "write"}
  /\ mem \in Body \cup {None} /\ (mem = None) = (pc = "idle")
  /\ todo \subseteq Items /\ quote \in [Items -> Prices \cup {None}]
  /\ item \in Items \cup {None} /\ (item # None) = (pc \in {"post", "answer"})
  /\ answer \in Outcomes \cup {None} /\ (answer # None) = (pc = "answer")
  /\ lost \subseteq Ids

\* The orders that reached the exchange on a KST day, and those the journal counts for it.
PlacedOn(d)     == {c \in Cids : venue[c] # None /\ venue[c].day = d}
CountedFor(d)   == {c \in Cids : venue[c] # None /\ \E r \in RowsOf(d, "intent") : r.cid = c}
Cost(orders)    == SumFunction([c \in orders |-> venue[c].qty * venue[c].price])
OrdersFor(id)   == {c \in Cids : venue[c] # None /\ c[1] = id}
OrdersOf(id, i) == {c \in Cids : c[1] = id /\ c[2] = i /\ venue[c] # None}
Bought(id, i)   == SumFunction([c \in OrdersOf(id, i) |-> venue[c].filled])

\* What an order has cost, or may still cost while it rests.
Exposure(o) == (IF o.live THEN o.qty ELSE o.filled) * o.price

\* The day's limit: whatever dies or goes unanswered, and whichever scenarios
\* and markets share the day, the orders at the exchange that the passes of a KST
\* day sent cost no more than DAILY_CAP_KRW together.  What reaches the exchange on
\* one KST day may be more, for a pass stamped before midnight posts after it, but
\* never more than twice that.
DailyCapHolds ==
  \A d \in Days : Cost(CountedFor(d)) <= DailyCap /\ Cost(PlacedOn(d)) <= 2 * DailyCap

\* The comment at DAILY_CAP_KRW, "a KST day, every scenario together", says it of the
\* orders that reach the exchange on a KST day.
KstDayCapHolds == \A d \in Days : Cost(PlacedOn(d)) <= DailyCap

\* No order is sent twice under one client order id, whatever died in between.
SentOnce == \A c \in Cids : posts[c] <= 1

\* What Thomas approved is the most that is bought, over days of partial fills,
\* cancellations, failed reads and lost answers: of every scenario whose orders
\* were all written down, no more of an item than the approved quantity, and no
\* more won than the approved cap.
WithinApproval ==
  /\ SentOnce
  /\ \A id \in Ids \ lost, i \in Items : Bought(id, i) <= Quantity[i]
  /\ (file # None /\ file.id \notin lost) =>
        SumFunction([c \in OrdersFor(file.id) |-> Exposure(venue[c])]) <= file.cap

\* The order of c was accepted, and the journal says so.
Accepted(c) == \E r \in journal : r.cid = c /\ r.state = "accepted"

\* A live order that was accepted is one the scenario file has open, unless its
\* fire died before it wrote.
LiveIsOpen ==
  pc = "idle" => \A c \in Cids :
    venue[c] # None /\ venue[c].live /\ Accepted(c) /\ c[1] \notin lost =>
      c[1] = file.id /\ file.open[c[2]] # None /\ file.open[c[2]].cid = c

\* The accepted orders of an item that the scenario no longer has open.
Settled(body, i) ==
  {c \in OrdersOf(body.id, i) : Accepted(c) /\ ~ (body.open[i] # None /\ body.open[i].cid = c)}

\* No fill of a written order is booked twice or dropped, nor is such an order's
\* tracking lost while it lives (approve: "a replaced scenario takes its open orders'
\* tracking with it").  Between fires, unless one died before it wrote: an accepted
\* order that is still live is open in the file, and what the file has booked of an
\* item is what its accepted orders no longer open there filled.  An order still open
\* in a stopped or expired scenario stays so: what it filled is not in the books.
EveryFillIsBooked ==
  /\ LiveIsOpen
  /\ (pc = "idle" /\ file # None /\ file.id \notin lost) => \A i \in Items :
       file.filled[i] =
         SumFunction([c \in Settled(file, i) |-> venue[c].filled])

\* G6_BUY_CASH_AUTOINVEST_V0.1.md:35 says an intent row without an outcome row is
\* unknown and its scenario sends no more.  A fire only looks for the id of today: when
\* an order reached the exchange and its fire died, the same scenario sends again.
Answerless(q) == ~ \E o \in journal : o.cid = q.cid /\ o.state # "intent"

UnknownSendsNoMore ==
  [][\A c \in Cids : posts'[c] > posts[c] =>
       ~ \E q \in journal : /\ q.state = "intent" /\ Answerless(q) /\ posts[q.cid] > 0
                            /\ q.cid # c /\ q.cid[1] = c[1]]_vars

\* The module docstring says every fire reads back each open order and books what
\* filled.  A fire returns before it reads when the scenario is no longer pending.
ClosedOrderIsBooked ==
  \A i \in Items :
    (file # None /\ i \in Closed(Open(file))) ~> (file = None \/ file.open[i] = None)

=============================================================================
