--------------------------- MODULE AutoinvestBooks ---------------------------
(***************************************************************************)
(* Proofs about Autoinvest's totals, for any instruments, prices, caps,    *)
(* days and numbers of approvals: the day's limit, the approved quantity   *)
(* and cap of a scenario, and that the scenario file has booked what its   *)
(* accepted orders filled.                                                 *)
(***************************************************************************)
EXTENDS AutoinvestProofs, SumFacts

-----------------------------------------------------------------------------
(* What the exchange does to the orders it has.                            *)

\* An order the exchange has keeps its terms: it fills by one, or stands, or is closed.
Onward(c) ==
  /\ venue'[c] = None <=> venue[c] = None
  /\ venue[c] # None =>
       /\ venue'[c].qty = venue[c].qty /\ venue'[c].price = venue[c].price
       /\ venue'[c].day = venue[c].day
       /\ \/ venue'[c].filled = venue[c].filled /\ (venue'[c].live => venue[c].live)
          \/ /\ venue[c].live /\ venue'[c].filled = venue[c].filled + 1
             /\ venue'[c].live <=> venue[c].filled + 1 < venue[c].qty

LEMMA FillOnward == ASSUME Typed, NEW d \in Cids, Fill(d), NEW c \in Cids PROVE Onward(c)
<1>1. venue[d] \in Order /\ venue[d].live /\ venue[d] # None
  BY DEF Fill, Typed, TypeOK
<1> DEFINE o == [venue[d] EXCEPT !.filled = venue[d].filled + 1, !.live = venue[d].filled + 1 < venue[d].qty]
<1>2. venue'[c] = IF c = d THEN o ELSE venue[c]
  BY <1>1 DEF Fill, Typed, TypeOK, Order
<1>3. /\ o.qty = venue[d].qty /\ o.price = venue[d].price /\ o.day = venue[d].day
      /\ o.filled = venue[d].filled + 1 /\ (o.live <=> venue[d].filled + 1 < venue[d].qty)
  BY <1>1 DEF Order
<1>4. venue'[d] # None
  BY <1>1, FillTypes DEF Typed
<1> HIDE DEF o
<1> QED
  BY <1>1, <1>2, <1>3, <1>4 DEF Onward

LEMMA CloseOnward == ASSUME Typed, NEW market, Close(market), NEW c \in Cids PROVE Onward(c)
<1>1. venue'[c] = IF venue[c] # None /\ c[2] \in market THEN [venue[c] EXCEPT !.live = FALSE] ELSE venue[c]
  BY DEF Close
<1>2. venue'[c] = None <=> venue[c] = None
  BY CloseTypes DEF Typed
<1>3. CASE venue[c] # None /\ c[2] \in market
  <2>1. venue[c] \in Order
    BY <1>3 DEF Typed, TypeOK
  <2>2. /\ venue'[c].qty = venue[c].qty /\ venue'[c].price = venue[c].price /\ venue'[c].day = venue[c].day
        /\ venue'[c].filled = venue[c].filled /\ ~ venue'[c].live
    BY <1>1, <1>3, <2>1 DEF Order
  <2> QED
    BY <1>2, <2>2 DEF Onward
<1>4. CASE ~ (venue[c] # None /\ c[2] \in market)
  BY <1>1, <1>4 DEF Onward
<1> QED
  BY <1>3, <1>4

LEMMA VenueOnward == ASSUME Typed, [Next]_vars, ~ Post, NEW c \in Cids PROVE Onward(c)
<1>1. CASE UNCHANGED venue
  BY <1>1 DEF Onward
<1>2. ASSUME NEW d \in Cids, Fill(d) PROVE Onward(c)
  BY <1>2, FillOnward
<1>3. CASE Tick
  BY <1>1, <1>3, CloseOnward DEF Tick
<1>4. CASE Place
  BY <1>1, <1>4 DEF Place, Refuse, Intend, Answered, Write, exchange
<1>5. CASE Approve \/ Die
  BY <1>1, <1>5 DEF Approve, Die, exchange
<1>6. ASSUME NEW read, Look(read) PROVE Onward(c)
  BY <1>1, <1>6 DEF Look, Finish, Hold, Begin, exchange
<1>7. CASE UNCHANGED vars
  BY <1>1, <1>7 DEF vars
<1> QED
  BY <1>2, <1>3, <1>4, <1>5, <1>6, <1>7 DEF Next

\* What sending the order of an item adds to the exchange.
Sending(i) ==
  [qty |-> Remaining(mem, i), price |-> quote[i], day |-> day, filled |-> 0, live |-> TRUE]

LEMMA PostSends ==
  ASSUME Typed, Post
  PROVE  /\ mem # None /\ mem \in Body /\ item \in todo /\ item \in Items /\ Cid(item) \in Cids
         /\ \/ UNCHANGED exchange
            \/ /\ venue' = [venue EXCEPT ![Cid(item)] = Sending(item)]
               /\ posts' = [posts EXCEPT ![Cid(item)] = posts[Cid(item)] + 1]
         /\ Sending(item) \in Order /\ Sending(item) # None
         /\ UNCHANGED <<day, part, stamp, latest, file, journal, mem, todo, quote, item, lost>>
         /\ pc = "post" /\ pc' = "answer"
<1>1. /\ mem # None /\ mem \in Body /\ item \in todo /\ item \in Items
      /\ pc = "post" /\ pc' = "answer"
      /\ UNCHANGED <<day, part, stamp, latest, file, journal, mem, todo, quote, item, lost>>
  BY DEF Post, Typed, TypeOK, Hand
<1>2. Cid(item) \in Cids
  BY <1>1, CidType DEF Typed
<1>3. Sending(item) \in Order
  BY <1>1, Estimated DEF Typed, TypeOK, Hand, Order, Sending
<1>4. Sending(item) # None
  BY <1>3, ConstantsAssumption
<1>5. UNCHANGED exchange \/ Reach(item)
  BY DEF Post
<1> QED
  BY <1>1, <1>2, <1>3, <1>4, <1>5 DEF Reach, Sending

-----------------------------------------------------------------------------
(* The day's limit.                                                         *)

\* The journal has an intent row of the order c for so much, on day d.
Intended(c, d, won) == \E r \in RowsOf(d, "intent") : r.cid = c /\ r.est = won

\* A fire that may still send orders.
Placing == pc \in {"next", "post", "answer"}

\* No order is intended twice.
OneIntent ==
  \A d \in Days, e \in Days : \A r \in RowsOf(d, "intent"), q \in RowsOf(e, "intent") :
    r.cid = q.cid => r = q

\* The order o of c was intended for its value, on the KST day it reached the exchange or
\* on the one before.
CountedOnce(c, o) ==
  \E d \in Days : Intended(c, d, o.qty * o.price) /\ (o.day = d \/ o.day = d + 1)

\* Every order the exchange has was intended once, for its value; and the intents of a
\* day, with those the fire has still to write, are within the limit.
Budget ==
  /\ IsFiniteSet(journal) /\ OneIntent
  /\ \A c \in Cids : venue[c] # None => CountedOnce(c, venue[c])
  /\ pc = "post" => Intended(Cid(item), stamp, Remaining(mem, item) * quote[item])
  /\ \A d \in Days : SpentToday(d) <= DailyCap
  /\ Placing => SpentToday(stamp) + Estimate(mem, todo \ {item}, quote) <= DailyCap

\* A sum as the model writes it is the library's sum of any function of the same values.
LEMMA SumOf ==
  ASSUME NEW f, NEW S, Summable(f, S), NEW g, DOMAIN g = S, \A x \in S : g[x] = f[x]
  PROVE  SumFunction(g) = SumFunctionOnSet(f, S) /\ SumFunction(g) \in Nat
<1>1. SumFunction(g) = SumFunctionOnSet(g, S)
  BY SumAll
<1>2. SumFunctionOnSet(g, S) = SumFunctionOnSet(f, S)
  BY SumSame
<1> QED
  BY <1>1, <1>2, SumType

\* The estimates of the items still to order.
Estimates == [i \in todo |-> Remaining(mem, i) * quote[i]]

LEMMA EstimateOf ==
  ASSUME Typed, mem # None, NEW T, T \subseteq todo
  PROVE  /\ Summable(Estimates, T)
         /\ Estimate(mem, T, quote) = SumFunctionOnSet(Estimates, T)
         /\ Estimate(mem, T, quote) \in Nat
<1>1. \A i \in todo : Estimates[i] \in Nat
  BY Estimated DEF Estimates, Typed
<1>2. IsFiniteSet(todo)
  BY ConstantsAssumption, FS_Subset DEF Typed, TypeOK
<1>3. Summable(Estimates, T)
  BY <1>1, <1>2, FS_Subset DEF Summable
<1> DEFINE g == [i \in T |-> Remaining(mem, i) * quote[i]]
<1>4. DOMAIN g = T /\ \A i \in T : g[i] = Estimates[i]
  BY DEF Estimates
<1>5. Estimate(mem, T, quote) = SumFunction(g)
  BY DEF Estimate
<1> HIDE DEF g
<1> QED
  BY <1>3, <1>4, <1>5, SumOf

\* One item set aside.
LEMMA EstimateSplit ==
  ASSUME Typed, mem # None, NEW T, T \subseteq todo, NEW i \in T
  PROVE  /\ Estimate(mem, T, quote) = Remaining(mem, i) * quote[i] + Estimate(mem, T \ {i}, quote)
         /\ Remaining(mem, i) * quote[i] \in Nat /\ Estimate(mem, T \ {i}, quote) \in Nat
<1>1. /\ Summable(Estimates, T) /\ Estimate(mem, T, quote) = SumFunctionOnSet(Estimates, T)
      /\ Estimate(mem, T \ {i}, quote) = SumFunctionOnSet(Estimates, T \ {i})
      /\ Estimate(mem, T \ {i}, quote) \in Nat
  BY EstimateOf
<1>2. Estimates[i] = Remaining(mem, i) * quote[i] /\ Remaining(mem, i) * quote[i] \in Nat
  BY Estimated DEF Estimates, Typed
<1> QED
  BY <1>1, <1>2, SumSplit

\* The estimate depends on what is left of the items and on their prices alone.
LEMMA EstimateSame ==
  ASSUME NEW body, NEW new, NEW want, NEW price, NEW newPrice,
         \A i \in want : Remaining(new, i) = Remaining(body, i) /\ newPrice[i] = price[i]
  PROVE  Estimate(new, want, newPrice) = Estimate(body, want, price)
<1>1. [i \in want |-> Remaining(new, i) * newPrice[i]] = [i \in want |-> Remaining(body, i) * price[i]]
  OBVIOUS
<1> QED
  BY <1>1 DEF Estimate

\* The rows of a finite journal have a sum.
Ests == [r \in Row |-> r.est]

LEMMA SpentOf ==
  ASSUME Typed, IsFiniteSet(journal), NEW d
  PROVE  /\ Summable(Ests, RowsOf(d, "intent"))
         /\ SpentToday(d) = SumFunctionOnSet(Ests, RowsOf(d, "intent")) /\ SpentToday(d) \in Nat
<1>1. RowsOf(d, "intent") \subseteq journal /\ journal \subseteq Row
  BY DEF RowsOf, Typed, TypeOK
<1>2. \A r \in RowsOf(d, "intent") : Ests[r] = r.est /\ Ests[r] \in Nat
  BY <1>1 DEF Ests, Row
<1>3. Summable(Ests, RowsOf(d, "intent"))
  BY <1>1, <1>2, FS_Subset DEF Summable
<1> DEFINE g == [r \in RowsOf(d, "intent") |-> r.est]
<1>4. DOMAIN g = RowsOf(d, "intent") /\ \A r \in RowsOf(d, "intent") : g[r] = Ests[r]
  BY <1>2
<1>5. SpentToday(d) = SumFunction(g)
  BY DEF SpentToday
<1> HIDE DEF g
<1> QED
  BY <1>3, <1>4, <1>5, SumOf

\* Rows that are no intents leave the intents of a day alone.
LEMMA SpentKept ==
  ASSUME \A d \in Days : RowsOf(d, "intent")' = RowsOf(d, "intent")
  PROVE  \A d \in Days : /\ SpentToday(d)' = SpentToday(d)
                         /\ \A c, won : Intended(c, d, won)' <=> Intended(c, d, won)
BY DEF SpentToday, Intended

\* Only an intent is written before an order is sent; an answer is a row of another state.
LEMMA IntentsKept ==
  ASSUME Typed, IsFiniteSet(journal), [Next]_vars, \A i \in Items : ~ Intend(i)
  PROVE  IsFiniteSet(journal)' /\ \A d \in Days : RowsOf(d, "intent")' = RowsOf(d, "intent")
<1>1. CASE UNCHANGED journal
  BY <1>1 DEF RowsOf
<1>2. CASE Answered
  <2> DEFINE row == [state |-> answer, cid |-> Cid(item), day |-> stamp, est |-> Remaining(mem, item) * quote[item]]
  <2>1. journal' = journal \cup {row} /\ row.state = answer
    BY <1>2 DEF Answered, Log
  <2>2. answer # "intent"
    BY <1>2, ConstantsAssumption DEF Answered, Typed, TypeOK, Outcomes
  <2> HIDE DEF row
  <2>3. \A d \in Days : RowsOf(d, "intent")' = RowsOf(d, "intent")
    BY <2>1, <2>2 DEF RowsOf
  <2> QED
    BY <2>1, <2>3, FS_AddElement
<1>3. CASE Post
  BY <1>1, <1>3 DEF Post
<1>4. CASE ~ Post /\ ~ Answered
  BY <1>1, <1>4, Quiet DEF Typed
<1> QED
  BY <1>2, <1>3, <1>4

\* What a step that neither intends nor sends must keep for the budget to hold.
LEMMA BudgetKept ==
  ASSUME Typed, Budget, [Next]_vars, ~ Post, \A i \in Items : ~ Intend(i),
         pc' = "post" => UNCHANGED <<stamp, Cid(item), mem, item, pc, quote>>,
         Placing' => SpentToday(stamp)' + Estimate(mem', todo' \ {item'}, quote') <= DailyCap
  PROVE  Budget'
<1>1. IsFiniteSet(journal)' /\ \A d \in Days : RowsOf(d, "intent")' = RowsOf(d, "intent")
  BY IntentsKept DEF Budget
<1>2. \A d \in Days : /\ SpentToday(d)' = SpentToday(d)
                      /\ \A c, won : Intended(c, d, won)' <=> Intended(c, d, won)
  BY <1>1, SpentKept
<1>3. ASSUME NEW c \in Cids, venue'[c] # None
      PROVE  CountedOnce(c, venue[c])'
  <2>1. /\ venue[c] # None /\ venue'[c].qty = venue[c].qty /\ venue'[c].price = venue[c].price
        /\ venue'[c].day = venue[c].day
    BY <1>3, VenueOnward DEF Onward
  <2> DEFINE won == venue[c].qty * venue[c].price
  <2>2. PICK d \in Days : Intended(c, d, won) /\ (venue[c].day = d \/ venue[c].day = d + 1)
    BY <2>1 DEF Budget, CountedOnce
  <2>3. Intended(c, d, won)'
    BY <1>2, <2>1, <2>2
  <2>4. won' = won
    BY <2>1
  <2> HIDE DEF won
  <2>5. \E e \in Days : Intended(c, e, won)' /\ (venue'[c].day = e \/ venue'[c].day = e + 1)
    BY <2>1, <2>2, <2>3
  <2> QED
    BY <2>4, <2>5 DEF CountedOnce, won
<1>4. pc' = "post" => Intended(Cid(item), stamp, Remaining(mem, item) * quote[item])'
  <2> SUFFICES ASSUME pc' = "post"
               PROVE  Intended(Cid(item), stamp, Remaining(mem, item) * quote[item])'
    OBVIOUS
  <2>1. UNCHANGED <<stamp, Cid(item), mem, item, pc, quote>> /\ stamp \in Days
    BY DEF Typed, TypeOK
  <2>2. Intended(Cid(item), stamp, Remaining(mem, item) * quote[item])
    BY <2>1 DEF Budget
  <2>3. (Cid(item))' = Cid(item)
    BY <2>1
  <2>4. \E r \in RowsOf(stamp, "intent")' : r.cid = Cid(item) /\ r.est = Remaining(mem, item) * quote[item]
    BY <1>1, <2>1, <2>2 DEF Intended
  <2> QED
    BY <2>1, <2>3, <2>4 DEF Intended, Remaining, RowsOf
<1>5. \A d \in Days : SpentToday(d)' <= DailyCap
  BY <1>2 DEF Budget
<1>6. Placing' => SpentToday(stamp)' + (Estimate(mem, todo \ {item}, quote))' <= DailyCap
  OBVIOUS
<1>7. OneIntent'
  BY <1>1 DEF Budget, OneIntent
<1> QED
  BY <1>1, <1>3, <1>4, <1>5, <1>6, <1>7 DEF Budget

\* The item in hand is set aside from the estimate; before it is picked, nothing is.
LEMMA NoneInHand == ASSUME Typed, item = None PROVE todo \ {item} = todo
BY ConstantsAssumption DEF Typed, TypeOK

\* The intent of an item moves its estimate from what is left to what is spent.
LEMMA BudgetIntend ==
  ASSUME Typed, Budget, NEW i \in Items, Intend(i) PROVE Budget'
<1>1. /\ mem # None /\ mem \in Body /\ i \in todo /\ item = None /\ pc = "next" /\ pc' = "post" /\ item' = i
      /\ UNCHANGED <<day, part, stamp, venue, mem, todo, quote>> /\ ~ Journalled(Cid(i)) /\ Log(i, "intent")
      /\ stamp \in Days
  BY DEF Intend, exchange, Typed, TypeOK
<1> DEFINE won == Remaining(mem, i) * quote[i]
           row == [state |-> "intent", cid |-> Cid(i), day |-> stamp, est |-> won]
<1>2. /\ row.state = "intent" /\ row.cid = Cid(i) /\ row.day = stamp /\ row.est = won
      /\ journal' = journal \cup {row} /\ row \notin journal
  BY <1>1 DEF Log, Journalled
<1>3. won \in Nat /\ row \in Row
  BY <1>1, CidType, Estimated DEF Typed, TypeOK, Row
<1>4. (Cid(item))' = Cid(i) /\ Remaining(mem', i) = Remaining(mem, i)
  BY <1>1 DEF Cid, CidOf, Session, Remaining
<1>5. IsFiniteSet(journal) /\ IsFiniteSet(journal)'
  BY <1>2, FS_AddElement DEF Budget
<1> HIDE DEF row, won
<1>6. \A d \in Days : d # stamp => RowsOf(d, "intent")' = RowsOf(d, "intent")
  BY <1>2 DEF RowsOf
<1>7. RowsOf(stamp, "intent")' = RowsOf(stamp, "intent") \cup {row} /\ row \notin RowsOf(stamp, "intent")
  BY <1>1, <1>2 DEF RowsOf
<1>8. \A d \in Days : d = stamp => SpentToday(d)' = SpentToday(d) + won /\ SpentToday(d) \in Nat
  <2> TAKE d \in Days
  <2> HAVE d = stamp
  <2>1. /\ Summable(Ests, RowsOf(d, "intent"))
        /\ SpentToday(d) = SumFunctionOnSet(Ests, RowsOf(d, "intent")) /\ SpentToday(d) \in Nat
    BY <1>5, SpentOf
  <2>2. Ests[row] = won
    BY <1>2, <1>3 DEF Ests
  <2>3. RowsOf(d, "intent")' = RowsOf(d, "intent") \cup {row} /\ row \notin RowsOf(d, "intent")
    BY <1>1, <1>2 DEF RowsOf
  <2>4. /\ Summable(Ests, RowsOf(d, "intent") \cup {row})
        /\ SumFunctionOnSet(Ests, RowsOf(d, "intent") \cup {row})
             = won + SumFunctionOnSet(Ests, RowsOf(d, "intent"))
    BY <1>3, <2>1, <2>2, <2>3, SumAdd
  <2> DEFINE g == [r \in RowsOf(d, "intent") \cup {row} |-> r.est]
  <2>5. \A r \in RowsOf(d, "intent") \cup {row} : g[r] = Ests[r]
    BY <1>3 DEF Ests, RowsOf, Typed, TypeOK
  <2>6. SpentToday(d)' = SumFunction(g)
    BY <2>3 DEF SpentToday
  <2>7. DOMAIN g = RowsOf(d, "intent") \cup {row}
    OBVIOUS
  <2> HIDE DEF g
  <2>8. SumFunction(g) = SumFunctionOnSet(Ests, RowsOf(d, "intent") \cup {row})
    BY <2>4, <2>5, <2>7, SumOf
  <2> QED
    BY <1>3, <2>1, <2>4, <2>6, <2>8
<1>9. SpentToday(stamp) + Estimate(mem, todo, quote) <= DailyCap
  BY <1>1, NoneInHand DEF Budget, Placing, SpentToday
<1>10. /\ Estimate(mem, todo, quote) = won + Estimate(mem, todo \ {i}, quote)
       /\ Estimate(mem, todo \ {i}, quote) \in Nat
  BY <1>1, EstimateSplit DEF won
<1>11. \A c, d, w : Intended(c, d, w) => Intended(c, d, w)'
  BY <1>2 DEF Intended, RowsOf
<1>12. \A c \in Cids : venue'[c] # None => CountedOnce(c, venue[c])'
  BY <1>1, <1>11 DEF Budget, CountedOnce
<1>13. Intended(Cid(item), stamp, Remaining(mem, item) * quote[item])'
  <2>1. row \in RowsOf(stamp, "intent")'
    BY <1>7
  <2>2. (Remaining(mem, item) * quote[item])' = won
    BY <1>1, <1>4 DEF won
  <2> QED
    BY <1>1, <1>2, <1>4, <2>1, <2>2 DEF Intended
<1>14. \A d \in Days : SpentToday(d)' <= DailyCap
  <2> TAKE d \in Days
  <2>1. CASE d = stamp
    <3>1. SpentToday(d)' = SpentToday(d) + won /\ SpentToday(d) = SpentToday(stamp) /\ SpentToday(stamp) \in Nat
      BY <1>8, <2>1
    <3> QED
      BY <1>3, <1>9, <1>10, <3>1, ConstantsAssumption
  <2>2. CASE d # stamp
    <3>1. RowsOf(d, "intent")' = RowsOf(d, "intent")
      BY <1>6, <2>2
    <3>2. SpentToday(d)' = SpentToday(d)
      BY <3>1 DEF SpentToday
    <3> QED
      BY <3>2 DEF Budget
  <2> QED
    BY <2>1, <2>2
<1>15. SpentToday(stamp)' + (Estimate(mem, todo \ {item}, quote))' <= DailyCap
  <2>1. SpentToday(stamp)' = SpentToday(stamp) + won /\ SpentToday(stamp) \in Nat
    <3>1. PICK d \in Days : d = stamp /\ d = stamp'
      BY <1>1
    <3>2. RowsOf(stamp, "intent")' = RowsOf(d, "intent")'
      BY <3>1 DEF RowsOf
    <3>3. SpentToday(stamp)' = SpentToday(d)'
      BY <3>2 DEF SpentToday
    <3> QED
      BY <1>8, <3>1, <3>3
  <2>2. (Estimate(mem, todo \ {item}, quote))' = Estimate(mem, todo \ {i}, quote)
    BY <1>1 DEF Estimate, Remaining
  <2> QED
    BY <1>3, <1>9, <1>10, <2>1, <2>2, ConstantsAssumption
<1>16. OneIntent'
  <2>1. \A d \in Days : \A r \in RowsOf(d, "intent")' :
          (r \in RowsOf(d, "intent") /\ r.cid # Cid(i)) \/ r = row
    BY <1>1, <1>2 DEF RowsOf, Journalled
  <2>2. row.cid = Cid(i)
    BY <1>2
  <2> QED
    BY <2>1, <2>2 DEF Budget, OneIntent
<1> QED
  BY <1>5, <1>12, <1>13, <1>14, <1>15, <1>16 DEF Budget

\* The order that reaches the exchange is the one intended.
LEMMA BudgetPost == ASSUME Typed, Budget, Post PROVE Budget'
<1>1. /\ mem # None /\ mem \in Body /\ item \in todo /\ item \in Items /\ Cid(item) \in Cids
      /\ UNCHANGED <<day, part, stamp, latest, file, journal, mem, todo, quote, item, lost>>
      /\ pc = "post" /\ pc' = "answer"
  BY PostSends
<1>2. \A d : RowsOf(d, "intent")' = RowsOf(d, "intent")
  BY <1>1 DEF RowsOf
<1>3. \A c, d, won : Intended(c, d, won)' <=> Intended(c, d, won)
  BY <1>1 DEF Intended, RowsOf
<1>4. ASSUME NEW c \in Cids, venue'[c] # None
      PROVE  CountedOnce(c, venue[c])'
  <2>1. CASE venue'[c] = venue[c]
    <3>1. CountedOnce(c, venue[c])
      BY <1>4, <2>1 DEF Budget
    <3> QED
      BY <1>3, <2>1, <3>1 DEF CountedOnce
  <2>2. CASE venue'[c] # venue[c]
    <3>1. c = Cid(item) /\ venue'[c] = Sending(item)
      BY <1>1, <2>2, PostSends DEF exchange, Typed, TypeOK
    <3>2. /\ venue'[c].day = day /\ venue'[c].qty = Remaining(mem, item)
          /\ venue'[c].price = quote[item]
      BY <3>1 DEF Sending
    <3>3. Intended(c, stamp, Remaining(mem, item) * quote[item])'
      BY <1>1, <1>3, <3>1 DEF Budget
    <3>4. stamp \in Days /\ (day = stamp \/ day = stamp + 1)
      BY <1>1 DEF Typed, TypeOK, Hand, Stamps, Days
    <3>5. Intended(c, stamp, venue[c].qty * venue[c].price)'
      BY <3>2, <3>3, <1>1
    <3>6. \E d \in Days : Intended(c, d, venue[c].qty * venue[c].price)' /\ (venue'[c].day = d \/ venue'[c].day = d + 1)
      BY <1>1, <3>2, <3>4, <3>5 DEF Intended, RowsOf
    <3> QED
      BY <3>6 DEF CountedOnce
  <2> QED
    BY <2>1, <2>2
<1>5. \A d \in Days : SpentToday(d)' = SpentToday(d)
  BY <1>2 DEF SpentToday
<1>6. SpentToday(stamp)' = SpentToday(stamp)
  BY <1>1 DEF SpentToday, RowsOf
<1>7. (Estimate(mem, todo \ {item}, quote))' = Estimate(mem, todo \ {item}, quote)
  BY <1>1 DEF Estimate, Remaining
<1>8. OneIntent'
  BY <1>2 DEF Budget, OneIntent
<1> QED
  BY <1>1, <1>4, <1>5, <1>6, <1>7, <1>8 DEF Budget, Placing

LEMMA BudgetLook == ASSUME Typed, Budget, NEW read, Look(read) PROVE Budget'
<1>1. /\ UNCHANGED <<journal, item>> /\ ~ Post /\ \A i \in Items : ~ Intend(i)
      /\ pc = "idle" /\ item = None /\ pc' # "post"
  BY DEF Look, Finish, Hold, Begin, Fires, fire, Post, Intend, Typed, TypeOK
<1>2. [Next]_vars
  <2>1. read \in SUBSET Items
    BY DEF Look, Finish, Hold, Begin, Fires, Open, Typed, TypeOK, Body
  <2> QED
    BY <2>1 DEF Next
<1>3. CASE Begin(read)
  <2> DEFINE body == Tracked(read)
  <2>1. PICK price \in [Wanted(body) -> Prices] :
          /\ WithinCaps(body, Wanted(body), price, stamp')
          /\ quote' = [i \in Items |-> IF i \in Wanted(body) THEN price[i] ELSE None]
    BY <1>3 DEF Begin
  <2>2. /\ mem' = Tried(body) /\ todo' = Wanted(body) /\ item' = None
        /\ read \subseteq Open(file) /\ file # None
    BY <1>1, <1>3 DEF Begin, Fires
  <2>3. body \in Body
    BY <2>2, TrackedTypes
  <2>4. Tried(body).filled = body.filled
    BY <2>3, TriedKeeps DEF Typed
  <2>5. Wanted(body) \subseteq Items
    BY <2>3 DEF Wanted, Body
  <2> HIDE DEF body
  <2>6. \A i \in Wanted(body) : Remaining(Tried(body), i) = Remaining(body, i) /\ quote'[i] = price[i]
    BY <2>1, <2>4, <2>5 DEF Remaining
  <2>7. Estimate(Tried(body), Wanted(body), quote') = Estimate(body, Wanted(body), price)
    BY <2>6, EstimateSame
  <2>8. todo' \ {item'} = Wanted(body)
    BY <2>2, <2>5, ConstantsAssumption
  <2>9. SpentToday(stamp)' = SpentToday(stamp')
    BY <1>1 DEF SpentToday, RowsOf
  <2>10. SpentToday(stamp') + Estimate(body, Wanted(body), price) <= DailyCap
    BY <2>1 DEF WithinCaps
  <2>11. SpentToday(stamp)' + Estimate(mem', todo' \ {item'}, quote') <= DailyCap
    BY <2>2, <2>7, <2>8, <2>9, <2>10
  <2> QED
    BY <1>1, <1>2, <2>11, BudgetKept
<1>4. CASE Finish(read) \/ Hold(read)
  <2>1. ~ Placing'
    BY <1>1, <1>4 DEF Finish, Hold, fire, Placing
  <2> QED
    BY <1>1, <1>2, <2>1, BudgetKept
<1> QED
  BY <1>3, <1>4 DEF Look

LEMMA BudgetAnswered == ASSUME Typed, Budget, Answered PROVE Budget'
<1>1. /\ UNCHANGED <<stamp, quote>> /\ ~ Post /\ \A i \in Items : ~ Intend(i) /\ item' = None
      /\ pc = "answer" /\ pc' # "post" /\ stamp \in Days
  BY AnsweredKeeps DEF Answered, Post, Intend, Typed, TypeOK
<1>2. [Next]_vars
  BY DEF Next, Place
<1>3. CASE answer = "accepted"
  <2>1. mem'.filled = mem.filled /\ todo' = todo \ {item}
    BY <1>3, AnsweredKeeps
  <2>2. Estimate(mem', todo \ {item}, quote') = Estimate(mem, todo \ {item}, quote)
    BY <1>1, <2>1, EstimateSame DEF Remaining
  <2>3. todo' \ {item'} = todo \ {item}
    BY <1>1, <2>1, ConstantsAssumption DEF Typed, TypeOK
  <2>4. SpentToday(stamp)' = SpentToday(stamp)
    <3>1. RowsOf(stamp, "intent")' = RowsOf(stamp, "intent")
      <4>1. PICK d \in Days : d = stamp /\ d = stamp'
        BY <1>1
      <4>2. RowsOf(d, "intent")' = RowsOf(d, "intent")
        BY <1>1, <1>2, IntentsKept DEF Budget
      <4> QED
        BY <4>1, <4>2 DEF RowsOf
    <3> QED
      BY <3>1 DEF SpentToday
  <2>5. SpentToday(stamp) + Estimate(mem, todo \ {item}, quote) <= DailyCap
    BY <1>1 DEF Budget, Placing
  <2>6. SpentToday(stamp)' + Estimate(mem', todo' \ {item'}, quote') <= DailyCap
    BY <2>2, <2>3, <2>4, <2>5
  <2> QED
    BY <1>1, <1>2, <2>6, BudgetKept
<1>4. CASE answer # "accepted"
  <2>1. ~ Placing'
    BY <1>4, AnsweredKeeps DEF Placing
  <2> QED
    BY <1>1, <1>2, <2>1, BudgetKept
<1> QED
  BY <1>3, <1>4

LEMMA BudgetStep == Typed /\ Budget /\ [Next]_vars => Budget'
<1> SUFFICES ASSUME Typed, Budget, [Next]_vars PROVE Budget'
  OBVIOUS
<1>1. ASSUME NEW i \in Items, Refuse(i) PROVE Budget'
  <2>1. ~ Placing' /\ pc' # "post" /\ ~ Post /\ \A j \in Items : ~ Intend(j)
    BY <1>1 DEF Refuse, Placing, Post, Intend
  <2> QED
    BY <2>1, BudgetKept
<1>2. CASE Approve \/ Write \/ Die
  <2>1. ~ Placing' /\ pc' # "post" /\ ~ Post /\ \A j \in Items : ~ Intend(j)
    BY <1>2 DEF Approve, Write, Die, Forget, fire, Placing, Post, Intend
  <2> QED
    BY <2>1, BudgetKept
<1>3. CASE (\E c \in Cids : Fill(c)) \/ Tick \/ UNCHANGED vars
  <2>1. UNCHANGED <<stamp, journal, mem, todo, quote, item, pc, answer>>
    BY <1>3 DEF Fill, Tick, fire, vars
  <2>2. SpentToday(stamp)' = SpentToday(stamp)
    BY <2>1 DEF SpentToday, RowsOf
  <2>3. Placing' => SpentToday(stamp)' + Estimate(mem', todo' \ {item'}, quote') <= DailyCap
    BY <2>1, <2>2 DEF Budget, Placing
  <2>4. ~ Post /\ ~ Answered /\ \A j \in Items : ~ Intend(j)
    <3>1. ~ Answered
      BY <2>1, AnsweredKeeps DEF Answered
    <3> QED
      BY <2>1, <3>1 DEF Post, Intend
  <2>5. pc' = "post" => UNCHANGED Cid(item)
    BY <2>4, Quiet DEF Typed
  <2> QED
    BY <2>1, <2>3, <2>4, <2>5, BudgetKept
<1>4. CASE Place
  BY <1>1, <1>2, <1>4, BudgetIntend, BudgetPost, BudgetAnswered DEF Place
<1>5. CASE \E read \in SUBSET Items : Look(read)
  BY <1>5, BudgetLook
<1> QED
  BY <1>2, <1>3, <1>4, <1>5 DEF Next

LEMMA BudgetInit == Init => Budget
<1> SUFFICES ASSUME Init PROVE Budget
  OBVIOUS
<1>1. journal = {} /\ pc = "idle" /\ \A c \in Cids : venue[c] = None
  BY DEF Init
<1>2. ASSUME NEW d \in Days PROVE SpentToday(d) <= DailyCap
  <2>1. RowsOf(d, "intent") = {}
    BY <1>1 DEF RowsOf
  <2> DEFINE g == [r \in RowsOf(d, "intent") |-> r.est]
  <2>2. DOMAIN g = {}
    BY <2>1
  <2>3. SpentToday(d) = SumFunction(g)
    BY DEF SpentToday
  <2> HIDE DEF g
  <2>4. SumFunction(g) = 0
    BY <2>2, SumAll, SumEmpty
  <2> QED
    BY <2>3, <2>4, ConstantsAssumption
<1> QED
  BY <1>1, <1>2, FS_EmptySet DEF Budget, OneIntent, RowsOf, Placing

\* Orders cost no more than the rows that intended them.
LEMMA CostWithin ==
  ASSUME Typed, Budget, NEW S, S \subseteq {c \in Cids : venue[c] # None},
         NEW T, T \subseteq journal,
         \A c \in S : \E r \in T : r.cid = c /\ r.est = venue[c].qty * venue[c].price
  PROVE  /\ IsFiniteSet(S) /\ Summable(Ests, T) /\ Cost(S) \in Nat
         /\ Cost(S) <= SumFunctionOnSet(Ests, T)
<1> DEFINE f == [c \in S |-> venue[c].qty * venue[c].price]
           h == [c \in S |-> CHOOSE r \in T : r.cid = c /\ r.est = venue[c].qty * venue[c].price]
<1>1. \A c \in S : h[c] \in T /\ h[c].cid = c /\ h[c].est = f[c]
  OBVIOUS
<1>2. h \in [S -> T]
  BY <1>1
<1>3. \A c \in S : f[c] \in Nat
  <2> TAKE c \in S
  <2>1. venue[c] \in Order
    BY DEF Typed, TypeOK
  <2>2. venue[c].qty \in Nat /\ venue[c].price \in Nat
    BY <2>1, ConstantsAssumption DEF Order
  <2>3. \A a \in Nat, b \in Nat : a * b \in Nat
    OBVIOUS
  <2> QED
    BY <2>2, <2>3
<1>4. Cost(S) = SumFunction(f) /\ DOMAIN f = S
  BY DEF Cost
<1> HIDE DEF f, h
<1>5. \A x \in S, y \in S : h[x] = h[y] => x = y
  BY <1>1
<1>6. IsFiniteSet(T)
  BY FS_Subset DEF Budget
<1>7. IsFiniteSet(S)
  <2>1. h \in Injection(S, T)
    BY <1>2, <1>5 DEF Injection, IsInjective
  <2> QED
    BY <1>6, <2>1, FS_Injection
<1>8. Summable(f, S)
  BY <1>3, <1>7 DEF Summable
<1>9. \A r \in T : Ests[r] = r.est /\ Ests[r] \in Nat
  BY DEF Ests, Row, Typed, TypeOK
<1>10. Summable(Ests, T)
  BY <1>6, <1>9 DEF Summable
<1>11. \A c \in S : f[c] <= Ests[h[c]]
  BY <1>1, <1>3, <1>9
<1>12. SumFunctionOnSet(f, S) <= SumFunctionOnSet(Ests, T)
  BY <1>2, <1>5, <1>8, <1>10, <1>11, SumInto
<1>13. SumFunction(f) = SumFunctionOnSet(f, S) /\ SumFunctionOnSet(f, S) \in Nat
  BY <1>4, <1>8, SumAll, SumType
<1> QED
  BY <1>4, <1>7, <1>10, <1>12, <1>13

LEMMA FinitelyMany == Typed /\ Budget => IsFiniteSet({c \in Cids : venue[c] # None})
<1> SUFFICES ASSUME Typed, Budget PROVE IsFiniteSet({c \in Cids : venue[c] # None})
  OBVIOUS
<1> DEFINE S == {c \in Cids : venue[c] # None}
<1>1. \A c \in S : \E r \in journal : r.cid = c /\ r.est = venue[c].qty * venue[c].price
  BY DEF Budget, CountedOnce, Intended, RowsOf
<1> HIDE DEF S
<1>2. S \subseteq {c \in Cids : venue[c] # None}
  BY DEF S
<1> QED
  BY <1>1, <1>2, CostWithin DEF S

\* The rows of no day are none.
LEMMA SpentWithin ==
  ASSUME Typed, Budget, NEW d \in Int
  PROVE  /\ Summable(Ests, RowsOf(d, "intent"))
         /\ SumFunctionOnSet(Ests, RowsOf(d, "intent")) \in 0 .. DailyCap
<1>1. /\ Summable(Ests, RowsOf(d, "intent"))
      /\ SpentToday(d) = SumFunctionOnSet(Ests, RowsOf(d, "intent")) /\ SpentToday(d) \in Nat
  BY SpentOf DEF Budget
<1>2. CASE d \in Days
  BY <1>1, <1>2, ConstantsAssumption DEF Budget
<1>3. CASE d \notin Days
  <2>1. RowsOf(d, "intent") = {}
    BY <1>3 DEF RowsOf, Row, Typed, TypeOK
  <2> QED
    BY <1>1, <2>1, SumEmpty, ConstantsAssumption
<1> QED
  BY <1>2, <1>3

LEMMA BudgetHolds == Typed /\ Budget => DailyCapHolds
<1> SUFFICES ASSUME Typed, Budget, NEW d \in Days
             PROVE  Cost(CountedFor(d)) <= DailyCap /\ Cost(PlacedOn(d)) <= 2 * DailyCap
  BY DEF DailyCapHolds
<1>1. d \in Int /\ d - 1 \in Int
  BY ConstantsAssumption DEF Days
<1>2. DailyCap \in Nat
  BY ConstantsAssumption
<1>3. Cost(CountedFor(d)) <= DailyCap
  <2>1. ASSUME NEW c \in CountedFor(d)
        PROVE  \E r \in RowsOf(d, "intent") : r.cid = c /\ r.est = venue[c].qty * venue[c].price
    <3>1. c \in Cids /\ venue[c] # None
      BY DEF CountedFor
    <3>2. PICK r \in RowsOf(d, "intent") : r.cid = c
      BY DEF CountedFor
    <3>3. PICK e \in Days : Intended(c, e, venue[c].qty * venue[c].price)
      BY <3>1 DEF Budget, CountedOnce
    <3>4. PICK q \in RowsOf(e, "intent") : q.cid = c /\ q.est = venue[c].qty * venue[c].price
      BY <3>3 DEF Intended
    <3>5. r = q
      BY <3>2, <3>4 DEF Budget, OneIntent
    <3> QED
      BY <3>2, <3>4, <3>5
  <2>2. CountedFor(d) \subseteq {c \in Cids : venue[c] # None} /\ RowsOf(d, "intent") \subseteq journal
    BY DEF CountedFor, RowsOf
  <2>3. /\ Cost(CountedFor(d)) \in Nat
        /\ Cost(CountedFor(d)) <= SumFunctionOnSet(Ests, RowsOf(d, "intent"))
    BY <2>1, <2>2, CostWithin
  <2> QED
    BY <1>1, <1>2, <2>3, SpentWithin
<1>4. Cost(PlacedOn(d)) <= 2 * DailyCap
  <2> DEFINE T == RowsOf(d, "intent")
             Y == RowsOf(d - 1, "intent")
  <2>1. ASSUME NEW c \in PlacedOn(d)
        PROVE  \E r \in T \cup Y : r.cid = c /\ r.est = venue[c].qty * venue[c].price
    <3>1. c \in Cids /\ venue[c] # None /\ venue[c].day = d
      BY DEF PlacedOn
    <3>2. PICK e \in Days : /\ Intended(c, e, venue[c].qty * venue[c].price)
                            /\ venue[c].day = e \/ venue[c].day = e + 1
      BY <3>1 DEF Budget, CountedOnce
    <3>3. e = d \/ e = d - 1
      BY <3>1, <3>2 DEF Days
    <3> QED
      BY <3>2, <3>3 DEF Intended
  <2>2. /\ PlacedOn(d) \subseteq {c \in Cids : venue[c] # None} /\ T \cup Y \subseteq journal
        /\ T \cap Y = {}
    BY <1>1 DEF PlacedOn, RowsOf
  <2>3. /\ Summable(Ests, T) /\ SumFunctionOnSet(Ests, T) \in 0 .. DailyCap
        /\ Summable(Ests, Y) /\ SumFunctionOnSet(Ests, Y) \in 0 .. DailyCap
    BY <1>1, SpentWithin
  <2> HIDE DEF T, Y
  <2>4. Cost(PlacedOn(d)) \in Nat /\ Cost(PlacedOn(d)) <= SumFunctionOnSet(Ests, T \cup Y)
    BY <2>1, <2>2, CostWithin
  <2>5. SumFunctionOnSet(Ests, T \cup Y) = SumFunctionOnSet(Ests, T) + SumFunctionOnSet(Ests, Y)
    BY <2>2, <2>3, SumUnion
  <2> QED
    BY <1>2, <2>3, <2>4, <2>5
<1> QED
  BY <1>3, <1>4

\* The day's limit: the orders at the exchange that the passes of one KST day sent, from
\* every scenario and whatever died or went unanswered, cost no more than DAILY_CAP_KRW,
\* for the limit is taken from the intent rows, one written before each order is sent.
\* A pass posts on the day of its stamp or, past midnight, on the next: on one KST day
\* the exchange gets at most the limits of two.
THEOREM WithinTheDay == Spec => []DailyCapHolds
<1>1. Init => Typed /\ Budget
  BY InitTyped, BudgetInit
<1>2. Typed /\ Budget /\ [Next]_vars => (Typed /\ Budget)'
  BY TypedStep, BudgetStep
<1>3. Typed /\ Budget => DailyCapHolds
  BY BudgetHolds
<1> QED
  BY <1>1, <1>2, <1>3, PTL DEF Spec

-----------------------------------------------------------------------------
(* What a step does to the orders and to the books of a scenario.           *)

\* The same scenario with the same books: its status and its last try may differ.
SameBooks(new, body) ==
  /\ new.id = body.id /\ new.items = body.items /\ new.cap = body.cap
  /\ new.filled = body.filled /\ new.spent = body.spent /\ new.open = body.open

\* A look keeps what was read back in the file, or takes it to the fire that places.
LEMMA LookIs ==
  ASSUME Typed, NEW read, Look(read)
  PROVE  /\ file # None /\ file \in Body /\ file.status = "pending" /\ read \subseteq Open(file)
         /\ pc = "idle" /\ mem = None /\ item = None
         /\ UNCHANGED <<day, part, latest, exchange, journal, item, lost>>
         /\ \/ UNCHANGED fire /\ file' \in Body /\ SameBooks(file', Tracked(read))
            \/ /\ UNCHANGED file /\ pc' = "next" /\ mem' \in Body
               /\ SameBooks(mem', Tracked(read)) /\ mem'.status = "pending"
<1> DEFINE body == Tracked(read)
<1>1. /\ file # None /\ file \in Body /\ file.status = "pending" /\ read \subseteq Open(file)
      /\ pc = "idle" /\ mem = None /\ item = None
      /\ UNCHANGED <<day, part, latest, exchange, journal, item, lost>>
  BY DEF Look, Finish, Hold, Begin, Fires, fire, Typed, TypeOK
<1>2. body \in Body
  BY <1>1, TrackedTypes
<1> HIDE DEF body
<1>3. Tried(body) \in Body /\ SameBooks(Tried(body), body) /\ Tried(body).status = body.status
  BY <1>2, TriedKeeps DEF Typed, SameBooks
<1>4. \A b \in Body, st \in Statuses :
        [b EXCEPT !.status = st] \in Body /\ SameBooks([b EXCEPT !.status = st], b)
  <2> TAKE b \in Body, st \in Statuses
  <2> QED
    BY StatusKeeps DEF SameBooks
<1>5. SameBooks(body, body) /\ {"stopped", "expired"} \subseteq Statuses
  BY DEF SameBooks, Statuses
<1>6. CASE Finish(read)
  <2>1. UNCHANGED fire /\ (file' = body \/ file' = [body EXCEPT !.status = "expired"])
    BY <1>6 DEF Finish, body
  <2> QED
    BY <1>1, <1>2, <1>4, <1>5, <2>1 DEF body
<1>7. CASE Hold(read)
  <2>1. /\ UNCHANGED fire
        /\ \/ file' = body \/ file' = Tried(body)
           \/ file' = [Tried(body) EXCEPT !.status = "stopped"]
    BY <1>7 DEF Hold, body
  <2>2. \/ file' \in Body /\ SameBooks(file', body)
        \/ file' \in Body /\ SameBooks(file', Tried(body))
    BY <1>2, <1>3, <1>4, <1>5, <2>1
  <2>3. SameBooks(file', body)
    BY <1>3, <2>2 DEF SameBooks
  <2> QED
    BY <1>1, <2>1, <2>2, <2>3 DEF body
<1>8. CASE Begin(read)
  <2>1. UNCHANGED file /\ pc' = "next" /\ mem' = Tried(body) /\ body.status = "pending"
    BY <1>8 DEF Begin, body
  <2> QED
    BY <1>1, <1>3, <2>1 DEF body
<1> QED
  BY <1>6, <1>7, <1>8 DEF Look

\* Every order at the exchange was sent, for a scenario that was approved, and fills up to
\* its quantity and no further; the scenario's orders are for its own items.
Orderly ==
  /\ \A c \in Cids : venue[c] # None =>
       /\ posts[c] > 0 /\ c[1] <= latest
       /\ venue[c].filled <= venue[c].qty /\ (venue[c].live => venue[c].filled < venue[c].qty)
  /\ file # None => file.id <= latest
  /\ file # None => \A c \in OrdersFor(file.id) : c[2] \in file.items
  /\ pc # "idle" => mem.cap = file.cap
  /\ Placing => mem.status = "pending"

\* An order goes on, or is the one just sent.
LEMMA Steady ==
  ASSUME Typed, Sent, Orderly, [Next]_vars, NEW c \in Cids
  PROVE  /\ venue[c] # None => Onward(c)
         /\ venue[c] = None =>
              venue'[c] = None \/ (Post /\ c = Cid(item) /\ venue'[c] = Sending(item))
<1>1. CASE ~ Post
  BY <1>1, VenueOnward DEF Onward
<1>2. CASE Post
  <2>1. /\ Cid(item) \in Cids /\ pc = "post"
        /\ \/ UNCHANGED exchange
           \/ venue' = [venue EXCEPT ![Cid(item)] = Sending(item)]
    BY <1>2, PostSends
  <2>2. venue[Cid(item)] = None
    BY <2>1 DEF Sent, Orderly
  <2>3. venue'[c] = venue[c] \/ (c = Cid(item) /\ venue'[c] = Sending(item))
    BY <2>1 DEF exchange, Typed, TypeOK
  <2> QED
    BY <1>2, <2>2, <2>3 DEF Onward
<1> QED
  BY <1>1, <1>2

\* What a step does to the books the file keeps and to those in hand.
FileKept == file' = file
FileRead == \E read : Look(read) /\ file' \in Body /\ SameBooks(file', Tracked(read)) /\ UNCHANGED fire
FileWritten == Write /\ file' = mem

LEMMA FileStep ==
  ASSUME Typed, [Next]_vars PROVE FileKept \/ Approve \/ FileRead \/ FileWritten
<1>1. ASSUME NEW read, Look(read) PROVE FileKept \/ FileRead
  BY <1>1, LookIs DEF FileKept, FileRead
<1>2. CASE Place \/ Die \/ Tick \/ (\E c \in Cids : Fill(c)) \/ UNCHANGED vars
  BY <1>2 DEF Place, Refuse, Intend, Post, Answered, Write, Die, Tick, Fill, vars, FileKept, FileWritten
<1> QED
  BY <1>1, <1>2 DEF Next

MemKept  == mem' # None /\ mem # None /\ SameBooks(mem', mem) /\ pc # "idle"
MemRead  == \E read : Look(read) /\ mem' \in Body /\ SameBooks(mem', Tracked(read)) /\ UNCHANGED file
MemTakes == Answered /\ answer = "accepted"

LEMMA MemStep ==
  ASSUME Typed, [Next]_vars
  PROVE  /\ pc' = "idle" \/ MemKept \/ MemRead \/ MemTakes
         /\ MemKept => (mem'.status = "pending" => mem.status = "pending")
<1>1. pc' = "idle" \/ MemKept \/ MemRead \/ MemTakes
  <2>1. ASSUME NEW read, Look(read) PROVE pc' = "idle" \/ MemRead
    <3>1. pc = "idle"
      BY <2>1, LookIs
    <3>2. \/ UNCHANGED fire
          \/ UNCHANGED file /\ mem' \in Body /\ SameBooks(mem', Tracked(read))
      BY <2>1, LookIs
    <3> QED
      BY <2>1, <3>1, <3>2 DEF MemRead, fire
  <2>2. CASE Write \/ Die
    BY <2>2 DEF Write, Die, Forget
  <2>3. CASE Approve \/ Tick \/ (\E c \in Cids : Fill(c)) \/ UNCHANGED vars
    <3>1. mem' = mem /\ pc' = pc
      BY <2>3 DEF Approve, Tick, Fill, vars, fire
    <3> QED
      BY <3>1 DEF MemKept, SameBooks, Typed, TypeOK
  <2>4. ASSUME NEW i \in Items, Intend(i) \/ Refuse(i) PROVE MemKept
    <3>1. pc = "next" /\ mem \in Body /\ mem # None /\ pc' # "idle"
      BY <2>4 DEF Intend, Refuse, Typed, TypeOK
    <3>2. mem' = mem \/ mem' = [mem EXCEPT !.status = "unknown"]
      BY <2>4 DEF Intend, Refuse
    <3>3. "unknown" \in Statuses
      BY DEF Statuses
    <3>4. SameBooks(mem', mem)
      BY <3>1, <3>2, <3>3, StatusKeeps DEF SameBooks
    <3>5. mem' # None
      BY <3>1, TypedStep DEF Typed, TypeOK
    <3> QED
      BY <3>1, <3>4, <3>5 DEF MemKept
  <2>5. CASE Post
    <3>1. pc = "post" /\ pc' = "answer" /\ mem' = mem /\ mem # None
      BY <2>5, PostSends
    <3> QED
      BY <3>1 DEF MemKept, SameBooks
  <2>6. CASE Answered /\ answer # "accepted"
    <3>1. pc = "answer" /\ mem # None /\ mem' \in Body
      BY <2>6, AnsweredKeeps DEF Answered, Typed, TypeOK
    <3>2. SameBooks(mem', mem)
      BY <2>6, AnsweredKeeps DEF SameBooks
    <3> QED
      BY <3>1, <3>2, ConstantsAssumption DEF MemKept
  <2> QED
    BY <2>1, <2>2, <2>3, <2>4, <2>5, <2>6 DEF Next, Place, MemTakes
<1>2. MemKept => (mem'.status = "pending" => mem.status = "pending")
  <2> SUFFICES ASSUME MemKept, mem'.status = "pending" PROVE mem.status = "pending"
    OBVIOUS
  <2>1. pc # "idle" /\ mem # None /\ mem' # None /\ pc' # "idle"
    BY TypedStep DEF MemKept, Typed, TypeOK
  <2>2. ~ Approve /\ ~ Write /\ ~ Die /\ \A read : ~ Look(read)
    BY <2>1, LookIs DEF Approve, Write, Die, Forget
  <2>3. CASE (\E c \in Cids : Fill(c)) \/ Tick \/ UNCHANGED vars \/ Post \/ (\E i \in Items : Intend(i))
    BY <2>3 DEF Fill, Tick, vars, fire, Post, Intend
  <2>4. ASSUME NEW i \in Items, Refuse(i) PROVE FALSE
    <3>1. mem' = [mem EXCEPT !.status = "unknown"] /\ mem \in Body
      BY <2>1, <2>4 DEF Refuse, Typed, TypeOK
    <3>2. mem'.status = "unknown"
      BY <3>1 DEF Body
    <3> QED
      BY <3>2
  <2>5. CASE Answered
    BY <2>5, AnsweredKeeps
  <2> QED
    BY <2>2, <2>3, <2>4, <2>5 DEF Next, Place
<1> QED
  BY <1>1, <1>2

\* A fire that places goes on with what it has in hand, unless it just began or booked an
\* order it was given.
LEMMA PlacingStep ==
  ASSUME Typed, [Next]_vars, Placing'
  PROVE  \/ Placing /\ UNCHANGED <<Session, mem, file, todo, quote>>
         \/ \E read : Begin(read)
         \/ MemTakes
<1>1. CASE Place
  <2>1. CASE Answered
    BY <2>1, AnsweredKeeps DEF Placing, MemTakes
  <2>2. CASE (\E i \in Items : Refuse(i) \/ Intend(i)) \/ Post \/ Write
    BY <2>2 DEF Refuse, Intend, Post, Write, Forget, Placing, Session
  <2> QED
    BY <1>1, <2>1, <2>2 DEF Place
<1>2. CASE Approve \/ Die \/ Tick \/ (\E c \in Cids : Fill(c)) \/ UNCHANGED vars
  <2>1. CASE Tick
    BY <2>1, TickTypes DEF fire, Placing
  <2>2. CASE Approve \/ Die \/ (\E c \in Cids : Fill(c)) \/ UNCHANGED vars
    BY <2>2 DEF Approve, Die, Fill, vars, fire, Forget, Placing, Session
  <2> QED
    BY <1>2, <2>1, <2>2
<1>3. ASSUME NEW read, Look(read) PROVE Begin(read)
  <2>1. pc = "idle"
    BY <1>3, LookIs
  <2> QED
    BY <1>3, <2>1 DEF Look, Finish, Hold, fire, Placing
<1> QED
  BY <1>1, <1>2, <1>3 DEF Next

\* While a fire runs, the file stands.
LEMMA FileStands ==
  ASSUME Typed, [Next]_vars, pc # "idle", pc' # "idle" PROVE UNCHANGED file
<1>1. ~ Approve /\ ~ FileRead /\ ~ FileWritten
  BY LookIs DEF Approve, FileRead, FileWritten, Write, Forget
<1> QED
  BY <1>1, FileStep DEF FileKept

LEMMA PostsGrow ==
  ASSUME Typed, [Next]_vars, NEW c \in Cids PROVE posts'[c] >= posts[c] /\ posts[c] \in Nat
<1>1. posts \in [Cids -> Nat]
  BY DEF Typed, TypeOK
<1>2. CASE Post
  BY <1>1, <1>2, PostSends DEF exchange
<1>3. CASE ~ Post
  <2>1. UNCHANGED posts
    <3>1. CASE Answered \/ \E i \in Items : Intend(i)
      BY <3>1 DEF Answered, Intend, exchange
    <3> QED
      BY <1>3, <3>1, Quiet DEF Typed
  <2> QED
    BY <1>1, <2>1
<1> QED
  BY <1>2, <1>3

LEMMA OrderlyStep == Typed /\ Sent /\ Tracking /\ Orderly /\ [Next]_vars => Orderly'
<1> SUFFICES ASSUME Typed, Sent, Tracking, Orderly, [Next]_vars PROVE Orderly'
  OBVIOUS
<1>1. latest \in Nat /\ latest' \in Nat /\ latest' >= latest
  <2>1. latest \in Nat
    BY DEF Typed, TypeOK
  <2>2. CASE Approve
    BY <2>1, <2>2 DEF Approve
  <2>3. CASE Place \/ Die \/ Tick \/ (\E c \in Cids : Fill(c)) \/ UNCHANGED vars
    <3>1. latest' = latest
      BY <2>3 DEF Place, Refuse, Intend, Post, Answered, Write, Die, Tick, Fill, vars
    <3> QED
      BY <2>1, <3>1
  <2>4. CASE \E read \in SUBSET Items : Look(read)
    BY <2>1, <2>4, LookIs
  <2> QED
    BY <2>2, <2>3, <2>4 DEF Next
<1>2. pc # "idle" => file # None /\ mem.id = file.id /\ mem.items = file.items /\ mem \in Body
  BY DEF Tracking, SameScenario, Typed, TypeOK
<1>3. file # None => file \in Body /\ file.id \in Nat
  BY DEF Typed, TypeOK, Body, Ids
<1>4. \A c \in Cids : c[1] \in Nat
  BY DEF Cids, Ids
<1>5. ASSUME NEW c \in Cids, venue[c] = None, venue'[c] # None
      PROVE  /\ pc = "post" /\ UNCHANGED file /\ c[1] = file.id /\ c[2] = item /\ item \in file.items
             /\ posts'[c] > 0 /\ venue'[c].filled = 0 /\ venue'[c].qty \in Nat \ {0}
  <2>1. Post /\ c = Cid(item) /\ venue'[c] = Sending(item)
    BY <1>5, Steady
  <2>2. /\ mem # None /\ item \in todo /\ item \in Items /\ pc = "post" /\ UNCHANGED file
        /\ (UNCHANGED exchange \/ posts' = [posts EXCEPT ![Cid(item)] = posts[Cid(item)] + 1])
    BY <2>1, PostSends
  <2>3. posts'[c] > 0
    BY <1>5, <2>1, <2>2 DEF exchange, Typed, TypeOK
  <2>4. c[1] = mem.id /\ c[2] = item
    BY <2>1, <2>2, CidType DEF Typed
  <2>5. item \in mem.items
    BY <2>2 DEF Tracking, SameScenario
  <2>6. venue'[c].filled = 0 /\ venue'[c].qty \in Nat \ {0}
    BY <2>1, PostSends DEF Sending, Order
  <2> QED
    BY <1>2, <2>2, <2>3, <2>4, <2>5, <2>6
<1>6. ASSUME NEW c \in Cids, venue'[c] # None
      PROVE  /\ posts'[c] > 0 /\ c[1] <= latest'
             /\ venue'[c].filled <= venue'[c].qty
             /\ venue'[c].live => venue'[c].filled < venue'[c].qty
  <2>1. CASE venue[c] # None
    <3>1. Onward(c) /\ posts'[c] >= posts[c] /\ posts[c] \in Nat
      BY <2>1, Steady, PostsGrow
    <3>2. venue[c].filled \in Nat /\ venue[c].qty \in Nat
      BY <2>1 DEF Typed, TypeOK, Order
    <3>3. /\ posts[c] > 0 /\ c[1] <= latest
          /\ venue[c].filled <= venue[c].qty /\ (venue[c].live => venue[c].filled < venue[c].qty)
      BY <2>1 DEF Orderly
    <3>4. posts'[c] > 0 /\ c[1] <= latest'
      BY <1>1, <1>4, <3>1, <3>3, <1>6, TypedStep DEF Typed, TypeOK
    <3>5. venue'[c].filled <= venue'[c].qty /\ (venue'[c].live => venue'[c].filled < venue'[c].qty)
      BY <2>1, <3>1, <3>2, <3>3 DEF Onward
    <3> QED
      BY <3>4, <3>5
  <2>2. CASE venue[c] = None
    <3>1. /\ c[1] = file.id /\ file # None
          /\ posts'[c] > 0 /\ venue'[c].filled = 0 /\ venue'[c].qty \in Nat \ {0}
      BY <1>2, <1>5, <1>6, <2>2
    <3>2. file.id <= latest
      BY <3>1 DEF Orderly
    <3> QED
      BY <1>1, <1>3, <3>1, <3>2
  <2> QED
    BY <2>1, <2>2
<1>7. /\ file' # None => file'.id <= latest'
      /\ file' # None => \A c \in OrdersFor(file.id)' : c[2] \in file'.items
  <2>1. CASE FileKept
    <3>1. file' # None => file'.id <= latest'
      BY <1>1, <1>3, <2>1 DEF FileKept, Orderly
    <3>2. ASSUME file' # None, NEW c \in OrdersFor(file.id)' PROVE c[2] \in file'.items
      <4>1. c \in Cids /\ venue'[c] # None /\ c[1] = file.id /\ file' = file
        BY <2>1, <3>2 DEF OrdersFor, FileKept
      <4>2. venue[c] # None => c \in OrdersFor(file.id)
        BY <4>1 DEF OrdersFor
      <4> QED
        BY <1>5, <3>2, <4>1, <4>2 DEF Orderly
    <3> QED
      BY <3>1, <3>2
  <2>2. CASE Approve
    <3>1. UNCHANGED venue /\ latest' = latest + 1 /\ file'.id = latest + 1
      BY <2>2 DEF Approve, exchange
    <3>2. \A c \in Cids : venue[c] # None => c[1] <= latest
      BY DEF Orderly
    <3> QED
      BY <1>1, <1>4, <3>1, <3>2 DEF OrdersFor
  <2>3. CASE FileRead
    <3>1. PICK read : Look(read) /\ SameBooks(file', Tracked(read))
      BY <2>3 DEF FileRead
    <3>2. file # None /\ read \subseteq Open(file) /\ UNCHANGED <<exchange, latest>>
      BY <3>1, LookIs
    <3>3. file'.id = file.id /\ file'.items = file.items
      BY <3>1, <3>2, TrackedIs DEF SameBooks
    <3> QED
      BY <3>2, <3>3 DEF exchange, OrdersFor, Orderly
  <2>4. CASE FileWritten
    <3>1. file' = mem /\ pc # "idle" /\ UNCHANGED <<venue, latest>>
      BY <2>4 DEF FileWritten, Write, exchange
    <3>2. file'.id = file.id /\ file'.items = file.items /\ file # None
      BY <1>2, <3>1
    <3> QED
      BY <3>1, <3>2 DEF OrdersFor, Orderly
  <2> QED
    BY <2>1, <2>2, <2>3, <2>4, FileStep
<1>8. pc' # "idle" => mem'.cap = file'.cap
  <2> SUFFICES ASSUME pc' # "idle" PROVE mem'.cap = file'.cap
    OBVIOUS
  <2>1. CASE MemKept
    BY <2>1, FileStands DEF MemKept, SameBooks, Orderly
  <2>2. CASE MemRead
    <3>1. PICK read : Look(read) /\ SameBooks(mem', Tracked(read)) /\ UNCHANGED file
      BY <2>2 DEF MemRead
    <3>2. file # None /\ read \subseteq Open(file)
      BY <3>1, LookIs
    <3> QED
      BY <3>1, <3>2, TrackedIs DEF SameBooks
  <2>3. CASE MemTakes
    BY <2>3, AnsweredKeeps DEF MemTakes, Answered, Orderly
  <2> QED
    BY <2>1, <2>2, <2>3, MemStep
<1>9. Placing' => mem'.status = "pending"
  <2> SUFFICES ASSUME Placing' PROVE mem'.status = "pending"
    OBVIOUS
  <2>1. CASE Placing /\ UNCHANGED mem
    BY <2>1 DEF Orderly
  <2>2. ASSUME NEW read, Begin(read) PROVE mem'.status = "pending"
    <3>1. /\ file # None /\ read \subseteq Open(file) /\ mem' = Tried(Tracked(read))
          /\ Tracked(read).status = "pending"
      BY <2>2 DEF Begin, Fires
    <3>2. Tracked(read) \in Body
      BY <3>1, TrackedTypes
    <3> QED
      BY <3>1, <3>2, TriedKeeps DEF Typed
  <2>3. CASE MemTakes
    BY <2>3, AnsweredKeeps DEF MemTakes, Answered, Orderly, Placing
  <2> QED
    BY <2>1, <2>2, <2>3, PlacingStep
<1> QED
  BY <1>6, <1>7, <1>8, <1>9 DEF Orderly

-----------------------------------------------------------------------------
(* What a scenario has open is an order the exchange took, on those terms.  *)

\* The exchange has the order of c, and accepted it.
Taken(c) == venue[c] # None /\ Accepted(c)

\* What the scenario has open of an item is that order of its own.
HeldOrder(body, i) ==
  /\ body.open[i].cid[1] = body.id /\ body.open[i].cid[2] = i /\ Accepted(body.open[i].cid)
  /\ venue[body.open[i].cid].qty = body.open[i].qty
  /\ venue[body.open[i].cid].price = body.open[i].price

HeldRight(body) == body # None => \A i \in Items : body.open[i] # None => HeldOrder(body, i)

\* An accepted order went out as the fire has it in hand.
Answering ==
  answer = "accepted" => /\ venue[Cid(item)].qty = Remaining(mem, item)
                         /\ venue[Cid(item)].price = quote[item]

Holdings == HeldRight(file) /\ HeldRight(mem) /\ Answering

LEMMA TakenStep ==
  ASSUME Typed, Sent, Tracking, Orderly, [Next]_vars, NEW c \in Cids
  PROVE  /\ Accepted(c) => Accepted(c)'
         /\ Taken(c) => Taken(c)'
         /\ Taken(c)' => Taken(c) \/ (MemTakes /\ c = Cid(item))
<1>1. /\ Accepted(c) => Accepted(c)'
      /\ Accepted(c)' => Accepted(c) \/ (MemTakes /\ c = Cid(item))
      /\ Post => (Accepted(c)' <=> Accepted(c))
  <2>1. ASSUME NEW i \in Items, Intend(i) PROVE Accepted(c)' <=> Accepted(c)
    BY <2>1, Logged DEF Intend
  <2>2. CASE Answered
    <3>1. Accepted(c)' <=> Accepted(c) \/ (c = Cid(item) /\ answer = "accepted")
      BY <2>2, Logged DEF Answered
    <3>2. ~ Post
      BY <2>2 DEF Answered, Post
    <3> QED
      BY <2>2, <3>1, <3>2 DEF MemTakes
  <2>3. CASE ~ Answered /\ \A i \in Items : ~ Intend(i)
    <3>1. UNCHANGED journal
      BY <2>3, Quiet, PostSends DEF Typed
    <3> QED
      BY <3>1 DEF Accepted
  <2>4. ASSUME NEW i \in Items, Intend(i) PROVE ~ Post
    BY <2>4 DEF Intend, Post
  <2> QED
    BY <2>1, <2>2, <2>3, <2>4
<1>2. venue[c] # None => venue'[c] # None
  BY Steady DEF Onward
<1>3. venue'[c] # None => venue[c] # None \/ (Post /\ ~ Accepted(c))
  <2>1. Post => ~ Accepted(Cid(item))
    BY DEF Tracking, Post
  <2> QED
    BY <2>1, Steady
<1> QED
  BY <1>1, <1>2, <1>3 DEF Taken

LEMMA HeldKept ==
  ASSUME Typed, Sent, Tracking, Orderly, [Next]_vars,
         NEW body \in Body, HeldRight(body), Placed(body),
         NEW new \in Body, new.id = body.id,
         \A i \in Items : new.open[i] = None \/ new.open[i] = body.open[i]
  PROVE  HeldRight(new)'
<1> SUFFICES ASSUME NEW i \in Items, new.open[i] # None PROVE HeldOrder(new, i)'
  BY DEF HeldRight
<1> DEFINE c == body.open[i].cid
<1>1. new.open[i] = body.open[i] /\ body.open[i] # None /\ body # None
  BY ConstantsAssumption
<1>2. HeldOrder(body, i) /\ venue[c] # None
  BY <1>1 DEF HeldRight, Placed
<1>3. c \in Cids
  BY <1>1 DEF Body, Held
<1>4. Onward(c) /\ Accepted(c)'
  BY <1>2, <1>3, Steady, TakenStep DEF HeldOrder
<1> QED
  BY <1>1, <1>2, <1>4 DEF HeldOrder, Onward

LEMMA AnsweringStep == Typed /\ Sent /\ Orderly /\ Answering /\ [Next]_vars => Answering'
<1> SUFFICES ASSUME Typed, Sent, Orderly, Answering, [Next]_vars, answer' = "accepted"
             PROVE  /\ venue'[(Cid(item))'].qty = (Remaining(mem, item))'
                    /\ venue'[(Cid(item))'].price = quote'[item']
  BY DEF Answering
<1>1. pc' = "answer"
  BY TypedStep, ConstantsAssumption DEF Typed, TypeOK, Outcomes
<1>2. CASE Post
  <2>1. UNCHANGED <<day, part, mem, item, quote>> /\ Cid(item) \in Cids
    BY <1>2, PostSends
  <2>2. venue' = [venue EXCEPT ![Cid(item)] = Sending(item)]
    BY <1>2 DEF Post, Reach, Sending
  <2>3. venue'[Cid(item)] = Sending(item)
    BY <2>1, <2>2 DEF Typed, TypeOK
  <2>4. (Cid(item))' = Cid(item) /\ (Remaining(mem, item))' = Remaining(mem, item)
    BY <2>1 DEF Cid, CidOf, Session, Remaining
  <2> QED
    BY <2>1, <2>3, <2>4 DEF Sending
<1>3. CASE ~ Post
  <2>1. pc = "answer" /\ UNCHANGED <<Session, mem, item, quote, answer>>
    <3>1. CASE Place
      BY <1>1, <1>3, <3>1, AnsweredKeeps DEF Place, Refuse, Intend, Write, Forget
    <3>2. CASE Approve \/ Die \/ (\E c \in Cids : Fill(c)) \/ UNCHANGED vars
      BY <1>1, <3>2 DEF Approve, Die, Forget, Fill, fire, vars, Session
    <3>3. ASSUME NEW read, Look(read) PROVE FALSE
      BY <1>1, <3>3 DEF Look, Finish, Hold, Begin, Fires, fire
    <3>4. CASE Tick
      BY <1>1, <3>4, TickTypes DEF fire
    <3> QED
      BY <3>1, <3>2, <3>3, <3>4 DEF Next
  <2>2. (Cid(item))' = Cid(item) /\ (Remaining(mem, item))' = Remaining(mem, item)
    BY <2>1 DEF Cid, CidOf, Remaining
  <2>3. mem # None /\ item \in Items /\ venue[Cid(item)] # None
    BY <2>1 DEF Typed, TypeOK, Hand
  <2>4. Cid(item) \in Cids
    BY <2>3, CidType DEF Typed
  <2>5. Onward(Cid(item))
    BY <2>3, <2>4, Steady
  <2> QED
    BY <2>1, <2>2, <2>3, <2>5 DEF Answering, Onward
<1> QED
  BY <1>2, <1>3

LEMMA HoldingsStep == Typed /\ Sent /\ Tracking /\ Orderly /\ Holdings /\ [Next]_vars => Holdings'
<1> SUFFICES ASSUME Typed, Sent, Tracking, Orderly, Holdings, [Next]_vars PROVE Holdings'
  OBVIOUS
<1>1. /\ file # None => file \in Body /\ Placed(file) /\ HeldRight(file)
      /\ mem # None => mem \in Body /\ Placed(mem) /\ HeldRight(mem)
      /\ file' # None => file' \in Body
      /\ mem' # None => mem' \in Body
  BY TypedStep DEF Typed, TypeOK, Holdings
<1>2. ASSUME NEW read, Look(read), NEW new \in Body, SameBooks(new, Tracked(read))
      PROVE  HeldRight(new)'
  <2>1. file # None /\ read \subseteq Open(file)
    BY <1>2, LookIs
  <2>2. new.id = file.id /\ \A i \in Items : new.open[i] = None \/ new.open[i] = file.open[i]
    BY <1>2, <2>1, TrackedTypes DEF SameBooks
  <2> QED
    BY <1>1, <2>1, <2>2, HeldKept
<1>3. HeldRight(file)'
  <2> SUFFICES ASSUME file' # None, NEW new \in Body, new = file' PROVE HeldRight(new)'
    BY <1>1 DEF HeldRight, HeldOrder
  <2>1. CASE FileKept
    BY <1>1, <2>1, HeldKept DEF FileKept
  <2>2. CASE Approve
    <3>1. \A i \in Items : new.open[i] = None
      BY <2>2 DEF Approve
    <3> QED
      BY <3>1 DEF HeldRight
  <2>3. CASE FileRead
    BY <1>2, <2>3 DEF FileRead
  <2>4. CASE FileWritten
    BY <1>1, <2>4, HeldKept DEF FileWritten
  <2> QED
    BY <2>1, <2>2, <2>3, <2>4, FileStep
<1>4. HeldRight(mem)'
  <2> SUFFICES ASSUME mem' # None, NEW new \in Body, new = mem' PROVE HeldRight(new)'
    BY <1>1 DEF HeldRight, HeldOrder
  <2>1. pc' # "idle"
    BY TypedStep DEF Typed, TypeOK
  <2>2. CASE MemKept
    BY <1>1, <2>2, HeldKept DEF MemKept, SameBooks
  <2>3. CASE MemRead
    BY <1>2, <2>3 DEF MemRead
  <2>4. CASE MemTakes
    <3>1. /\ mem # None /\ item \in todo /\ item \in Items /\ new.id = mem.id
          /\ new.open = [mem.open EXCEPT ![item] = Accepting(item)] /\ UNCHANGED venue
          /\ Log(item, "accepted")
      BY <2>4, AnsweredKeeps DEF MemTakes, Answered, exchange, Typed, TypeOK, Hand
    <3>2. mem.open \in [Items -> Held \cup {None}]
      BY <1>1, <3>1 DEF Body
    <3>3. ASSUME NEW i \in Items, i # item, new.open[i] # None PROVE HeldOrder(new, i)'
      <4>1. new.open[i] = mem.open[i] /\ mem.open[i].cid \in Cids /\ HeldOrder(mem, i)
        BY <1>1, <3>1, <3>2, <3>3 DEF HeldRight, Held
      <4>2. Accepted(mem.open[i].cid)'
        BY <4>1, TakenStep DEF HeldOrder
      <4> QED
        BY <3>1, <4>1, <4>2 DEF HeldOrder
    <3>4. ASSUME NEW i \in Items, i = item PROVE HeldOrder(new, i)'
      <4>1. new.open[item] = Accepting(item)
        BY <3>1, <3>2
      <4>2. Cid(item)[1] = mem.id /\ Cid(item)[2] = item
        BY <3>1, CidType DEF Typed
      <4>3. PICK c : c = Cid(item)
        OBVIOUS
      <4>4. Accepted(c)'
        BY <3>1, <4>3, Logged
      <4>5. venue[c].qty = Remaining(mem, item) /\ venue[c].price = quote[item]
        BY <2>4, <4>3 DEF MemTakes, Holdings, Answering
      <4> QED
        BY <3>1, <3>4, <4>1, <4>2, <4>3, <4>4, <4>5 DEF HeldOrder, Accepting
    <3> QED
      BY <3>3, <3>4 DEF HeldRight
  <2> QED
    BY <2>1, <2>2, <2>3, <2>4, MemStep
<1>5. Answering'
  BY AnsweringStep DEF Holdings
<1> QED
  BY <1>3, <1>4, <1>5 DEF Holdings

-----------------------------------------------------------------------------
(* The books: what was booked of an item is what its settled orders filled.  *)

Ledger == Typed /\ Sent /\ Tracking /\ Budget /\ Orderly /\ Holdings

LEMMA LedgerStep == Ledger /\ [Next]_vars => Ledger'
BY TypedStep, SentStep, TrackingStep, BudgetStep, OrderlyStep, HoldingsStep DEF Ledger

\* The shares and the won an order filled.
Fills == [c \in Cids |-> IF venue[c] = None THEN 0 ELSE venue[c].filled]
Costs == [c \in Cids |-> IF venue[c] = None THEN 0 ELSE venue[c].filled * venue[c].price]

\* An order of the item that the scenario is done with.
Done(body, i, c) == c \in Cids /\ c[1] = body.id /\ c[2] = i /\ Taken(c) /\ ~ OpenIn(body, c)

LEMMA SettledIs ==
  ASSUME NEW body, body # None, NEW i, NEW c
  PROVE  c \in Settled(body, i) <=> Done(body, i, c)
BY DEF Settled, OrdersOf, Done, OpenIn, Taken

\* What the file has to have booked of an item, and what the fire in hand.
Written(i) == {c \in Cids : Done(file, i, c) /\ ~ OpenIn(mem, c)}
Shut(i)    == {c \in Cids : Done(mem, i, c)}

FileBooked(i) == /\ file.filled[i] = SumFunctionOnSet(Fills, Written(i))
                 /\ file.spent[i] = SumFunctionOnSet(Costs, Written(i))
MemBooked(i)  == /\ mem.filled[i] = SumFunctionOnSet(Fills, Shut(i))
                 /\ mem.spent[i] = SumFunctionOnSet(Costs, Shut(i))

Books ==
  /\ file # None /\ file.id \notin lost => \A i \in Items : FileBooked(i)
  /\ mem # None /\ mem.id \notin lost => \A i \in Items : MemBooked(i)

LEMMA OrdersSum ==
  ASSUME Ledger, NEW S, S \subseteq Cids, \A c \in S : venue[c] # None
  PROVE  Summable(Fills, S) /\ Summable(Costs, S)
<1>1. IsFiniteSet(S)
  <2>1. S \subseteq {c \in Cids : venue[c] # None}
    OBVIOUS
  <2> QED
    BY <2>1, FinitelyMany, FS_Subset DEF Ledger
<1>2. ASSUME NEW c \in S PROVE Fills[c] \in Nat /\ Costs[c] \in Nat
  <2>1. venue[c].filled \in Nat /\ venue[c].price \in Nat
    BY ConstantsAssumption DEF Ledger, Typed, TypeOK, Order
  <2>2. Fills[c] = venue[c].filled /\ Costs[c] = venue[c].filled * venue[c].price
    BY DEF Fills, Costs
  <2>3. \A a \in Nat, b \in Nat : a * b \in Nat
    OBVIOUS
  <2> QED
    BY <2>1, <2>2, <2>3
<1> QED
  BY <1>1, <1>2 DEF Summable

\* What closed orders filled stays what it is.
LEMMA StillSums ==
  ASSUME Ledger, [Next]_vars, NEW S, S \subseteq Cids, \A c \in S : venue[c] # None /\ ~ venue[c].live
  PROVE  /\ SumFunctionOnSet(Fills, S)' = SumFunctionOnSet(Fills, S)
         /\ SumFunctionOnSet(Costs, S)' = SumFunctionOnSet(Costs, S)
<1>1. Summable(Fills, S) /\ Summable(Costs, S)
  BY OrdersSum
<1>2. ASSUME NEW c \in S PROVE Fills'[c] = Fills[c] /\ Costs'[c] = Costs[c]
  <2>1. Onward(c)
    BY Steady DEF Ledger
  <2> QED
    BY <2>1 DEF Onward, Fills, Costs
<1>3. PICK f, g : f = Fills' /\ g = Costs'
  OBVIOUS
<1>4. SumFunctionOnSet(f, S) = SumFunctionOnSet(Fills, S) /\ SumFunctionOnSet(g, S) = SumFunctionOnSet(Costs, S)
  BY <1>1, <1>2, <1>3, SumSame
<1> QED
  BY <1>3, <1>4

LEMMA WrittenStill ==
  ASSUME Ledger, file # None, file.id \notin lost, NEW i \in Items, NEW c \in Written(i)
  PROVE  c \in Cids /\ venue[c] # None /\ ~ venue[c].live
<1>1. /\ c \in Cids /\ c[1] = file.id /\ venue[c] # None /\ Accepted(c)
      /\ ~ OpenIn(file, c) /\ ~ OpenIn(mem, c)
  BY DEF Written, Done, Taken
<1>2. ~ LiveAt(c)
  BY <1>1 DEF Ledger, Tracking
<1> QED
  BY <1>1, <1>2 DEF LiveAt

LEMMA ShutStill ==
  ASSUME Ledger, mem # None, mem.id \notin lost, NEW i \in Items, NEW c \in Shut(i)
  PROVE  c \in Cids /\ venue[c] # None /\ ~ venue[c].live
<1>1. c \in Cids /\ c[1] = mem.id /\ venue[c] # None /\ Accepted(c) /\ ~ OpenIn(mem, c) /\ pc # "idle"
  BY DEF Shut, Done, Taken, Ledger, Typed, TypeOK
<1>2. ~ LiveAt(c)
  BY <1>1 DEF Ledger, Tracking
<1> QED
  BY <1>1, <1>2 DEF LiveAt

\* Reading back adds to the books what the orders it closes have filled.
LEMMA ReadBooks ==
  ASSUME Ledger, Books, NEW read, Look(read), NEW new \in Body, SameBooks(new, Tracked(read)),
         file.id \notin lost, NEW i \in Items, NEW S, \A c : c \in S <=> Done(new, i, c)
  PROVE  /\ new.filled[i] = SumFunctionOnSet(Fills, S) /\ new.spent[i] = SumFunctionOnSet(Costs, S)
         /\ \A c \in S : venue[c] # None /\ ~ venue[c].live
<1>1. file # None /\ file \in Body /\ read \subseteq Open(file) /\ pc = "idle" /\ mem = None
  BY LookIs DEF Ledger
<1>2. file.filled[i] = SumFunctionOnSet(Fills, Written(i)) /\ file.spent[i] = SumFunctionOnSet(Costs, Written(i))
  BY <1>1 DEF Books, FileBooked
<1>3. \A c : c \in Written(i) <=> Done(file, i, c)
  BY <1>1 DEF Written, OpenIn, Done
<1>4. new.id = file.id /\ new # None
  BY <1>1, TrackedTypes, ConstantsAssumption DEF SameBooks, Ledger
<1>5. /\ new.filled[i] = IF i \in Closed(read) THEN file.filled[i] + venue[file.open[i].cid].filled
                         ELSE file.filled[i]
      /\ new.spent[i] = IF i \in Closed(read)
                        THEN file.spent[i] + venue[file.open[i].cid].filled * file.open[i].price
                        ELSE file.spent[i]
      /\ new.open[i] = IF i \in Closed(read) THEN None ELSE file.open[i]
  <2>1. /\ new.filled =
             [j \in Items |-> IF j \in Closed(read)
                              THEN file.filled[j] + venue[file.open[j].cid].filled ELSE file.filled[j]]
        /\ new.spent =
             [j \in Items |-> IF j \in Closed(read)
                              THEN file.spent[j] + venue[file.open[j].cid].filled * file.open[j].price
                              ELSE file.spent[j]]
        /\ new.open = [j \in Items |-> IF j \in Closed(read) THEN None ELSE file.open[j]]
    BY <1>1, TrackedIs DEF SameBooks, Ledger
  <2> QED
    BY <2>1
<1>6. \A c \in Written(i) : c \in Cids /\ venue[c] # None /\ ~ venue[c].live
  BY <1>1, WrittenStill
<1>7. CASE i \notin Closed(read)
  <2>1. \A c : Done(new, i, c) <=> Done(file, i, c)
    BY <1>1, <1>4, <1>5, <1>7 DEF Done, OpenIn
  <2>2. S = Written(i)
    BY <1>3, <2>1
  <2> QED
    BY <1>2, <1>5, <1>6, <1>7, <2>2
<1>8. CASE i \in Closed(read)
  <2> DEFINE h == file.open[i].cid
  <2>1. file.open[i] # None /\ file.open[i] \in Held /\ venue[h] # None /\ ~ venue[h].live
    BY <1>1, <1>8, TrackedIs DEF Ledger
  <2>2. HeldOrder(file, i)
    BY <1>1, <2>1 DEF Ledger, Holdings, HeldRight
  <2>3. h \in Cids /\ h[1] = file.id /\ h[2] = i /\ Accepted(h) /\ venue[h].price = file.open[i].price
    BY <2>1, <2>2 DEF Held, HeldOrder
  <2>4. \A c : Done(new, i, c) <=> Done(file, i, c) \/ c = h
    BY <1>1, <1>4, <1>5, <1>8, <2>1, <2>3 DEF Done, OpenIn, Taken
  <2>5. ~ Done(file, i, h)
    BY <1>1, <2>1, <2>3 DEF Done, OpenIn
  <2>6. S = Written(i) \cup {h} /\ h \notin Written(i)
    BY <1>3, <2>4, <2>5
  <2>7. /\ Summable(Fills, Written(i)) /\ Summable(Costs, Written(i))
        /\ Summable(Fills, S) /\ Summable(Costs, S)
    BY <1>6, <2>1, <2>3, <2>6, OrdersSum
  <2>8. Fills[h] = venue[h].filled /\ Costs[h] = venue[h].filled * file.open[i].price
    BY <2>1, <2>3 DEF Fills, Costs
  <2>9. Fills[h] \in Nat /\ Costs[h] \in Nat
    BY <2>6, <2>7 DEF Summable
  <2>10. /\ SumFunctionOnSet(Fills, S) = Fills[h] + SumFunctionOnSet(Fills, Written(i))
         /\ SumFunctionOnSet(Costs, S) = Costs[h] + SumFunctionOnSet(Costs, Written(i))
    BY <2>6, <2>7, <2>9, SumAdd
  <2>11. SumFunctionOnSet(Fills, Written(i)) \in Nat /\ SumFunctionOnSet(Costs, Written(i)) \in Nat
    BY <2>7, SumType
  <2>12. \A c \in S : venue[c] # None /\ ~ venue[c].live
    BY <1>6, <2>1, <2>6
  <2>13. new.filled[i] = file.filled[i] + Fills[h] /\ new.spent[i] = file.spent[i] + Costs[h]
    BY <1>5, <1>8, <2>8
  <2> QED
    BY <1>2, <2>9, <2>10, <2>11, <2>12, <2>13
<1> QED
  BY <1>7, <1>8

\* A fire ends with its write or its death; one that dies and forgets no order has in hand
\* only orders the file has.
LEMMA FireEnds ==
  ASSUME Ledger, [Next]_vars, pc # "idle", pc' = "idle"
  PROVE  Write \/ (/\ Die /\ UNCHANGED file
                   /\ mem.id \notin lost' =>
                        /\ lost' = lost /\ Unwritten = {}
                        /\ \A c \in Cids : OpenIn(mem, c) => OpenIn(file, c))
<1>1. Write \/ Die
  <2>1. ~ Approve /\ ~ Tick /\ ~ Post /\ ~ Answered /\ ~ UNCHANGED vars /\ \A read : ~ Look(read)
    BY LookIs, AnsweredKeeps DEF Approve, Tick, fire, Post, Answered, vars, Ledger
  <2>2. \A i \in Items : ~ Refuse(i) /\ ~ Intend(i)
    BY DEF Refuse, Intend
  <2>3. \A c \in Cids : ~ Fill(c)
    BY DEF Fill, fire
  <2> QED
    BY <2>1, <2>2, <2>3 DEF Next, Place
<1>2. ASSUME Die, mem.id \notin lost' PROVE lost' = lost /\ Unwritten = {}
  BY <1>2 DEF Die
<1>3. ASSUME Unwritten = {}, NEW c \in Cids, OpenIn(mem, c) PROVE OpenIn(file, c)
  <2>1. OpenIn(file, c) \/ (c = Cid(c[2]) /\ posts[c] > 0)
    BY <1>3 DEF Ledger, Tracking
  <2>2. CASE c = Cid(c[2]) /\ posts[c] > 0
    <3>1. c[2] \in Items
      BY DEF Cids
    <3>2. file.open[c[2]] # None /\ file.open[c[2]].cid = c
      BY <1>3, <2>2, <3>1 DEF Unwritten
    <3>3. file # None /\ mem.id = file.id
      BY DEF Ledger, Tracking, SameScenario
    <3> QED
      BY <1>3, <3>2, <3>3 DEF OpenIn
  <2> QED
    BY <2>1, <2>2
<1>4. Die => UNCHANGED file
  BY DEF Die
<1> QED
  BY <1>1, <1>2, <1>3, <1>4

LEMMA LostGrows == ASSUME Typed, [Next]_vars PROVE lost \subseteq lost'
<1>1. CASE Die
  BY <1>1 DEF Die
<1>2. CASE Approve \/ Place \/ Tick \/ (\E c \in Cids : Fill(c)) \/ UNCHANGED vars
  BY <1>2 DEF Approve, Place, Refuse, Intend, Post, Answered, Write, Tick, Fill, vars
<1>3. CASE \E read \in SUBSET Items : Look(read)
  BY <1>3, LookIs
<1> QED
  BY <1>1, <1>2, <1>3 DEF Next

\* The order a fire books is one it had not, and of an item it had nothing open of.
LEMMA Takes ==
  ASSUME Ledger, MemTakes
  PROVE  /\ mem # None /\ mem \in Body /\ item \in Items /\ item \in todo /\ mem.open[item] = None
         /\ Cid(item) \in Cids /\ Cid(item)[1] = mem.id /\ Cid(item)[2] = item
         /\ ~ Taken(Cid(item)) /\ mem'.id = mem.id /\ mem' # None
         /\ mem'.open = [mem.open EXCEPT ![item] = Accepting(item)]
         /\ \A c \in Cids : OpenIn(mem', c) <=> OpenIn(mem, c) \/ c = Cid(item)
         /\ UNCHANGED <<file, lost, venue>> /\ pc = "answer" /\ pc' = "next"
<1>1. /\ mem # None /\ mem \in Body /\ item \in Items /\ item \in todo /\ mem.open[item] = None
      /\ pc = "answer" /\ UNCHANGED <<file, lost, venue>>
  BY DEF MemTakes, Answered, exchange, Ledger, Typed, TypeOK, Hand
<1>2. Cid(item) \in Cids /\ Cid(item)[1] = mem.id /\ Cid(item)[2] = item
  BY <1>1, CidType DEF Ledger, Typed
<1>3. ~ Taken(Cid(item))
  BY <1>1 DEF Ledger, Tracking, Taken
<1>4. /\ mem' \in Body /\ mem'.id = mem.id /\ pc' = "next"
      /\ mem'.open = [mem.open EXCEPT ![item] = Accepting(item)]
  BY AnsweredKeeps DEF MemTakes, Ledger
<1>5. mem' # None
  BY <1>4, ConstantsAssumption
<1>6. Accepting(item).cid = Cid(item) /\ Accepting(item) # None
  BY <1>1, AcceptingType DEF Ledger, Typed
<1>7. ASSUME NEW c \in Cids PROVE OpenIn(mem', c) <=> OpenIn(mem, c) \/ c = Cid(item)
  <2>1. c[2] \in Items /\ mem.open \in [Items -> Held \cup {None}]
    BY <1>1 DEF Cids, Body
  <2>2. mem'.open[c[2]] = IF c[2] = item THEN Accepting(item) ELSE mem.open[c[2]]
    BY <1>4, <2>1
  <2> QED
    BY <1>1, <1>2, <1>4, <1>5, <1>6, <2>2 DEF OpenIn
<1> QED
  BY <1>1, <1>2, <1>3, <1>4, <1>5, <1>7

LEMMA BooksFile ==
  ASSUME Ledger, Books, [Next]_vars, file' # None, file'.id \notin lost', NEW i \in Items
  PROVE  FileBooked(i)'
<1>1. lost \subseteq lost'
  BY LostGrows DEF Ledger
<1>2. \A c \in Cids : (Taken(c) => Taken(c)') /\ (Taken(c)' => Taken(c) \/ (MemTakes /\ c = Cid(item)))
  BY TakenStep DEF Ledger
<1>3. mem = None <=> pc = "idle"
  BY DEF Ledger, Typed, TypeOK
<1>4. mem' = None <=> pc' = "idle"
  BY TypedStep DEF Ledger, Typed, TypeOK
\* The fields that are booked, and over which orders: enough that this set stands or is read.
<1>5. ASSUME NEW S, S = Written(i)', \A c \in S : c \in Cids /\ venue[c] # None /\ ~ venue[c].live,
             file'.filled[i] = SumFunctionOnSet(Fills, S), file'.spent[i] = SumFunctionOnSet(Costs, S)
      PROVE  FileBooked(i)'
  <2>1. /\ SumFunctionOnSet(Fills, S)' = SumFunctionOnSet(Fills, S)
        /\ SumFunctionOnSet(Costs, S)' = SumFunctionOnSet(Costs, S)
    BY <1>5, StillSums
  <2> QED
    BY <1>5, <2>1 DEF FileBooked
<1>6. CASE FileWritten
  <2>1. file' = mem /\ pc # "idle" /\ mem' = None /\ mem # None /\ mem.id \notin lost
    BY <1>1, <1>3, <1>6 DEF FileWritten, Write, Forget
  <2>2. ~ MemTakes
    BY <1>6 DEF FileWritten, Write, MemTakes, Answered
  <2>3. \A c \in Cids : Taken(c)' <=> Taken(c)
    BY <1>2, <2>2
  <2>4. Written(i)' = Shut(i)
    BY <2>1, <2>3 DEF Written, Shut, Done, OpenIn
  <2>5. \A c \in Shut(i) : c \in Cids /\ venue[c] # None /\ ~ venue[c].live
    BY <2>1, ShutStill
  <2> QED
    BY <1>5, <2>1, <2>4, <2>5 DEF Books, MemBooked
<1>7. CASE FileKept /\ ~ FileWritten
  <2>1. file' = file /\ file # None /\ file.id \notin lost
    BY <1>1, <1>7 DEF FileKept
  <2>2. \A c \in Written(i) : c \in Cids /\ venue[c] # None /\ ~ venue[c].live
    BY <2>1, WrittenStill
  <2>3. ASSUME NEW c \in Cids, c[1] = file.id, c[2] = i, ~ OpenIn(file, c)
        PROVE  Taken(c)' /\ ~ OpenIn(mem', c) <=> Taken(c) /\ ~ OpenIn(mem, c)
    <3>1. CASE MemTakes
      BY <1>2, <3>1, Takes
    <3>2. CASE ~ MemTakes
      <4>1. Taken(c)' <=> Taken(c)
        BY <1>2, <3>2
      <4>2. OpenIn(mem', c) <=> OpenIn(mem, c)
        <5>1. CASE pc' = "idle"
          <6>1. ~ OpenIn(mem', c)
            BY <1>4, <5>1 DEF OpenIn
          <6>2. ~ OpenIn(mem, c)
            <7>1. CASE pc = "idle"
              BY <1>3, <7>1 DEF OpenIn
            <7>2. CASE pc # "idle"
              <8>1. ~ Write
                BY <1>7 DEF FileWritten, Write
              <8>2. mem.id = file.id
                BY <7>2 DEF Ledger, Tracking, SameScenario
              <8> QED
                BY <2>1, <2>3, <5>1, <7>2, <8>1, <8>2, FireEnds
            <7> QED
              BY <7>1, <7>2
          <6> QED
            BY <6>1, <6>2
        <5>2. CASE MemKept
          BY <5>2 DEF MemKept, SameBooks, OpenIn
        <5>3. CASE MemRead
          <6>1. PICK read : Look(read) /\ mem' \in Body /\ SameBooks(mem', Tracked(read))
            BY <5>3 DEF MemRead
          <6>2. file # None /\ read \subseteq Open(file) /\ mem = None /\ pc = "idle"
            BY <6>1, LookIs DEF Ledger
          <6>3. OpenIn(mem', c) => OpenIn(Tracked(read), c)
            BY <6>1, <6>2, TrackedTypes, ConstantsAssumption DEF SameBooks, OpenIn, Ledger
          <6>4. OpenIn(Tracked(read), c) => OpenIn(file, c)
            BY <6>2, TrackedKeeps DEF Ledger
          <6> QED
            BY <2>3, <6>2, <6>3, <6>4 DEF OpenIn
        <5> QED
          BY <3>2, <5>1, <5>2, <5>3, MemStep DEF Ledger
      <4> QED
        BY <4>1, <4>2
    <3> QED
      BY <3>1, <3>2
  <2>4. Written(i)' = Written(i)
    <3>1. \A c \in Cids : OpenIn(file, c)' <=> OpenIn(file, c)
      BY <2>1 DEF OpenIn
    <3>2. \A c \in Cids : OpenIn(mem, c)' <=> OpenIn(mem', c)
      BY DEF OpenIn
    <3> QED
      BY <2>1, <2>3, <3>1, <3>2 DEF Written, Done
  <2> QED
    BY <1>5, <2>1, <2>2, <2>4 DEF Books, FileBooked
<1>8. CASE Approve
  <2>1. /\ file'.id = latest + 1 /\ file'.filled = [j \in Items |-> 0] /\ file'.spent = [j \in Items |-> 0]
    BY <1>8 DEF Approve
  <2>2. ~ MemTakes
    BY <1>8 DEF Approve, MemTakes, Answered
  <2>3. \A c \in Cids : Taken(c)' => c[1] <= latest
    BY <1>2, <2>2 DEF Taken, Ledger, Orderly
  <2>4. \A c \in Cids : c[1] \in Nat /\ latest \in Nat
    BY DEF Cids, Ids, Ledger, Typed, TypeOK
  <2>5. Written(i)' = {}
    BY <2>1, <2>3, <2>4 DEF Written, Done
  <2>6. SumFunctionOnSet(Fills, {}) = 0 /\ SumFunctionOnSet(Costs, {}) = 0
    BY SumEmpty
  <2> QED
    BY <1>5, <2>1, <2>5, <2>6
<1>9. CASE FileRead
  <2>1. PICK read : Look(read) /\ file' \in Body /\ SameBooks(file', Tracked(read)) /\ UNCHANGED fire
    BY <1>9 DEF FileRead
  <2>2. pc = "idle" /\ mem' = None /\ file # None /\ read \subseteq Open(file) /\ lost' = lost
    BY <1>3, <2>1, LookIs DEF fire, Ledger
  <2>3. file'.id = file.id
    BY <2>1, <2>2, TrackedTypes DEF SameBooks, Ledger
  <2>4. ~ MemTakes
    BY <2>2 DEF MemTakes, Answered
  <2>5. \A c : c \in Written(i)' <=> Done(file', i, c)
    <3>1. \A c \in Cids : Taken(c)' <=> Taken(c)
      BY <1>2, <2>4
    <3> QED
      BY <2>2, <3>1 DEF Written, Done, OpenIn
  <2>6. PICK S, new : S = Written(i)' /\ new = file' /\ new \in Body
    BY <2>1
  <2>7. /\ new.filled[i] = SumFunctionOnSet(Fills, S) /\ new.spent[i] = SumFunctionOnSet(Costs, S)
        /\ \A c \in S : venue[c] # None /\ ~ venue[c].live
    BY <2>1, <2>2, <2>3, <2>5, <2>6, ReadBooks
  <2>8. \A c \in S : c \in Cids
    BY <2>5, <2>6 DEF Done
  <2> QED
    BY <1>5, <2>6, <2>7, <2>8
<1> QED
  BY <1>6, <1>7, <1>8, <1>9, FileStep DEF Ledger

LEMMA BooksMem ==
  ASSUME Ledger, Books, [Next]_vars, mem' # None, mem'.id \notin lost', NEW i \in Items
  PROVE  MemBooked(i)'
<1>1. lost \subseteq lost'
  BY LostGrows DEF Ledger
<1>2. \A c \in Cids : (Taken(c) => Taken(c)') /\ (Taken(c)' => Taken(c) \/ (MemTakes /\ c = Cid(item)))
  BY TakenStep DEF Ledger
<1>3. pc' # "idle"
  BY TypedStep DEF Ledger, Typed, TypeOK
<1>4. ASSUME NEW S, S = Shut(i)', \A c \in S : c \in Cids /\ venue[c] # None /\ ~ venue[c].live,
             mem'.filled[i] = SumFunctionOnSet(Fills, S), mem'.spent[i] = SumFunctionOnSet(Costs, S)
      PROVE  MemBooked(i)'
  <2>1. /\ SumFunctionOnSet(Fills, S)' = SumFunctionOnSet(Fills, S)
        /\ SumFunctionOnSet(Costs, S)' = SumFunctionOnSet(Costs, S)
    BY <1>4, StillSums
  <2> QED
    BY <1>4, <2>1 DEF MemBooked
<1>5. ASSUME mem # None, mem'.id = mem.id, mem'.filled = mem.filled, mem'.spent = mem.spent,
             \A c \in Cids : Taken(c)' /\ ~ OpenIn(mem', c) <=> Taken(c) /\ ~ OpenIn(mem, c)
      PROVE  MemBooked(i)'
  <2>1. Shut(i)' = Shut(i)
    <3>1. \A c \in Cids : OpenIn(mem, c)' <=> OpenIn(mem', c)
      BY DEF OpenIn
    <3> QED
      BY <1>5, <3>1 DEF Shut, Done
  <2>2. mem.id \notin lost
    BY <1>1, <1>5
  <2>3. \A c \in Shut(i) : c \in Cids /\ venue[c] # None /\ ~ venue[c].live
    BY <1>5, <2>2, ShutStill
  <2>4. MemBooked(i)
    BY <1>5, <2>2 DEF Books
  <2> QED
    BY <1>4, <1>5, <2>1, <2>3, <2>4 DEF MemBooked
<1>6. CASE MemTakes
  <2>1. \A c \in Cids : Taken(c)' /\ ~ OpenIn(mem', c) <=> Taken(c) /\ ~ OpenIn(mem, c)
    BY <1>2, <1>6, Takes
  <2>2. mem # None /\ mem'.id = mem.id /\ mem'.filled = mem.filled /\ mem'.spent = mem.spent
    BY <1>6, Takes, AnsweredKeeps DEF MemTakes, Ledger
  <2> QED
    BY <1>5, <2>1, <2>2
<1>7. CASE MemKept /\ ~ MemTakes
  <2>1. \A c \in Cids : Taken(c)' /\ ~ OpenIn(mem', c) <=> Taken(c) /\ ~ OpenIn(mem, c)
    BY <1>2, <1>7 DEF MemKept, SameBooks, OpenIn
  <2> QED
    BY <1>5, <1>7, <2>1 DEF MemKept, SameBooks
<1>8. CASE MemRead /\ ~ MemTakes
  <2>1. PICK read : Look(read) /\ mem' \in Body /\ SameBooks(mem', Tracked(read))
    BY <1>8 DEF MemRead
  <2>2. file # None /\ read \subseteq Open(file) /\ lost' = lost
    BY <2>1, LookIs DEF Ledger
  <2>3. mem'.id = file.id
    BY <2>1, <2>2, TrackedTypes DEF SameBooks, Ledger
  <2>4. \A c : c \in Shut(i)' <=> Done(mem', i, c)
    <3>1. \A c \in Cids : Taken(c)' <=> Taken(c)
      BY <1>2, <1>8
    <3> QED
      BY <3>1 DEF Shut, Done, OpenIn
  <2>5. PICK S, new : S = Shut(i)' /\ new = mem' /\ new \in Body
    BY <2>1
  <2>6. /\ new.filled[i] = SumFunctionOnSet(Fills, S) /\ new.spent[i] = SumFunctionOnSet(Costs, S)
        /\ \A c \in S : venue[c] # None /\ ~ venue[c].live
    BY <2>1, <2>2, <2>3, <2>4, <2>5, ReadBooks
  <2>7. \A c \in S : c \in Cids
    BY <2>4, <2>5 DEF Done
  <2> QED
    BY <1>4, <2>5, <2>6, <2>7
<1> QED
  BY <1>3, <1>6, <1>7, <1>8, MemStep DEF Ledger

LEMMA BooksStep == Ledger /\ Books /\ [Next]_vars => Books'
<1> SUFFICES ASSUME Ledger, Books, [Next]_vars PROVE Books'
  OBVIOUS
<1>1. file' # None /\ file'.id \notin lost' => \A i \in Items : FileBooked(i)'
  BY BooksFile
<1>2. mem' # None /\ mem'.id \notin lost' => \A i \in Items : MemBooked(i)'
  BY BooksMem
<1> QED
  BY <1>1, <1>2 DEF Books

-----------------------------------------------------------------------------
(* While a scenario may still send orders, those it sent were accepted.     *)

\* But the one just sent; and whatever was not accepted was sent in this session.
AllAccepted ==
  /\ pc = "idle" /\ file # None /\ file.status = "pending" /\ file.id \notin lost =>
       \A c \in OrdersFor(file.id) : Accepted(c)
  /\ pc # "idle" /\ mem.status = "pending" /\ mem.id \notin lost =>
       \A c \in OrdersFor(mem.id) : Accepted(c) \/ (pc = "answer" /\ c = Cid(item))
  /\ pc # "idle" /\ mem.id \notin lost =>
       \A c \in OrdersFor(mem.id) : Accepted(c) \/ c = Cid(c[2])

\* The session does not end while a fire runs.
LEMMA CidStands ==
  ASSUME Ledger, [Next]_vars, pc # "idle", pc' # "idle", NEW i PROVE Cid(i)' = Cid(i)
<1>1. mem' # None /\ mem # None
  BY TypedStep DEF Ledger, Typed, TypeOK
<1>2. mem'.id = mem.id
  <2>1. ~ MemRead
    BY LookIs DEF MemRead, Ledger
  <2> QED
    BY <2>1, MemStep, AnsweredKeeps DEF MemKept, MemTakes, SameBooks, Ledger
<1>3. UNCHANGED Session
  <2>1. CASE Tick
    BY <2>1, TickTypes DEF Ledger
  <2>2. CASE ~ Tick
    BY <2>2, LookIs
       DEF Next, Approve, Place, Refuse, Intend, Post, Answered, Write, Die, Fill, vars, Ledger, Session
  <2> QED
    BY <2>1, <2>2
<1> QED
  BY <1>2, <1>3 DEF Cid, CidOf

LEMMA AnswerStands ==
  ASSUME Ledger, [Next]_vars, pc = "answer", ~ Answered, pc' # "idle" PROVE UNCHANGED <<pc, item, mem>>
<1>1. CASE Place
  BY <1>1 DEF Place, Refuse, Intend, Post, Write
<1>2. CASE Approve \/ Die \/ Tick \/ (\E c \in Cids : Fill(c)) \/ UNCHANGED vars
  BY <1>2 DEF Approve, Die, Forget, Tick, Fill, fire, vars
<1>3. ASSUME NEW read, Look(read) PROVE FALSE
  BY <1>3, LookIs DEF Ledger
<1> QED
  BY <1>1, <1>2, <1>3 DEF Next

LEMMA AllAcceptedStep == Ledger /\ AllAccepted /\ [Next]_vars => AllAccepted'
<1> SUFFICES ASSUME Ledger, AllAccepted, [Next]_vars PROVE AllAccepted'
  OBVIOUS
<1>1. lost \subseteq lost'
  BY LostGrows DEF Ledger
<1>2. \A c \in Cids : Accepted(c) => Accepted(c)'
  BY TakenStep DEF Ledger
<1>3. \A c \in Cids : venue'[c] # None => venue[c] # None \/ (Post /\ c = Cid(item))
  BY Steady DEF Ledger
<1>4. pc # "idle" => file # None /\ mem.id = file.id
  BY DEF Ledger, Tracking, SameScenario
<1>5. ASSUME pc' = "idle", file' # None, file'.status = "pending", file'.id \notin lost',
             NEW c \in Cids, venue'[c] # None, c[1] = file'.id
      PROVE  Accepted(c)'
  <2>1. venue[c] # None
    <3>1. Post => pc' = "answer"
      BY DEF Post
    <3> QED
      BY <1>3, <1>5, <3>1
  <2>2. CASE pc = "idle"
    <3>1. ~ FileWritten
      BY <2>2 DEF FileWritten, Write
    <3>2. CASE FileKept
      BY <1>1, <1>2, <1>5, <2>1, <2>2, <3>2 DEF FileKept, AllAccepted, OrdersFor
    <3>3. CASE Approve
      <4>1. file'.id = latest + 1 /\ latest \in Nat
        BY <3>3 DEF Approve, Ledger, Typed, TypeOK
      <4>2. c[1] <= latest
        BY <2>1 DEF Ledger, Orderly
      <4> QED
        BY <1>5, <4>1, <4>2
    <3>4. CASE FileRead
      <4>1. PICK read : Look(read) /\ SameBooks(file', Tracked(read))
        BY <3>4 DEF FileRead
      <4>2. file # None /\ file.status = "pending" /\ read \subseteq Open(file)
        BY <4>1, LookIs DEF Ledger
      <4>3. file'.id = file.id
        BY <4>1, <4>2, TrackedTypes DEF SameBooks, Ledger
      <4> QED
        BY <1>1, <1>2, <1>5, <2>1, <2>2, <4>2, <4>3 DEF AllAccepted, OrdersFor
    <3> QED
      BY <3>1, <3>2, <3>3, <3>4, FileStep DEF Ledger
  <2>3. CASE pc # "idle" /\ Write
    <3>1. file' = mem /\ pc # "answer"
      BY <2>3 DEF Write
    <3> QED
      BY <1>1, <1>2, <1>5, <2>1, <2>3, <3>1 DEF AllAccepted, OrdersFor
  <2>4. CASE pc # "idle" /\ ~ Write
    <3>1. file' = file /\ mem.id = file.id /\ mem.id \notin lost' /\ mem.id \notin lost
      BY <1>1, <1>4, <1>5, <2>4, FireEnds
    <3>2. Unwritten = {}
      BY <1>5, <2>4, <3>1, FireEnds
    <3>3. Accepted(c) \/ c = Cid(c[2])
      BY <1>5, <2>1, <2>4, <3>1 DEF AllAccepted, OrdersFor
    <3>4. CASE c = Cid(c[2])
      <4>1. posts[c] > 0 /\ c[2] \in Items
        BY <2>1 DEF Ledger, Orderly, Cids
      <4>2. file.open[c[2]] # None /\ file.open[c[2]].cid = c
        BY <3>2, <3>4, <4>1 DEF Unwritten
      <4>3. HeldOrder(file, c[2])
        BY <1>4, <2>4, <4>1, <4>2 DEF Ledger, Holdings, HeldRight
      <4> QED
        BY <1>2, <4>2, <4>3 DEF HeldOrder
    <3> QED
      BY <1>2, <3>3, <3>4
  <2> QED
    BY <2>2, <2>3, <2>4
<1>6. ASSUME pc' # "idle", mem'.id \notin lost', NEW c \in Cids, venue'[c] # None, c[1] = mem'.id
      PROVE  /\ mem'.status = "pending" => Accepted(c)' \/ (pc' = "answer" /\ c = (Cid(item))')
             /\ Accepted(c)' \/ c = Cid(c[2])'
  <2>1. CASE MemRead
    <3>1. PICK read : Look(read) /\ mem' \in Body /\ SameBooks(mem', Tracked(read))
      BY <2>1 DEF MemRead
    <3>2. file # None /\ file.status = "pending" /\ read \subseteq Open(file) /\ pc = "idle"
      BY <3>1, LookIs DEF Ledger
    <3>3. mem'.id = file.id
      BY <3>1, <3>2, TrackedTypes DEF SameBooks, Ledger
    <3>4. venue[c] # None
      BY <1>3, <1>6, <3>2 DEF Post
    <3> QED
      BY <1>1, <1>2, <1>6, <3>2, <3>3, <3>4 DEF AllAccepted, OrdersFor
  <2>2. CASE MemTakes
    <3>1. mem'.id = mem.id /\ pc = "answer" /\ mem'.status = mem.status /\ Log(item, "accepted")
      BY <2>2, Takes, AnsweredKeeps DEF MemTakes, Answered, Ledger
    <3>2. venue[c] # None
      BY <1>3, <1>6, <3>1 DEF Post
    <3>3. mem.id \notin lost /\ mem.status = "pending"
      BY <1>1, <1>6, <3>1 DEF Ledger, Orderly, Placing
    <3>4. Accepted(c) \/ c = Cid(item)
      BY <1>6, <3>1, <3>2, <3>3 DEF AllAccepted, OrdersFor
    <3>5. Accepted(c)'
      BY <3>1, <3>4, Logged
    <3> QED
      BY <3>5
  <2>3. CASE MemKept /\ ~ MemTakes
    <3>1. mem'.id = mem.id /\ pc # "idle" /\ mem.id \notin lost
      BY <1>1, <1>6, <2>3 DEF MemKept, SameBooks
    <3>2. Cid(c[2])' = Cid(c[2])
      BY <1>6, <3>1, CidStands
    <3>3. CASE venue[c] # None
      <4>1. Accepted(c) \/ c = Cid(c[2])
        BY <1>6, <3>1, <3>3 DEF AllAccepted, OrdersFor
      <4>2. ASSUME mem'.status = "pending", ~ Accepted(c)
            PROVE  pc' = "answer" /\ c = (Cid(item))'
        <5>1. mem.status = "pending"
          BY <2>3, <4>2, MemStep DEF Ledger
        <5>2. pc = "answer" /\ c = Cid(item)
          BY <1>6, <3>1, <3>3, <4>2, <5>1 DEF AllAccepted, OrdersFor
        <5>3. ~ Answered
          BY <2>3, <4>2, AnsweredKeeps DEF MemTakes, Ledger
        <5>4. UNCHANGED <<pc, item, mem>>
          BY <1>6, <5>2, <5>3, AnswerStands
        <5>5. PICK i : i = item
          OBVIOUS
        <5>6. Cid(i)' = Cid(i)
          BY <1>6, <3>1, CidStands
        <5> QED
          BY <5>2, <5>4, <5>5, <5>6 DEF Cid
      <4> QED
        BY <1>2, <3>2, <4>1, <4>2
    <3>4. CASE venue[c] = None
      <4>1. Post /\ c = Cid(item)
        BY <1>3, <1>6, <3>4
      <4>2. pc' = "answer" /\ UNCHANGED <<day, part, mem, item>> /\ Cid(item)[2] = item
        BY <4>1, PostSends, CidType DEF Ledger, Typed
      <4>3. (Cid(item))' = Cid(item)
        BY <4>2 DEF Cid, CidOf, Session
      <4> QED
        BY <3>2, <4>1, <4>2, <4>3
    <3> QED
      BY <3>3, <3>4
  <2> QED
    BY <1>6, <2>1, <2>2, <2>3, MemStep DEF Ledger
<1>7. /\ pc' = "idle" /\ file' # None /\ file'.status = "pending" /\ file'.id \notin lost' =>
           \A c \in OrdersFor(file.id)' : Accepted(c)'
  BY <1>5 DEF OrdersFor
<1>8. /\ pc' # "idle" /\ mem'.status = "pending" /\ mem'.id \notin lost' =>
           \A c \in OrdersFor(mem.id)' : Accepted(c)' \/ (pc' = "answer" /\ c = (Cid(item))')
      /\ pc' # "idle" /\ mem'.id \notin lost' =>
           \A c \in OrdersFor(mem.id)' : Accepted(c)' \/ c = Cid(c[2])'
  BY <1>6 DEF OrdersFor
<1> QED
  BY <1>7, <1>8 DEF AllAccepted

-----------------------------------------------------------------------------
(* What may still be bought: no more than was approved.                     *)

\* The shares an order has bought or may still buy, and what they cost.
Most  == [c \in Cids |-> IF venue[c] = None THEN 0
                         ELSE IF venue[c].live THEN venue[c].qty ELSE venue[c].filled]
Risks == [c \in Cids |-> IF venue[c] = None THEN 0 ELSE Exposure(venue[c])]

\* Every order of a scenario together may buy no more of an item than the approved quantity,
\* and for no more than the cap; and what a fire has still to order fits under the cap too.
Limits ==
  /\ \A id \in Ids \ lost, i \in Items : SumFunctionOnSet(Most, OrdersOf(id, i)) <= Quantity[i]
  /\ file # None /\ file.id \notin lost =>
       SumFunctionOnSet(Risks, OrdersFor(file.id)) <= file.cap
  /\ Placing => Committed(mem) + Estimate(mem, todo, quote) <= mem.cap

LEMMA TimesMore == ASSUME NEW a \in Nat, NEW b \in Nat, a <= b, NEW p \in Nat PROVE a * p <= b * p
<1>1. PICK k \in Nat : b = a + k
  <2>1. b - a \in Nat /\ b = a + (b - a)
    OBVIOUS
  <2> QED
    BY <2>1
<1>2. b * p = a * p + k * p /\ k * p \in Nat /\ a * p \in Nat
  BY <1>1
<1> QED
  BY <1>2

\* What an order may still buy covers what it bought, and never grows.
LEMMA OrderCovers ==
  ASSUME Ledger, NEW c \in Cids, venue[c] # None
  PROVE  /\ Most[c] \in Nat /\ Risks[c] \in Nat /\ Fills[c] \in Nat
         /\ Fills[c] <= Most[c]
         /\ Risks[c] <= venue[c].qty * venue[c].price
         /\ ~ venue[c].live => Most[c] = Fills[c] /\ Risks[c] = Costs[c]
<1> DEFINE q == venue[c].qty
           p == venue[c].price
           f == venue[c].filled
<1>1. q \in Nat /\ p \in Nat /\ f \in Nat /\ f <= q
  BY ConstantsAssumption DEF Ledger, Typed, TypeOK, Order, Orderly
<1>2. /\ Most[c] = IF venue[c].live THEN q ELSE f
      /\ Risks[c] = (IF venue[c].live THEN q ELSE f) * p
      /\ Fills[c] = f /\ Costs[c] = f * p
  BY DEF Most, Risks, Fills, Costs, Exposure
<1> HIDE DEF q, p, f
<1>3. f * p <= q * p
  BY <1>1, TimesMore
<1>4. q * p \in Nat /\ f * p \in Nat
  BY <1>1
<1>5. CASE venue[c].live
  BY <1>1, <1>2, <1>4, <1>5 DEF p, q
<1>6. CASE ~ venue[c].live
  BY <1>1, <1>2, <1>3, <1>4, <1>6 DEF p, q
<1> QED
  BY <1>5, <1>6

LEMMA OrderShrinks ==
  ASSUME Ledger, [Next]_vars, NEW c \in Cids, venue[c] # None
  PROVE  /\ Most'[c] \in Nat /\ Risks'[c] \in Nat
         /\ Most'[c] <= Most[c] /\ Risks'[c] <= Risks[c]
<1> DEFINE q == venue[c].qty
           p == venue[c].price
           f == venue[c].filled
           m == IF venue[c].live THEN q ELSE f
           n == IF venue'[c].live THEN q ELSE venue'[c].filled
<1>1. q \in Nat /\ p \in Nat /\ f \in Nat /\ f <= q /\ (venue[c].live => f < q)
  BY ConstantsAssumption DEF Ledger, Typed, TypeOK, Order, Orderly
<1>2. Onward(c)
  BY Steady DEF Ledger
<1>3. /\ Most[c] = m /\ Risks[c] = m * p /\ Most'[c] = n /\ Risks'[c] = n * p
  BY <1>2 DEF Most, Risks, Exposure, Onward
<1>4. m \in Nat /\ n \in Nat /\ n <= m
  BY <1>1, <1>2 DEF Onward
<1> HIDE DEF m, n, p
<1>5. n * p <= m * p
  BY <1>1, <1>4, TimesMore
<1>6. n * p \in Nat
  BY <1>1, <1>4
<1> QED
  BY <1>3, <1>4, <1>5, <1>6

LEMMA LimitSums ==
  ASSUME Ledger, NEW S, S \subseteq Cids, \A c \in S : venue[c] # None
  PROVE  Summable(Most, S) /\ Summable(Risks, S)
<1>1. IsFiniteSet(S)
  BY OrdersSum DEF Summable
<1> QED
  BY <1>1, OrderCovers DEF Summable

\* So the sum over some orders never grows.
LEMMA SumsShrink ==
  ASSUME Ledger, [Next]_vars, NEW S, S \subseteq Cids, \A c \in S : venue[c] # None
  PROVE  /\ SumFunctionOnSet(Most, S)' <= SumFunctionOnSet(Most, S)
         /\ SumFunctionOnSet(Risks, S)' <= SumFunctionOnSet(Risks, S)
         /\ SumFunctionOnSet(Most, S) \in Nat /\ SumFunctionOnSet(Risks, S) \in Nat
         /\ SumFunctionOnSet(Most, S)' \in Nat /\ SumFunctionOnSet(Risks, S)' \in Nat
         /\ Summable(Most', S) /\ Summable(Risks', S)
<1>1. Summable(Most, S) /\ Summable(Risks, S)
  BY LimitSums
<1>2. PICK f, g : f = Most' /\ g = Risks'
  OBVIOUS
<1>3. \A c \in S : f[c] \in Nat /\ g[c] \in Nat /\ f[c] <= Most[c] /\ g[c] <= Risks[c]
  BY <1>2, OrderShrinks
<1>4. Summable(f, S) /\ Summable(g, S)
  BY <1>1, <1>3 DEF Summable
<1>5. /\ SumFunctionOnSet(f, S) <= SumFunctionOnSet(Most, S)
      /\ SumFunctionOnSet(g, S) <= SumFunctionOnSet(Risks, S)
  BY <1>1, <1>3, <1>4, SumMonotone
<1>6. /\ SumFunctionOnSet(Most, S) \in Nat /\ SumFunctionOnSet(Risks, S) \in Nat
      /\ SumFunctionOnSet(f, S) \in Nat /\ SumFunctionOnSet(g, S) \in Nat
  BY <1>1, <1>4, SumType
<1> QED
  BY <1>2, <1>4, <1>5, <1>6

-----------------------------------------------------------------------------
(* What a scenario is committed to, item by item.                           *)

\* What an item of a scenario has cost and what its open order may cost.
OpenWon(body) ==
  [i \in body.items |-> IF body.open[i] # None THEN body.open[i].qty * body.open[i].price ELSE 0]
Won(body) == [i \in body.items |-> body.spent[i] + OpenWon(body)[i]]

LEMMA CommittedIs ==
  ASSUME NEW body \in Body
  PROVE  /\ Summable(Won(body), body.items)
         /\ Committed(body) = SumFunctionOnSet(Won(body), body.items) /\ Committed(body) \in Nat
<1> DEFINE I == body.items
           G == OpenWon(body)
           H == Won(body)
           J == Open(body)
<1>1. IsFiniteSet(I) /\ I \subseteq Items /\ J \subseteq I
  BY ConstantsAssumption, FS_Subset DEF Body, Open
<1>2. \A i \in I : body.spent[i] \in Nat
  BY <1>1 DEF Body
<1>3. ASSUME NEW i \in I PROVE G[i] \in Nat
  <2>1. CASE body.open[i] # None
    <3>1. body.open[i].qty \in Nat /\ body.open[i].price \in Nat
      BY <1>1, <2>1, ConstantsAssumption DEF Body, Held
    <3>2. \A a \in Nat, b \in Nat : a * b \in Nat
      OBVIOUS
    <3> QED
      BY <2>1, <3>1, <3>2 DEF OpenWon
  <2>2. CASE body.open[i] = None
    BY <2>2 DEF OpenWon
  <2> QED
    BY <2>1, <2>2
<1>4. /\ \A i \in I : H[i] = body.spent[i] + G[i]
      /\ \A i \in J : G[i] = body.open[i].qty * body.open[i].price
      /\ \A i \in I \ J : G[i] = 0
  BY DEF Won, OpenWon, Open
<1>5. /\ Summable(body.spent, I) /\ Summable(G, I) /\ Summable(G, J) /\ Summable(G, I \ J)
  BY <1>1, <1>2, <1>3, FS_Subset DEF Summable
<1> DEFINE o == [i \in Open(body) |-> body.open[i].qty * body.open[i].price]
<1>6. DOMAIN o = J /\ \A i \in J : o[i] = G[i]
  BY <1>4
<1>7. Committed(body) = SumFunctionOnSet(body.spent, I) + SumFunction(o)
  BY DEF Committed
<1> HIDE DEF I, G, H, J, o
<1>8. SumFunction(o) = SumFunctionOnSet(G, J)
  BY <1>5, <1>6, SumOf
<1>9. SumFunctionOnSet(G, I \ J) = 0
  BY <1>4, <1>5, SumZero
<1>10. J \cup (I \ J) = I /\ J \cap (I \ J) = {}
  BY <1>1
<1>11. SumFunctionOnSet(G, I) = SumFunctionOnSet(G, J) + SumFunctionOnSet(G, I \ J)
  BY <1>5, <1>10, SumUnion
<1>12. /\ Summable(H, I)
       /\ SumFunctionOnSet(H, I) = SumFunctionOnSet(body.spent, I) + SumFunctionOnSet(G, I)
  BY <1>4, <1>5, SumPlus
<1>13. SumFunctionOnSet(G, J) \in Nat /\ SumFunctionOnSet(H, I) \in Nat
  BY <1>5, <1>12, SumType
<1> QED
  BY <1>7, <1>8, <1>9, <1>11, <1>12, <1>13 DEF H, I

\* Before a fire sends an order, those the scenario sent were accepted: each is booked or open.
LEMMA BookedOrOpen ==
  ASSUME Ledger, AllAccepted, pc = "post", mem.id \notin lost, NEW i \in Items, NEW c
  PROVE  /\ c \in OrdersOf(mem.id, i) <=>
              c \in Shut(i) \/ (c \in Cids /\ c[1] = mem.id /\ c[2] = i /\ Taken(c) /\ OpenIn(mem, c))
<1>1. mem.status = "pending"
  BY DEF Ledger, Orderly, Placing
<1>2. c \in OrdersOf(mem.id, i) => Taken(c)
  BY <1>1 DEF AllAccepted, OrdersOf, OrdersFor, Taken
<1> QED
  BY <1>2 DEF OrdersOf, Shut, Done, Taken

\* Of the item in hand nothing is open, so its orders may buy just what is booked.
LEMMA HandBought ==
  ASSUME Ledger, Books, AllAccepted, pc = "post", mem.id \notin lost
  PROVE  /\ mem # None /\ item \in Items
         /\ SumFunctionOnSet(Most, OrdersOf(mem.id, item)) = mem.filled[item]
         /\ mem.filled[item] \in Nat
<1>1. mem # None /\ mem \in Body /\ item \in Items /\ item \in todo /\ mem.open[item] = None
  BY DEF Ledger, Typed, TypeOK, Hand
<1>2. \A c : c \in OrdersOf(mem.id, item) <=> c \in Shut(item)
  BY <1>1, BookedOrOpen DEF OpenIn
<1>3. OrdersOf(mem.id, item) = Shut(item)
  BY <1>2
<1>4. \A c \in Shut(item) : c \in Cids /\ venue[c] # None /\ ~ venue[c].live
  BY <1>1, ShutStill
<1>5. Summable(Fills, Shut(item)) /\ \A c \in Shut(item) : Fills[c] = Most[c]
  BY <1>4, OrdersSum, OrderCovers
<1>6. SumFunctionOnSet(Most, Shut(item)) = SumFunctionOnSet(Fills, Shut(item))
  BY <1>5, SumSame
<1>7. mem.filled[item] = SumFunctionOnSet(Fills, Shut(item))
  BY <1>1 DEF Books, MemBooked
<1>8. mem.filled[item] \in Nat
  BY <1>1 DEF Body
<1> QED
  BY <1>1, <1>3, <1>6, <1>7, <1>8

\* An item's orders cost what was spent on it, and its open order no more than it was
\* given for.
LEMMA ItemCovers ==
  ASSUME Ledger, Books, AllAccepted, pc = "post", mem.id \notin lost, NEW i \in mem.items
  PROVE  SumFunctionOnSet(Risks, OrdersOf(mem.id, i)) <= Won(mem)[i]
<1>1. mem # None /\ mem \in Body /\ i \in Items
  BY DEF Ledger, Typed, TypeOK, Body
<1>2. \A c \in Shut(i) : c \in Cids /\ venue[c] # None /\ ~ venue[c].live
  BY <1>1, ShutStill
<1>3. Summable(Costs, Shut(i)) /\ Summable(Risks, Shut(i)) /\ \A c \in Shut(i) : Costs[c] = Risks[c]
  BY <1>2, OrdersSum, LimitSums, OrderCovers
<1>4. SumFunctionOnSet(Risks, Shut(i)) = SumFunctionOnSet(Costs, Shut(i))
  BY <1>3, SumSame
<1>5. SumFunctionOnSet(Risks, Shut(i)) = mem.spent[i] /\ mem.spent[i] \in Nat
  BY <1>1, <1>4 DEF Books, MemBooked, Body
<1>6. Won(mem)[i] = mem.spent[i] + OpenWon(mem)[i]
  BY DEF Won
<1>7. CASE mem.open[i] = None
  <2>1. \A c : c \in OrdersOf(mem.id, i) <=> c \in Shut(i)
    BY <1>1, <1>7, BookedOrOpen DEF OpenIn
  <2>2. OrdersOf(mem.id, i) = Shut(i)
    BY <2>1
  <2>3. OpenWon(mem)[i] = 0
    BY <1>7 DEF OpenWon
  <2> QED
    BY <1>5, <1>6, <2>2, <2>3
<1>8. CASE mem.open[i] # None
  <2> DEFINE h == mem.open[i].cid
  <2>1. mem.open[i] \in Held /\ h \in Cids /\ venue[h] # None /\ HeldOrder(mem, i)
    BY <1>1, <1>8 DEF Body, Held, Ledger, Typed, Placed, Holdings, HeldRight
  <2>2. /\ h[1] = mem.id /\ h[2] = i /\ Taken(h) /\ OpenIn(mem, h)
        /\ venue[h].qty = mem.open[i].qty /\ venue[h].price = mem.open[i].price
    BY <1>1, <1>8, <2>1 DEF HeldOrder, Taken, OpenIn
  <2>3. \A c : c \in OrdersOf(mem.id, i) <=> c \in Shut(i) \/ c = h
    <3> TAKE c
    <3>1. (c \in Cids /\ c[1] = mem.id /\ c[2] = i /\ Taken(c) /\ OpenIn(mem, c)) <=> c = h
      BY <1>1, <2>1, <2>2 DEF OpenIn
    <3> QED
      BY <1>1, <3>1, BookedOrOpen
  <2>4. h \notin Shut(i)
    BY <2>2 DEF Shut, Done
  <2>5. OrdersOf(mem.id, i) = Shut(i) \cup {h}
    BY <2>3
  <2>6. Risks[h] \in Nat /\ Risks[h] <= mem.open[i].qty * mem.open[i].price
    BY <2>1, <2>2, OrderCovers
  <2>7. SumFunctionOnSet(Risks, Shut(i) \cup {h}) = Risks[h] + SumFunctionOnSet(Risks, Shut(i))
    BY <1>3, <2>4, <2>6, SumAdd
  <2>8. OpenWon(mem)[i] = mem.open[i].qty * mem.open[i].price
    BY <1>8 DEF OpenWon
  <2>9. mem.open[i].qty * mem.open[i].price \in Nat
    <3>1. mem.open[i].qty \in Nat /\ mem.open[i].price \in Nat
      BY <2>1, ConstantsAssumption DEF Held
    <3> QED
      BY <3>1
  <2> QED
    BY <1>5, <1>6, <2>5, <2>6, <2>7, <2>8, <2>9
<1> QED
  BY <1>7, <1>8

LEMMA CommittedCovers ==
  ASSUME Ledger, Books, AllAccepted, pc = "post", mem.id \notin lost
  PROVE  SumFunctionOnSet(Risks, OrdersFor(mem.id)) <= Committed(mem)
<1> DEFINE S == OrdersFor(mem.id)
           I == mem.items
           k == [c \in S |-> c[2]]
           F == [i \in I |-> SumFunctionOnSet(Risks, {c \in S : k[c] = i})]
           H == Won(mem)
<1>1. mem # None /\ mem \in Body /\ file # None /\ mem.id = file.id /\ mem.items = file.items
  BY DEF Ledger, Tracking, SameScenario, Typed, TypeOK
<1>2. S \subseteq Cids /\ \A c \in S : venue[c] # None
  BY DEF OrdersFor
<1>3. Summable(Risks, S)
  BY <1>2, LimitSums
<1>4. \A c \in S : c[2] \in I
  BY <1>1 DEF Ledger, Orderly
<1>5. k \in [S -> I]
  BY <1>4
<1>6. ASSUME NEW i \in I PROVE F[i] <= H[i]
  <2>1. {c \in S : k[c] = i} = OrdersOf(mem.id, i)
    BY DEF OrdersFor, OrdersOf
  <2> QED
    BY <2>1, <1>6, ItemCovers
<1>7. /\ Summable(H, I) /\ Committed(mem) = SumFunctionOnSet(H, I) /\ IsFiniteSet(I)
  BY <1>1, CommittedIs DEF Summable
<1>8. \A i \in I : F[i] = SumFunctionOnSet(Risks, {c \in S : k[c] = i})
  OBVIOUS
<1> HIDE DEF S, I, k, F, H
<1>9. Summable(F, I) /\ SumFunctionOnSet(Risks, S) = SumFunctionOnSet(F, I)
  BY <1>3, <1>5, <1>7, <1>8, SumGroups
<1>10. SumFunctionOnSet(F, I) <= SumFunctionOnSet(H, I)
  BY <1>6, <1>7, <1>9, SumMonotone
<1> QED
  BY <1>7, <1>9, <1>10 DEF S

LEMMA CapType == ASSUME NEW body \in Body PROVE body.cap \in Nat
<1>1. body.cap \in Caps
  BY DEF Body
<1>2. Caps \subseteq Nat
  <2>1. Caps \subseteq 1 .. DailyCap /\ DailyCap \in Nat
    BY ConstantsAssumption
  <2> QED
    BY <2>1
<1> QED
  BY <1>1, <1>2

\* The order just sent fits what was left of its item, and under the cap.
LEMMA LimitsPost ==
  ASSUME Ledger, Books, AllAccepted, Limits, [Next]_vars, Post, mem.id \notin lost,
         NEW c, c = Cid(item), venue[c] = None, venue'[c] = Sending(item),
         NEW S, S = OrdersOf(mem.id, item), NEW T, T = OrdersFor(mem.id)
  PROVE  /\ SumFunctionOnSet(Most, S \cup {c})' <= Quantity[item]
         /\ SumFunctionOnSet(Risks, T \cup {c})' <= mem.cap
<1> DEFINE r == Remaining(mem, item)
           p == quote[item]
<1>1. /\ pc = "post" /\ mem # None /\ mem \in Body /\ item \in todo /\ item \in Items /\ c \in Cids
  BY PostSends DEF Ledger
<1>2. r \in Nat /\ p \in Nat /\ r * p \in Nat
  BY <1>1, Estimated DEF Ledger, Typed
<1>3. Most'[c] = r /\ Risks'[c] = r * p
  <2>1. venue'[c] # None
    BY PostSends DEF Ledger
  <2> QED
    BY <1>1, <2>1 DEF Most, Risks, Exposure, Sending
<1>4. /\ S \subseteq Cids /\ c \notin S /\ \A x \in S : venue[x] # None
      /\ T \subseteq Cids /\ c \notin T /\ \A x \in T : venue[x] # None
  BY DEF OrdersOf, OrdersFor
<1>5. PICK f, g : f = Most' /\ g = Risks'
  OBVIOUS
<1>6. /\ Summable(f, S) /\ SumFunctionOnSet(f, S) <= SumFunctionOnSet(Most, S)
      /\ SumFunctionOnSet(f, S) \in Nat
  BY <1>4, <1>5, SumsShrink
<1>7. /\ Summable(g, T) /\ SumFunctionOnSet(g, T) <= SumFunctionOnSet(Risks, T)
      /\ SumFunctionOnSet(g, T) \in Nat /\ SumFunctionOnSet(Risks, T) \in Nat
  BY <1>4, <1>5, SumsShrink
<1>8. f[c] = r /\ g[c] = r * p
  BY <1>3, <1>5
<1> HIDE DEF r, p
<1>9. /\ SumFunctionOnSet(f, S \cup {c}) = r + SumFunctionOnSet(f, S)
      /\ SumFunctionOnSet(g, T \cup {c}) = r * p + SumFunctionOnSet(g, T)
  BY <1>2, <1>4, <1>6, <1>7, <1>8, SumAdd
<1>10. SumFunctionOnSet(Most, S) = mem.filled[item] /\ mem.filled[item] \in Nat
  BY <1>1, HandBought
<1>11. Quantity[item] \in Nat /\ r = Quantity[item] - mem.filled[item]
  BY <1>1, ConstantsAssumption DEF r, Remaining
<1>12. SumFunctionOnSet(f, S \cup {c}) <= Quantity[item]
  BY <1>2, <1>6, <1>9, <1>10, <1>11
<1>13. SumFunctionOnSet(Risks, T) <= Committed(mem) /\ Committed(mem) \in Nat
  BY <1>1, CommittedCovers, CommittedIs
<1>14. Committed(mem) + Estimate(mem, todo, quote) <= mem.cap
  BY <1>1 DEF Limits, Placing
<1>15. /\ Estimate(mem, todo, quote) = r * p + Estimate(mem, todo \ {item}, quote)
       /\ Estimate(mem, todo \ {item}, quote) \in Nat
  BY <1>1, EstimateSplit DEF r, p, Ledger
<1>16. mem.cap \in Nat
  BY <1>1, CapType
<1>17. SumFunctionOnSet(g, T \cup {c}) <= mem.cap
  BY <1>2, <1>7, <1>9, <1>13, <1>14, <1>15, <1>16
<1> QED
  BY <1>5, <1>12, <1>17

LEMMA SentHere ==
  ASSUME Ledger, [Next]_vars, NEW c \in Cids, venue[c] = None, venue'[c] # None
  PROVE  /\ Post /\ c = Cid(item) /\ venue'[c] = Sending(item)
         /\ c[1] = mem.id /\ c[2] = item /\ UNCHANGED <<file, mem, lost>>
         /\ file # None /\ file.id = mem.id /\ file.cap = mem.cap
<1>1. Post /\ c = Cid(item) /\ venue'[c] = Sending(item)
  BY Steady DEF Ledger
<1>2. /\ pc = "post" /\ mem # None /\ item \in Items /\ UNCHANGED <<file, mem, lost>>
  BY <1>1, PostSends DEF Ledger
<1>3. c[1] = mem.id /\ c[2] = item
  BY <1>1, <1>2, CidType DEF Ledger, Typed
<1> QED
  BY <1>1, <1>2, <1>3 DEF Ledger, Tracking, SameScenario, Orderly

LEMMA LimitsQuantity ==
  ASSUME Ledger, Books, AllAccepted, Limits, [Next]_vars, NEW id \in Ids \ lost', NEW i \in Items
  PROVE  SumFunctionOnSet(Most, OrdersOf(id, i))' <= Quantity[i]
<1>1. id \notin lost
  BY LostGrows DEF Ledger
<1>2. PICK S : S = OrdersOf(id, i)
  OBVIOUS
<1>3. \A c \in S : c \in Cids /\ venue[c] # None /\ venue'[c] # None
  BY <1>2, Steady DEF OrdersOf, Onward, Ledger
<1>4. CASE \E c \in Cids : venue[c] = None /\ venue'[c] # None /\ c[1] = id /\ c[2] = i
  <2>1. PICK c \in Cids : venue[c] = None /\ venue'[c] # None /\ c[1] = id /\ c[2] = i
    BY <1>4
  <2>2. /\ Post /\ c = Cid(item) /\ venue'[c] = Sending(item) /\ id = mem.id /\ i = item
    BY <2>1, SentHere
  <2>3. \A x \in Cids : venue[x] = None /\ venue'[x] # None => x = c
    BY <2>2, SentHere
  <2>4. OrdersOf(id, i)' = S \cup {c}
    BY <1>2, <1>3, <2>1, <2>3 DEF OrdersOf
  <2>5. SumFunctionOnSet(Most, S \cup {c})' <= Quantity[item]
    BY <1>1, <1>2, <2>1, <2>2, LimitsPost
  <2> QED
    BY <2>2, <2>4, <2>5
<1>5. CASE ~ \E c \in Cids : venue[c] = None /\ venue'[c] # None /\ c[1] = id /\ c[2] = i
  <2>1. OrdersOf(id, i)' = S
    BY <1>2, <1>3, <1>5 DEF OrdersOf
  <2>2. /\ SumFunctionOnSet(Most, S)' <= SumFunctionOnSet(Most, S)
        /\ SumFunctionOnSet(Most, S) \in Nat /\ SumFunctionOnSet(Most, S)' \in Nat
    BY <1>3, SumsShrink
  <2>3. SumFunctionOnSet(Most, S) <= Quantity[i] /\ Quantity[i] \in Nat
    BY <1>1, <1>2, ConstantsAssumption DEF Limits
  <2>4. SumFunctionOnSet(Most, S)' <= Quantity[i]
    BY <2>2, <2>3
  <2> QED
    BY <2>1, <2>4
<1> QED
  BY <1>4, <1>5

LEMMA LimitsCap ==
  ASSUME Ledger, Books, AllAccepted, Limits, [Next]_vars, file' # None, file'.id \notin lost'
  PROVE  SumFunctionOnSet(Risks, OrdersFor(file.id))' <= file'.cap
<1>1. lost \subseteq lost'
  BY LostGrows DEF Ledger
<1>2. CASE Approve
  <2>1. file'.id = latest + 1 /\ latest \in Nat /\ UNCHANGED venue
    BY <1>2 DEF Approve, exchange, Ledger, Typed, TypeOK
  <2>2. \A c \in Cids : venue[c] # None => c[1] <= latest /\ c[1] \in Nat
    BY DEF Ledger, Orderly, Cids, Ids
  <2>3. OrdersFor(file.id)' = {}
    BY <2>1, <2>2 DEF OrdersFor
  <2>4. SumFunctionOnSet(Risks, OrdersFor(file.id))' = 0
    BY <2>3, SumEmpty
  <2>5. file'.cap \in Nat
    <3>1. file' \in Body
      BY TypedStep DEF Ledger, Typed, TypeOK
    <3> QED
      BY <3>1, CapType
  <2> QED
    BY <2>4, <2>5
<1>3. CASE ~ Approve
  <2>1. file # None /\ file'.id = file.id /\ file'.cap = file.cap
    <3>1. CASE FileKept
      BY <3>1 DEF FileKept
    <3>2. CASE FileRead
      <4>1. PICK read : Look(read) /\ SameBooks(file', Tracked(read))
        BY <3>2 DEF FileRead
      <4>2. file # None /\ read \subseteq Open(file)
        BY <4>1, LookIs DEF Ledger
      <4> QED
        BY <4>1, <4>2, TrackedIs DEF SameBooks, Ledger
    <3>3. CASE FileWritten
      BY <3>3 DEF FileWritten, Write, Ledger, Tracking, SameScenario, Orderly
    <3> QED
      BY <1>3, <3>1, <3>2, <3>3, FileStep DEF Ledger
  <2>2. PICK T : T = OrdersFor(file.id)
    OBVIOUS
  <2>3. \A c \in T : c \in Cids /\ venue[c] # None /\ venue'[c] # None
    BY <2>2, Steady DEF OrdersFor, Onward, Ledger
  <2>4. CASE \E c \in Cids : venue[c] = None /\ venue'[c] # None
    <3>1. PICK c \in Cids : venue[c] = None /\ venue'[c] # None
      BY <2>4
    <3>2. /\ Post /\ c = Cid(item) /\ venue'[c] = Sending(item) /\ c[1] = mem.id /\ file.id = mem.id
          /\ mem.id \notin lost /\ file.cap = mem.cap
      BY <1>1, <2>1, <3>1, SentHere
    <3>3. \A x \in Cids : venue[x] = None /\ venue'[x] # None => x = c
      BY <3>2, SentHere
    <3>4. OrdersFor(file.id)' = T \cup {c}
      BY <2>1, <2>2, <2>3, <3>1, <3>2, <3>3 DEF OrdersFor
    <3>5. SumFunctionOnSet(Risks, T \cup {c})' <= mem.cap
      <4>1. PICK S : S = OrdersOf(mem.id, item)
        OBVIOUS
      <4> QED
        BY <2>2, <3>1, <3>2, <4>1, LimitsPost
    <3> QED
      BY <2>1, <3>2, <3>4, <3>5
  <2>5. CASE ~ \E c \in Cids : venue[c] = None /\ venue'[c] # None
    <3>1. OrdersFor(file.id)' = T
      BY <2>1, <2>2, <2>3, <2>5 DEF OrdersFor
    <3>2. /\ SumFunctionOnSet(Risks, T)' <= SumFunctionOnSet(Risks, T)
          /\ SumFunctionOnSet(Risks, T) \in Nat /\ SumFunctionOnSet(Risks, T)' \in Nat
      BY <2>3, SumsShrink
    <3>3. SumFunctionOnSet(Risks, T) <= file.cap
      BY <1>1, <2>1, <2>2 DEF Limits
    <3>4. file.cap \in Nat
      BY <2>1, CapType DEF Ledger, Typed, TypeOK
    <3>5. SumFunctionOnSet(Risks, T)' <= file.cap
      BY <3>2, <3>3, <3>4
    <3> QED
      BY <2>1, <3>1, <3>5
  <2> QED
    BY <2>4, <2>5
<1> QED
  BY <1>2, <1>3

\* What a fire has still to order was found to fit when it began, and what it books is
\* what it was to order.
LEMMA CommittedSame ==
  ASSUME NEW new, NEW body, SameBooks(new, body) PROVE Committed(new) = Committed(body)
BY DEF SameBooks, Committed, Open

LEMMA LimitsTakes ==
  ASSUME Ledger, Limits, MemTakes
  PROVE  Committed(mem') + Estimate(mem', todo', quote') <= mem'.cap
<1> DEFINE w == Remaining(mem, item) * quote[item]
           I == mem.items
           H == Won(mem)
<1>1. /\ mem # None /\ mem \in Body /\ item \in todo /\ item \in Items /\ mem.open[item] = None
      /\ mem'.open = [mem.open EXCEPT ![item] = Accepting(item)] /\ pc = "answer"
      /\ UNCHANGED quote
  BY Takes DEF MemTakes, Answered
<1>2. /\ mem' \in Body /\ mem'.items = I /\ mem'.spent = mem.spent /\ mem'.cap = mem.cap
      /\ mem'.filled = mem.filled /\ todo' = todo \ {item}
  BY AnsweredKeeps DEF MemTakes, Ledger
<1>3. item \in I /\ I \subseteq Items
  BY <1>1 DEF Ledger, Tracking, SameScenario, Body
<1>4. w \in Nat
  BY <1>1, Estimated DEF Ledger, Typed
<1>5. PICK new : new = mem'
  OBVIOUS
<1> DEFINE K == Won(new)
<1>6. /\ Summable(H, I) /\ Committed(mem) = SumFunctionOnSet(H, I) /\ Committed(mem) \in Nat
      /\ Summable(K, I) /\ Committed(new) = SumFunctionOnSet(K, I) /\ Committed(new) \in Nat
  BY <1>1, <1>2, <1>5, CommittedIs
<1>7. /\ new.open[item].qty = Remaining(mem, item) /\ new.open[item].price = quote[item]
      /\ new.open[item] # None /\ \A i \in I \ {item} : new.open[i] = mem.open[i]
  <2>1. mem.open \in [Items -> Held \cup {None}]
    BY <1>1 DEF Body
  <2>2. new.open[item] = Accepting(item) /\ \A i \in I \ {item} : new.open[i] = mem.open[i]
    BY <1>1, <1>3, <1>5, <2>1
  <2>3. Accepting(item) # None
    BY <1>1, AcceptingType DEF Ledger, Typed
  <2> QED
    BY <2>2, <2>3 DEF Accepting
<1>8. /\ K[item] = mem.spent[item] + w /\ H[item] = mem.spent[item] + 0
      /\ \A i \in I \ {item} : K[i] = H[i]
  BY <1>1, <1>2, <1>3, <1>5, <1>7 DEF Won, OpenWon
<1>9. mem.spent[item] \in Nat
  BY <1>1 DEF Body
<1> HIDE DEF H, K, I, w
<1>10. /\ SumFunctionOnSet(H, I) = H[item] + SumFunctionOnSet(H, I \ {item})
       /\ SumFunctionOnSet(K, I) = K[item] + SumFunctionOnSet(K, I \ {item})
  BY <1>3, <1>6, SumSplit
<1>11. Summable(H, I \ {item})
  BY <1>6, SummableSubset
<1>12. SumFunctionOnSet(K, I \ {item}) = SumFunctionOnSet(H, I \ {item})
  BY <1>8, <1>11, SumSame
<1>13. SumFunctionOnSet(H, I \ {item}) \in Nat
  BY <1>11, SumType
<1>14. Committed(new) = Committed(mem) + w
  BY <1>4, <1>6, <1>8, <1>9, <1>10, <1>12, <1>13
<1>15. /\ Estimate(mem, todo, quote) = w + Estimate(mem, todo \ {item}, quote)
       /\ Estimate(mem, todo \ {item}, quote) \in Nat
  BY <1>1, EstimateSplit DEF w, Ledger
<1>16. Estimate(mem', todo \ {item}, quote') = Estimate(mem, todo \ {item}, quote)
  BY <1>1, <1>2, EstimateSame DEF Remaining
<1>17. Committed(mem) + Estimate(mem, todo, quote) <= mem.cap /\ mem.cap \in Nat
  BY <1>1, CapType DEF Limits, Placing
<1>18. Committed(mem') = Committed(new)
  BY <1>5
<1> QED
  BY <1>2, <1>4, <1>6, <1>14, <1>15, <1>16, <1>17, <1>18

LEMMA LimitsHand ==
  ASSUME Ledger, Limits, [Next]_vars, Placing'
  PROVE  Committed(mem') + Estimate(mem', todo', quote') <= mem'.cap
<1>1. CASE Placing /\ UNCHANGED <<Session, mem, file, todo, quote>>
  BY <1>1 DEF Limits
<1>2. ASSUME NEW read, Begin(read) PROVE Committed(mem') + Estimate(mem', todo', quote') <= mem'.cap
  <2> DEFINE body == Tracked(read)
  <2>1. PICK price \in [Wanted(body) -> Prices] :
          /\ WithinCaps(body, Wanted(body), price, stamp')
          /\ quote' = [i \in Items |-> IF i \in Wanted(body) THEN price[i] ELSE None]
    BY <1>2 DEF Begin
  <2>2. mem' = Tried(body) /\ todo' = Wanted(body) /\ read \subseteq Open(file) /\ file # None
    BY <1>2 DEF Begin, Fires
  <2>3. body \in Body
    BY <2>2, TrackedTypes DEF Ledger
  <2>4. SameBooks(Tried(body), body)
    BY <2>3, TriedKeeps DEF Ledger, Typed, SameBooks
  <2>5. Wanted(body) \subseteq Items
    BY <2>3 DEF Wanted, Body
  <2> HIDE DEF body
  <2>6. \A i \in Wanted(body) : Remaining(Tried(body), i) = Remaining(body, i) /\ quote'[i] = price[i]
    BY <2>1, <2>4, <2>5 DEF Remaining, SameBooks
  <2>7. Estimate(Tried(body), Wanted(body), quote') = Estimate(body, Wanted(body), price)
    BY <2>6, EstimateSame
  <2>8. Committed(Tried(body)) = Committed(body) /\ Tried(body).cap = body.cap
    BY <2>4, CommittedSame DEF SameBooks
  <2>9. Committed(body) + Estimate(body, Wanted(body), price) <= body.cap
    BY <2>1 DEF WithinCaps
  <2>10. Committed(mem') = Committed(Tried(body)) /\ mem'.cap = Tried(body).cap
    BY <2>2
  <2>11. Estimate(mem', todo', quote') = Estimate(Tried(body), Wanted(body), quote')
    BY <2>2
  <2> QED
    BY <2>7, <2>8, <2>9, <2>10, <2>11
<1>3. CASE MemTakes
  BY <1>3, LimitsTakes
<1> QED
  BY <1>1, <1>2, <1>3, PlacingStep DEF Ledger

LEMMA LimitsStep == Ledger /\ Books /\ AllAccepted /\ Limits /\ [Next]_vars => Limits'
<1> SUFFICES ASSUME Ledger, Books, AllAccepted, Limits, [Next]_vars PROVE Limits'
  OBVIOUS
<1>1. \A id \in Ids \ lost', i \in Items : SumFunctionOnSet(Most, OrdersOf(id, i))' <= Quantity[i]
  BY LimitsQuantity
<1>2. file' # None /\ file'.id \notin lost' => SumFunctionOnSet(Risks, OrdersFor(file.id))' <= file'.cap
  BY LimitsCap
<1>3. Placing' => Committed(mem') + Estimate(mem', todo', quote') <= mem'.cap
  BY LimitsHand
<1> QED
  BY <1>1, <1>2, <1>3 DEF Limits

-----------------------------------------------------------------------------
(* The approval and the books.                                              *)

Accounts == Ledger /\ Books /\ AllAccepted /\ Limits

LEMMA AccountsInit == Init => Accounts
<1> SUFFICES ASSUME Init PROVE Accounts
  OBVIOUS
<1>1. /\ Typed /\ Budget /\ Sent /\ Tracking
  <2>1. Sent /\ Tracking
    BY ConstantsAssumption DEF Init, Sent, Tracking, SameScenario, OnlyItsItems, LiveAt, Outcomes
  <2> QED
    BY <2>1, InitTyped, BudgetInit
<1>2. file = None /\ mem = None /\ pc = "idle" /\ answer = None /\ \A c \in Cids : venue[c] = None
  BY DEF Init
<1>3. Orderly /\ Holdings /\ Books /\ AllAccepted
  BY <1>2, ConstantsAssumption
     DEF Orderly, Holdings, HeldRight, Answering, Books, AllAccepted, Placing, Outcomes
<1>4. Limits
  <2>1. ASSUME NEW id, NEW i \in Items PROVE SumFunctionOnSet(Most, OrdersOf(id, i)) <= Quantity[i]
    <3>1. OrdersOf(id, i) = {}
      BY <1>2 DEF OrdersOf
    <3>2. SumFunctionOnSet(Most, {}) = 0 /\ Quantity[i] \in Nat
      BY SumEmpty, ConstantsAssumption
    <3> QED
      BY <3>1, <3>2
  <2> QED
    BY <1>2, <2>1 DEF Limits, Placing
<1> QED
  BY <1>1, <1>3, <1>4 DEF Accounts, Ledger

LEMMA AccountsStep == Accounts /\ [Next]_vars => Accounts'
BY LedgerStep, BooksStep, AllAcceptedStep, LimitsStep DEF Accounts

LEMMA AccountsBook == Accounts => EveryFillIsBooked
<1> SUFFICES ASSUME Accounts PROVE EveryFillIsBooked
  OBVIOUS
<1>1. LiveIsOpen
  BY DEF Accounts, Ledger, Tracking, LiveIsOpen, LiveAt, OpenIn
<1>2. ASSUME pc = "idle", file # None, file.id \notin lost, NEW i \in Items
      PROVE  file.filled[i] = SumFunction([c \in Settled(file, i) |-> venue[c].filled])
  <2> DEFINE S == Settled(file, i)
             g == [c \in S |-> venue[c].filled]
  <2>1. mem = None
    BY <1>2 DEF Accounts, Ledger, Typed, TypeOK
  <2>2. \A c : c \in S <=> c \in Written(i)
    BY <1>2, <2>1, SettledIs DEF Written, OpenIn, Done
  <2>3. S = Written(i)
    BY <2>2
  <2>4. S \subseteq Cids /\ \A c \in S : venue[c] # None
    BY DEF Settled, OrdersOf
  <2>5. Summable(Fills, S)
    BY <2>4, OrdersSum DEF Accounts
  <2>6. DOMAIN g = S /\ \A c \in S : g[c] = Fills[c]
    BY <2>4 DEF Fills
  <2> HIDE DEF g, S
  <2>7. SumFunction(g) = SumFunctionOnSet(Fills, S)
    BY <2>5, <2>6, SumOf
  <2>8. file.filled[i] = SumFunctionOnSet(Fills, Written(i))
    BY <1>2 DEF Accounts, Books, FileBooked
  <2> QED
    BY <2>3, <2>7, <2>8 DEF g, S
<1> QED
  BY <1>1, <1>2 DEF EveryFillIsBooked

LEMMA AccountsApproved == Accounts => WithinApproval
<1> SUFFICES ASSUME Accounts PROVE WithinApproval
  OBVIOUS
<1>1. SentOnce
  BY DEF Accounts, Ledger, Sent, SentOnce
<1>2. ASSUME NEW id \in Ids \ lost, NEW i \in Items PROVE Bought(id, i) <= Quantity[i]
  <2> DEFINE S == OrdersOf(id, i)
             g == [c \in S |-> venue[c].filled]
  <2>1. S \subseteq Cids /\ \A c \in S : venue[c] # None
    BY DEF OrdersOf
  <2>2. Summable(Fills, S) /\ Summable(Most, S)
    BY <2>1, OrdersSum, LimitSums DEF Accounts
  <2>3. DOMAIN g = S /\ \A c \in S : g[c] = Fills[c]
    BY <2>1 DEF Fills
  <2>4. \A c \in S : Fills[c] <= Most[c]
    BY <2>1, OrderCovers DEF Accounts
  <2>5. Bought(id, i) = SumFunction(g)
    BY DEF Bought
  <2>6. SumFunctionOnSet(Most, S) <= Quantity[i] /\ Quantity[i] \in Nat
    BY ConstantsAssumption DEF Accounts, Limits
  <2> HIDE DEF g, S
  <2>7. SumFunction(g) = SumFunctionOnSet(Fills, S)
    BY <2>2, <2>3, SumOf
  <2>8. SumFunctionOnSet(Fills, S) <= SumFunctionOnSet(Most, S)
    BY <2>2, <2>4, SumMonotone
  <2>9. SumFunctionOnSet(Fills, S) \in Nat /\ SumFunctionOnSet(Most, S) \in Nat
    BY <2>2, SumType
  <2> QED
    BY <2>5, <2>6, <2>7, <2>8, <2>9
<1>3. ASSUME file # None, file.id \notin lost
      PROVE  SumFunction([c \in OrdersFor(file.id) |-> Exposure(venue[c])]) <= file.cap
  <2> DEFINE S == OrdersFor(file.id)
             g == [c \in S |-> Exposure(venue[c])]
  <2>1. S \subseteq Cids /\ \A c \in S : venue[c] # None
    BY DEF OrdersFor
  <2>2. Summable(Risks, S)
    BY <2>1, LimitSums DEF Accounts
  <2>3. DOMAIN g = S /\ \A c \in S : g[c] = Risks[c]
    BY <2>1 DEF Risks
  <2>4. SumFunctionOnSet(Risks, S) <= file.cap
    BY <1>3 DEF Accounts, Limits
  <2> HIDE DEF g, S
  <2>5. SumFunction(g) = SumFunctionOnSet(Risks, S)
    BY <2>2, <2>3, SumOf
  <2>6. SumFunction(g) <= file.cap
    BY <2>4, <2>5
  <2> QED
    BY <2>6 DEF g, S
<1> QED
  BY <1>1, <1>2, <1>3 DEF WithinApproval

\* What Thomas approved is the most that is bought, over days of partial fills, cancelled
\* orders, failed reads and lost answers: no more shares of an item than the quantity, no
\* more won than the cap, of a scenario no dead fire left an order of unwritten.
THEOREM NeverBuysMore == Spec => []WithinApproval
<1>1. Init => Accounts
  BY AccountsInit
<1>2. Accounts /\ [Next]_vars => Accounts'
  BY AccountsStep
<1>3. Accounts => WithinApproval
  BY AccountsApproved
<1> QED
  BY <1>1, <1>2, <1>3, PTL DEF Spec

\* Between fires the file has booked, of every item, exactly the shares that its accepted
\* and no longer open orders filled: none twice, none lost, whichever reads failed and
\* whenever a fill came.
THEOREM NothingGoesUnbooked == Spec => []EveryFillIsBooked
<1>1. Init => Accounts
  BY AccountsInit
<1>2. Accounts /\ [Next]_vars => Accounts'
  BY AccountsStep
<1>3. Accounts => EveryFillIsBooked
  BY AccountsBook
<1> QED
  BY <1>1, <1>2, <1>3, PTL DEF Spec

=============================================================================
