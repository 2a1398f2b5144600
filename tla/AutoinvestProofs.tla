---------------------------- MODULE AutoinvestProofs ----------------------------
(***************************************************************************)
(* Proofs about Autoinvest, for any instruments, prices, caps, days and    *)
(* numbers of approvals: what the scenario file and a fire can hold, that  *)
(* no client order id reaches the exchange twice, and that a live order    *)
(* the exchange accepted is open in the scenario file.  What the sums over *)
(* orders come to is the matter of AutoinvestBooks.                        *)
(***************************************************************************)
EXTENDS Autoinvest, TLAPS

-----------------------------------------------------------------------------
(* Types, and what a fire has in hand at each step.                        *)

\* The exchange knows the orders a scenario has open.
Placed(body) ==
  body # None => \A i \in Items : body.open[i] # None => venue[body.open[i].cid] # None

\* An item still to order has something left to order, a price and nothing open.
Hand ==
  /\ part = "night" => day > 0
  /\ pc # "idle" => stamp \in Stamps
  /\ pc = "idle" => todo = {}
  /\ pc \in {"post", "answer"} => item \in todo
  /\ \A i \in todo : Remaining(mem, i) > 0 /\ quote[i] \in Prices /\ mem.open[i] = None
  /\ answer = "accepted" => venue[Cid(item)] # None

Typed == TypeOK /\ Placed(file) /\ Placed(mem) /\ Hand

LEMMA SessionType == ASSUME TypeOK, Hand PROVE Session \in Days /\ Market \in {"kr", "us"}
  BY ConstantsAssumption DEF TypeOK, Hand, Session, Market, Days

LEMMA CidType ==
  ASSUME TypeOK, Hand, mem # None, NEW i \in Items
  PROVE  /\ Cid(i) \in Cids /\ Cid(i)[1] = mem.id /\ Cid(i)[2] = i
         /\ \A j \in Items : Cid(i) = Cid(j) => i = j
<1>1. mem.id \in Ids
  BY DEF TypeOK, Body
<1> QED
  BY <1>1, SessionType DEF Cid, CidOf, Cids

LEMMA RemainingType ==
  ASSUME NEW body \in Body, NEW i \in Items PROVE Remaining(body, i) \in Int
<1>1. Quantity[i] \in Nat /\ body.filled[i] \in Nat
  BY ConstantsAssumption DEF Body
<1> QED
  BY <1>1 DEF Remaining

LEMMA Estimated ==
  ASSUME TypeOK, Hand, mem # None, NEW i \in todo
  PROVE  /\ Remaining(mem, i) \in Nat \ {0} /\ quote[i] \in Nat
         /\ Remaining(mem, i) * quote[i] \in Nat
<1>1. mem \in Body /\ i \in Items
  BY DEF TypeOK
<1>2. Remaining(mem, i) \in Nat \ {0} /\ quote[i] \in Nat
  BY <1>1, RemainingType, ConstantsAssumption DEF Hand
<1>3. \A a \in Nat, b \in Nat : a * b \in Nat
  OBVIOUS
<1> QED
  BY <1>2, <1>3

LEMMA InitTyped == Init => Typed
<1> SUFFICES ASSUME Init PROVE Typed
  OBVIOUS
<1>1. TypeOK
  BY ConstantsAssumption DEF Init, TypeOK, Days, Body
<1>2. Placed(file) /\ Placed(mem)
  BY DEF Init, Placed
<1>3. Hand
  BY ConstantsAssumption DEF Init, Hand, Outcomes
<1> QED
  BY <1>1, <1>2, <1>3 DEF Typed

-----------------------------------------------------------------------------
(* Reading back.                                                           *)

\* A body with other fields of the same types is a body.
LEMMA BodyTypes ==
  ASSUME NEW body \in Body
  PROVE  /\ \A s \in Statuses : [body EXCEPT !.status = s] \in Body
         /\ \A m \in {"kr", "us"}, d \in Days : [body EXCEPT !.tried[m] = d] \in Body
         /\ \A i \in Items, h \in Held : [body EXCEPT !.open[i] = h] \in Body
         /\ \A f \in [Items -> Nat], s \in [Items -> Nat], o \in [Items -> Held \cup {None}] :
              [body EXCEPT !.filled = f, !.spent = s, !.open = o] \in Body
<1>1. \A s \in Statuses : [body EXCEPT !.status = s] \in Body
  BY DEF Body
<1>2. \A m \in {"kr", "us"}, d \in Days : [body EXCEPT !.tried[m] = d] \in Body
  <2> SUFFICES ASSUME NEW m \in {"kr", "us"}, NEW d \in Days PROVE [body EXCEPT !.tried[m] = d] \in Body
    OBVIOUS
  <2>1. [body.tried EXCEPT ![m] = d] \in [{"kr", "us"} -> Days \cup {None}]
    BY DEF Body
  <2>2. [body EXCEPT !.tried[m] = d] = [body EXCEPT !.tried = [body.tried EXCEPT ![m] = d]]
    BY DEF Body
  <2> QED
    BY <2>1, <2>2 DEF Body
<1>3. \A i \in Items, h \in Held : [body EXCEPT !.open[i] = h] \in Body
  <2> SUFFICES ASSUME NEW i \in Items, NEW h \in Held PROVE [body EXCEPT !.open[i] = h] \in Body
    OBVIOUS
  <2>1. [body.open EXCEPT ![i] = h] \in [Items -> Held \cup {None}]
    BY DEF Body
  <2>2. [body EXCEPT !.open[i] = h] = [body EXCEPT !.open = [body.open EXCEPT ![i] = h]]
    BY DEF Body
  <2> QED
    BY <2>1, <2>2 DEF Body
<1>4. \A f \in [Items -> Nat], s \in [Items -> Nat], o \in [Items -> Held \cup {None}] :
        [body EXCEPT !.filled = f, !.spent = s, !.open = o] \in Body
  BY DEF Body
<1> QED
  BY <1>1, <1>2, <1>3, <1>4

\* The status of a body is not one of its orders.
LEMMA StatusKeeps ==
  ASSUME NEW body \in Body, NEW st \in Statuses, NEW new, new = [body EXCEPT !.status = st]
  PROVE  /\ new \in Body /\ new.id = body.id /\ new.items = body.items
         /\ new.expires = body.expires /\ new.open = body.open /\ new.filled = body.filled
         /\ new.cap = body.cap /\ new.spent = body.spent /\ new.status = st
  BY DEF Body

\* Nor is the session it was last tried in.
LEMMA TriedKeeps ==
  ASSUME TypeOK, Hand, NEW body \in Body
  PROVE  /\ Tried(body) \in Body /\ Tried(body).id = body.id /\ Tried(body).items = body.items
         /\ Tried(body).expires = body.expires /\ Tried(body).open = body.open
         /\ Tried(body).filled = body.filled /\ Tried(body).spent = body.spent
         /\ Tried(body).cap = body.cap /\ Tried(body).status = body.status
<1>1. Tried(body) \in Body
  BY SessionType, BodyTypes DEF Tried
<1>2. Tried(body) = [body EXCEPT !.tried = [body.tried EXCEPT ![Market] = Session]]
  BY DEF Tried, Body
<1> QED
  BY <1>1, <1>2 DEF Body

\* Reading back closes what the exchange closed and books what filled of it, and changes
\* nothing else.
LEMMA TrackedIs ==
  ASSUME Typed, file # None, NEW read, read \subseteq Open(file)
  PROVE  /\ Tracked(read) \in Body /\ Tracked(read).id = file.id /\ Tracked(read).items = file.items
         /\ Tracked(read).expires = file.expires
         /\ Tracked(read).cap = file.cap /\ Tracked(read).status \in {file.status, "executed"}
         /\ Tracked(read).filled =
              [i \in Items |-> IF i \in Closed(read)
                               THEN file.filled[i] + venue[file.open[i].cid].filled ELSE file.filled[i]]
         /\ Tracked(read).spent =
              [i \in Items |-> IF i \in Closed(read)
                               THEN file.spent[i] + venue[file.open[i].cid].filled * file.open[i].price
                               ELSE file.spent[i]]
         /\ Tracked(read).open = [i \in Items |-> IF i \in Closed(read) THEN None ELSE file.open[i]]
         /\ \A i \in Closed(read) :
              /\ i \in Items /\ file.open[i] # None /\ file.open[i] \in Held
              /\ venue[file.open[i].cid] # None /\ ~ venue[file.open[i].cid].live
<1> DEFINE shut == Closed(read)
           got(i) == venue[file.open[i].cid].filled
           f == [i \in Items |-> IF i \in shut THEN file.filled[i] + got(i) ELSE file.filled[i]]
           s == [i \in Items |-> IF i \in shut THEN file.spent[i] + got(i) * file.open[i].price
                                               ELSE file.spent[i]]
           o == [i \in Items |-> IF i \in shut THEN None ELSE file.open[i]]
           b == [file EXCEPT !.filled = f, !.spent = s, !.open = o]
<1>1. file \in Body
  BY DEF Typed, TypeOK
<1>2. \A i \in shut : /\ i \in Items /\ file.open[i] # None /\ file.open[i] \in Held
                      /\ venue[file.open[i].cid] \in Order /\ venue[file.open[i].cid] # None
                      /\ ~ venue[file.open[i].cid].live
  <2> TAKE i \in shut
  <2>1. i \in Open(file) /\ ~ venue[file.open[i].cid].live
    BY DEF Closed
  <2>2. i \in Items /\ file.open[i] # None /\ file.open[i] \in Held
    BY <1>1, <2>1 DEF Open, Body
  <2>3. file.open[i].cid \in Cids /\ venue[file.open[i].cid] # None
    BY <2>2 DEF Held, Typed, Placed
  <2> QED
    BY <2>1, <2>2, <2>3 DEF Typed, TypeOK
<1>3. \A i \in shut : got(i) \in Nat /\ file.open[i].price \in Nat
  BY <1>2, ConstantsAssumption DEF Order, Held
<1>4. \A x \in Nat, y \in Nat, z \in Nat : x + y * z \in Nat
  OBVIOUS
<1>5. /\ file.filled \in [Items -> Nat] /\ file.spent \in [Items -> Nat]
      /\ file.open \in [Items -> Held \cup {None}] /\ file.status \in Statuses
  BY <1>1 DEF Body
<1>6. f \in [Items -> Nat]
  BY <1>3, <1>5
<1>7. s \in [Items -> Nat]
  <2> SUFFICES ASSUME NEW i \in Items PROVE s[i] \in Nat
    OBVIOUS
  <2>1. CASE i \in shut
    BY <1>3, <1>4, <1>5, <2>1
  <2>2. CASE i \notin shut
    BY <1>5, <2>2
  <2> QED
    BY <2>1, <2>2
<1>8. o \in [Items -> Held \cup {None}]
  BY <1>5
<1>9. b \in Body /\ b.id = file.id /\ b.items = file.items /\ b.expires = file.expires /\ b.open = o
      /\ b.status = file.status /\ b.cap = file.cap /\ b.filled = f /\ b.spent = s
  BY <1>1, <1>5, <1>6, <1>7, <1>8, BodyTypes DEF Body
<1>10. PICK st \in {file.status, "executed"} : st \in Statuses /\ Tracked(read) = [b EXCEPT !.status = st]
  <2>1. Tracked(read) = [b EXCEPT !.status =
          IF \A i \in b.items : Remaining(b, i) = 0 THEN "executed" ELSE @]
    BY DEF Tracked
  <2> QED
    BY <1>5, <1>9, <2>1 DEF Statuses
<1> HIDE DEF b
<1>11. Tracked(read) \in Body /\ Tracked(read).id = b.id /\ Tracked(read).items = b.items
       /\ Tracked(read).expires = b.expires /\ Tracked(read).open = b.open
       /\ Tracked(read).cap = b.cap /\ Tracked(read).filled = b.filled
       /\ Tracked(read).spent = b.spent /\ Tracked(read).status = st
  BY <1>9, <1>10, StatusKeeps
<1> QED
  BY <1>2, <1>9, <1>11

LEMMA TrackedTypes ==
  ASSUME Typed, file # None, NEW read, read \subseteq Open(file)
  PROVE  /\ Tracked(read) \in Body /\ Tracked(read).id = file.id /\ Tracked(read).items = file.items
         /\ Tracked(read).expires = file.expires
         /\ \A i \in Items :
              \/ Tracked(read).open[i] = file.open[i]
              \/ /\ Tracked(read).open[i] = None /\ file.open[i] # None
                 /\ venue[file.open[i].cid] # None /\ ~ venue[file.open[i].cid].live
<1>1. /\ Tracked(read).open = [i \in Items |-> IF i \in Closed(read) THEN None ELSE file.open[i]]
      /\ \A i \in Closed(read) :
           /\ i \in Items /\ file.open[i] # None
           /\ venue[file.open[i].cid] # None /\ ~ venue[file.open[i].cid].live
  BY TrackedIs
<1>2. \A i \in Items :
        \/ Tracked(read).open[i] = file.open[i]
        \/ /\ Tracked(read).open[i] = None /\ file.open[i] # None
           /\ venue[file.open[i].cid] # None /\ ~ venue[file.open[i].cid].live
  BY <1>1
<1> QED
  BY <1>2, TrackedIs

-----------------------------------------------------------------------------
(* The types hold after every step.                                        *)

\* Orders at the exchange stay known there.
Known == \A c \in Cids : venue[c] # None => venue'[c] # None

LEMMA PlacedKept ==
  ASSUME Known, NEW body \in Body, Placed(body), NEW new \in Body,
         \A i \in Items : new.open[i] = None \/ new.open[i] = body.open[i]
  PROVE  Placed(new)'
<1> SUFFICES ASSUME NEW i \in Items, new.open[i] # None PROVE venue'[new.open[i].cid] # None
  BY DEF Placed
<1>1. new.open[i] = body.open[i] /\ new.open[i] \in Held
  BY DEF Body
<1> QED
  BY <1>1, ConstantsAssumption DEF Known, Placed, Held

LEMMA TypedApprove == Typed /\ Approve => Typed'
<1> SUFFICES ASSUME Typed, Approve PROVE Typed'
  OBVIOUS
<1>1. PICK chosen \in SUBSET Items \ {{}}, cap \in Caps :
        file' = [id |-> latest + 1, items |-> chosen, cap |-> cap, expires |-> day + ValidDays,
                 status |-> "pending", filled |-> [i \in Items |-> 0],
                 spent |-> [i \in Items |-> 0], open |-> [i \in Items |-> None],
                 tried |-> [m \in {"kr", "us"} |-> None]]
  BY DEF Approve
<1>2. latest + 1 \in Ids /\ latest' \in 0 .. Approvals
  BY ConstantsAssumption DEF Approve, Typed, TypeOK, Ids
<1>3. day + ValidDays \in Nat
  BY ConstantsAssumption DEF Typed, TypeOK, Days
<1>4. file' \in Body /\ Placed(file)'
  BY <1>1, <1>2, <1>3 DEF Body, Statuses, Placed
<1>5. TypeOK'
  BY <1>2, <1>4 DEF Approve, exchange, fire, Typed, TypeOK
<1>6. Placed(mem)' /\ Hand'
  BY DEF Approve, exchange, fire, Typed, Placed, Hand, Cid, CidOf, Session, Remaining
<1> QED
  BY <1>4, <1>5, <1>6 DEF Typed

\* A fire that ends before it places leaves a body with no other orders.
LEMMA TypedLook ==
  ASSUME Typed, NEW read, Finish(read) \/ Hold(read)
  PROVE  Typed'
<1> DEFINE body == Tracked(read)
<1>1. file # None /\ read \subseteq Open(file) /\ pc = "idle" /\ stamp' \in Days
  BY DEF Finish, Hold, Fires, Stamps
<1>2. body \in Body /\ \A i \in Items : body.open[i] = None \/ body.open[i] = file.open[i]
  BY <1>1, TrackedTypes
<1>3. Tried(body) \in Body /\ Tried(body).open = body.open
  BY <1>2, TriedKeeps DEF Typed
<1>4. file' \in Body /\ file'.open = body.open
  <2>1. CASE Finish(read)
    <3>1. file' = body \/ file' = [body EXCEPT !.status = "expired"]
      BY <2>1 DEF Finish
    <3> QED
      BY <1>2, <3>1, StatusKeeps DEF Statuses
  <2>2. CASE Hold(read)
    BY <1>2, <1>3, <2>2, StatusKeeps DEF Hold, Statuses
  <2> QED
    BY <2>1, <2>2
<1>5. UNCHANGED <<day, part, upsets, latest, journal, exchange, fire, lost>>
  BY DEF Finish, Hold
<1>6. Placed(file)'
  <2>1. file \in Body
    BY <1>1 DEF Typed, TypeOK
  <2>2. Known
    BY <1>5 DEF Known, exchange
  <2>3. \A new \in Body : new.open = body.open => Placed(new)'
    <3> TAKE new \in Body
    <3> HAVE new.open = body.open
    <3> QED
      BY <1>2, <2>1, <2>2, PlacedKept DEF Typed
  <2> QED
    BY <1>4, <2>3 DEF Placed
<1>7. TypeOK'
  BY <1>1, <1>4, <1>5 DEF exchange, fire, Typed, TypeOK
<1>8. Placed(mem)' /\ Hand'
  BY <1>1, <1>5 DEF exchange, fire, Typed, Placed, Hand, Cid, CidOf, Session, Remaining
<1> QED
  BY <1>6, <1>7, <1>8 DEF Typed

LEMMA TypedBegin ==
  ASSUME Typed, NEW read, Begin(read)
  PROVE  Typed'
<1> DEFINE body == Tracked(read)
<1>1. file # None /\ read \subseteq Open(file) /\ pc = "idle" /\ item = None /\ answer = None
      /\ stamp' \in Days /\ stamp' \in Stamps
  BY DEF Begin, Fires, Stamps, Typed, TypeOK
<1>2. body \in Body /\ \A i \in Items : body.open[i] = None \/ body.open[i] = file.open[i]
  BY <1>1, TrackedTypes
<1>3. /\ Tried(body) \in Body /\ Tried(body).open = body.open /\ Tried(body).items = body.items
      /\ Tried(body).filled = body.filled
  BY <1>2, TriedKeeps DEF Typed
<1>4. mem' = Tried(body) /\ todo' = Wanted(body)
  BY DEF Begin
<1>5. todo' \subseteq Items /\ \A i \in todo' : Remaining(body, i) > 0 /\ body.open[i] = None
  <2>1. Wanted(body) \subseteq body.items
    BY DEF Wanted
  <2>2. \A i \in Wanted(body) : Remaining(body, i) > 0 /\ body.open[i] = None
    BY DEF Wanted
  <2> QED
    BY <1>2, <1>4, <2>1, <2>2 DEF Body
<1>6. quote' \in [Items -> Prices \cup {None}] /\ \A i \in todo' : quote'[i] \in Prices
  <2>1. PICK price \in [Wanted(body) -> Prices] :
          quote' = [i \in Items |-> IF i \in Wanted(body) THEN price[i] ELSE None]
    BY DEF Begin
  <2> QED
    BY <1>4, <1>5, <2>1
<1>7. Placed(mem)'
  <2>1. file \in Body /\ Known
    BY <1>1 DEF Typed, TypeOK, Begin, exchange, Known
  <2>2. \A new \in Body : new.open = body.open => Placed(new)'
    <3> TAKE new \in Body
    <3> HAVE new.open = body.open
    <3> QED
      BY <1>2, <2>1, PlacedKept DEF Typed
  <2> QED
    BY <1>3, <1>4, <2>2 DEF Placed
<1>8. TypeOK'
  BY <1>1, <1>3, <1>4, <1>5, <1>6, ConstantsAssumption DEF Begin, exchange, Typed, TypeOK
<1>9. Hand'
  <2>1. \A i \in todo' : Remaining(mem', i) = Remaining(body, i) /\ mem'.open[i] = body.open[i]
    BY <1>3, <1>4 DEF Remaining
  <2>2. answer' # "accepted" /\ pc' = "next" /\ (part' = "night" => day' > 0)
    BY <1>1, ConstantsAssumption DEF Begin, Outcomes, Typed, Hand
  <2>3. \A i \in todo' : (Remaining(mem, i))' > 0 /\ quote'[i] \in Prices /\ mem'.open[i] = None
    BY <1>5, <1>6, <2>1 DEF Remaining
  <2>4. stamp' \in Stamps'
    BY <1>1 DEF Begin, Stamps
  <2> QED
    BY <2>2, <2>3, <2>4 DEF Hand
<1>10. Placed(file)'
  BY DEF Begin, exchange, Typed, Placed
<1> QED
  BY <1>7, <1>8, <1>9, <1>10 DEF Typed

\* A fire writes rows of the journal's type.
LEMMA LogTypes ==
  ASSUME TypeOK, Hand, mem # None, NEW i \in todo, NEW state \in {"intent"} \cup Outcomes, Log(i, state)
  PROVE  journal' \subseteq Row
<1>1. i \in Items
  BY DEF TypeOK
<1> DEFINE row == [state |-> state, cid |-> Cid(i), day |-> stamp, est |-> Remaining(mem, i) * quote[i]]
<1>2. row \in Row
  BY <1>1, CidType, Estimated DEF Row, TypeOK
<1>3. journal' = journal \cup {row}
  BY DEF Log
<1> QED
  BY <1>2, <1>3 DEF TypeOK

LEMMA TypedRefuse == ASSUME Typed, NEW i \in Items, Refuse(i) PROVE Typed'
<1>1. mem # None /\ mem \in Body /\ item = None /\ answer = None /\ pc' = "write"
  BY DEF Refuse, Typed, TypeOK
<1>2. mem' \in Body /\ mem'.open = mem.open /\ mem'.filled = mem.filled /\ mem'.id = mem.id
  BY <1>1, StatusKeeps DEF Refuse, Statuses
<1>3. TypeOK'
  BY <1>1, <1>2, ConstantsAssumption DEF Refuse, exchange, Typed, TypeOK
<1>4. Placed(file)' /\ Placed(mem)'
  BY <1>1, <1>2 DEF Refuse, exchange, Typed, Placed
<1>5. Hand'
  BY <1>1, <1>2, ConstantsAssumption DEF Refuse, exchange, Typed, Hand, Stamps, Remaining, Outcomes
<1> QED
  BY <1>3, <1>4, <1>5 DEF Typed

LEMMA TypedIntend == ASSUME Typed, NEW i \in Items, Intend(i) PROVE Typed'
<1>1. mem # None /\ answer = None /\ i \in todo /\ pc' = "post" /\ item' = i
  BY DEF Intend, Typed, TypeOK
<1>2. journal' \subseteq Row
  BY <1>1, LogTypes DEF Intend, Typed
<1>3. TypeOK'
  BY <1>1, <1>2, ConstantsAssumption DEF Intend, exchange, Typed, TypeOK
<1>4. Placed(file)' /\ Placed(mem)' /\ Hand'
  BY <1>1, ConstantsAssumption DEF Intend, exchange, Typed, Placed, Hand, Stamps, Remaining, Outcomes
<1> QED
  BY <1>3, <1>4 DEF Typed

\* What reaching the exchange does.
LEMMA ReachTypes ==
  ASSUME TypeOK, Hand, mem # None, NEW i \in todo, Reach(i)
  PROVE  /\ venue' \in [Cids -> Order \cup {None}] /\ posts' \in [Cids -> Nat]
         /\ Known /\ venue'[Cid(i)] # None
         /\ \A c \in Cids : c # Cid(i) => venue'[c] = venue[c] /\ posts'[c] = posts[c]
         /\ posts'[Cid(i)] = posts[Cid(i)] + 1
<1> DEFINE o == [qty |-> Remaining(mem, i), price |-> quote[i], day |-> day, filled |-> 0, live |-> TRUE]
<1>1. i \in Items /\ Cid(i) \in Cids
  BY CidType DEF TypeOK
<1>2. o \in Order
  BY Estimated DEF Order, TypeOK, Hand
<1>3. venue' = [venue EXCEPT ![Cid(i)] = o] /\ posts' = [posts EXCEPT ![Cid(i)] = @ + 1]
  BY DEF Reach
<1>4. o # None
  BY <1>2, ConstantsAssumption
<1> HIDE DEF o
<1> QED
  BY <1>1, <1>2, <1>3, <1>4 DEF TypeOK, Known

LEMMA TypedPost == Typed /\ Post => Typed'
<1> SUFFICES ASSUME Typed, Post PROVE Typed'
  OBVIOUS
<1>1. /\ mem # None /\ item \in todo /\ pc = "post" /\ pc' = "answer"
      /\ UNCHANGED <<day, part, stamp, latest, file, journal, mem, todo, quote, item, lost>>
  BY DEF Post, Typed, TypeOK, Hand
<1>2. \/ Reach(item) /\ answer' \in {"accepted", "unknown"}
      \/ UNCHANGED exchange /\ answer' \in {"rejected", "unknown"}
  BY DEF Post
<1>3. upsets' \in 0 .. MaxUpsets
  BY ConstantsAssumption DEF Post, Typed, TypeOK
<1>4. venue' \in [Cids -> Order \cup {None}] /\ posts' \in [Cids -> Nat] /\ Known
  BY <1>1, <1>2, ReachTypes DEF Typed, TypeOK, exchange, Known
<1>5. answer' \in Outcomes
  BY <1>2 DEF Outcomes
<1>6. TypeOK'
  BY <1>1, <1>3, <1>4, <1>5, ConstantsAssumption DEF Typed, TypeOK
<1>7. Placed(file)' /\ Placed(mem)'
  <2>1. \A new \in Body : Placed(new) => Placed(new)'
    <3> TAKE new \in Body
    <3> HAVE Placed(new)
    <3> QED
      BY <1>4, PlacedKept
  <2> QED
    BY <1>1, <2>1 DEF Typed, TypeOK, Placed
<1>8. Hand'
  <2>1. answer' = "accepted" => venue'[Cid(item)] # None
    BY <1>1, <1>2, ReachTypes DEF Typed
  <2>2. (Cid(item))' = Cid(item)
    BY <1>1 DEF Cid, CidOf, Session
  <2> QED
    BY <1>1, <2>1, <2>2 DEF Typed, Hand, Stamps, Remaining
<1> QED
  BY <1>6, <1>7, <1>8 DEF Typed

\* The order a fire writes down once it is accepted.
Accepting(i) == [cid |-> Cid(i), qty |-> Remaining(mem, i), price |-> quote[i]]

LEMMA AcceptingType ==
  ASSUME TypeOK, Hand, mem # None, NEW i \in todo
  PROVE  Accepting(i) \in Held /\ Accepting(i).cid = Cid(i) /\ Accepting(i) # None
<1>1. Accepting(i) \in Held /\ Accepting(i).cid = Cid(i)
  BY CidType, Estimated DEF TypeOK, Accepting, Held, Hand
<1> QED
  BY <1>1, ConstantsAssumption

\* What an answer leaves of the scenario in hand.
LEMMA AnsweredKeeps ==
  ASSUME Typed, Answered
  PROVE  /\ mem' \in Body /\ mem'.id = mem.id /\ mem'.filled = mem.filled
         /\ mem'.items = mem.items /\ mem'.expires = mem.expires
         /\ mem'.spent = mem.spent /\ mem'.cap = mem.cap
         /\ \/ /\ answer = "accepted" /\ pc' = "next" /\ todo' = todo \ {item}
               /\ mem'.status = mem.status
               /\ mem'.open = [mem.open EXCEPT ![item] = Accepting(item)]
            \/ /\ answer # "accepted" /\ pc' = "write" /\ todo' = todo
               /\ mem'.open = mem.open /\ mem'.status # "pending"
<1>1. mem # None /\ mem \in Body /\ item \in todo /\ item \in Items
  BY DEF Answered, Typed, TypeOK, Hand
<1>2. CASE answer = "accepted"
  <2>1. mem' = [mem EXCEPT !.open[item] = Accepting(item)] /\ pc' = "next" /\ todo' = todo \ {item}
    BY <1>2 DEF Answered, Accepting
  <2>2. mem' \in Body
    BY <1>1, <2>1, AcceptingType, BodyTypes DEF Typed
  <2>3. mem' = [mem EXCEPT !.open = [mem.open EXCEPT ![item] = Accepting(item)]]
    BY <1>1, <2>1 DEF Body
  <2> QED
    BY <1>1, <1>2, <2>1, <2>2, <2>3 DEF Body
<1>3. CASE answer # "accepted"
  <2>1. mem' = [mem EXCEPT !.status = Ended(answer)] /\ pc' = "write" /\ todo' = todo
    BY <1>3 DEF Answered
  <2>2. Ended(answer) \in Statuses /\ Ended(answer) # "pending"
    BY DEF Ended, Statuses
  <2> QED
    BY <1>1, <1>3, <2>1, <2>2, StatusKeeps
<1> QED
  BY <1>2, <1>3

LEMMA TypedAnswered == Typed /\ Answered => Typed'
<1> SUFFICES ASSUME Typed, Answered PROVE Typed'
  OBVIOUS
<1>1. /\ mem # None /\ mem \in Body /\ item \in todo /\ item \in Items /\ answer \in Outcomes
      /\ item' = None /\ answer' = None
      /\ UNCHANGED <<day, part, stamp, upsets, latest, file, exchange, quote, lost>>
  BY DEF Answered, Typed, TypeOK, Hand
<1>2. /\ mem' \in Body /\ mem' # None /\ todo' \subseteq todo /\ pc' \in {"next", "write"}
  BY AnsweredKeeps, ConstantsAssumption
<1>3. journal' \subseteq Row
  BY <1>1, LogTypes DEF Answered, Typed
<1>4. TypeOK'
  BY <1>1, <1>2, <1>3, ConstantsAssumption DEF exchange, Typed, TypeOK
<1>5. Placed(file)'
  BY <1>1 DEF exchange, Typed, Placed
<1>6. Placed(mem)'
  <2> SUFFICES ASSUME NEW i \in Items, mem'.open[i] # None PROVE venue'[mem'.open[i].cid] # None
    BY DEF Placed
  <2>1. CASE answer = "accepted" /\ i = item
    <3>1. mem'.open[i] = Accepting(item)
      BY <1>1, <2>1, AnsweredKeeps DEF Body
    <3>2. mem'.open[i].cid = Cid(item)
      BY <1>1, <3>1, AcceptingType DEF Typed
    <3> QED
      BY <1>1, <2>1, <3>2 DEF exchange, Typed, Hand
  <2>2. CASE ~ (answer = "accepted" /\ i = item)
    <3>1. mem'.open[i] = mem.open[i]
      BY <1>1, <2>2, AnsweredKeeps DEF Body
    <3> QED
      BY <1>1, <3>1 DEF exchange, Typed, Placed
  <2> QED
    BY <2>1, <2>2
<1>7. Hand'
  <2>1. \A i \in todo' : i \in todo /\ mem'.open[i] = mem.open[i] /\ (Remaining(mem, i))' = Remaining(mem, i)
    BY <1>1, AnsweredKeeps DEF Remaining, Body, Typed, TypeOK
  <2>2. \A i \in todo' : (Remaining(mem, i))' > 0 /\ quote'[i] \in Prices /\ mem'.open[i] = None
    BY <1>1, <2>1 DEF Typed, Hand
  <2>3. (part' = "night" => day' > 0) /\ answer' # "accepted"
    BY <1>1, ConstantsAssumption DEF Typed, Hand, Outcomes
  <2>4. stamp' \in Stamps'
    BY <1>1 DEF Answered, Stamps, Typed, Hand
  <2> QED
    BY <1>2, <2>2, <2>3, <2>4 DEF Hand
<1> QED
  BY <1>4, <1>5, <1>6, <1>7 DEF Typed

LEMMA TypedForget ==
  ASSUME Typed, Forget, UNCHANGED <<day, part, stamp, latest, journal, exchange>>,
         file' \in Body \cup {None}, Placed(file)', upsets' \in 0 .. MaxUpsets, lost' \subseteq Ids
  PROVE  Typed'
<1>1. TypeOK'
  BY ConstantsAssumption DEF Forget, exchange, Typed, TypeOK
<1>2. Placed(mem)' /\ Hand'
  BY ConstantsAssumption DEF Forget, Typed, Placed, Hand, Outcomes
<1> QED
  BY <1>1, <1>2 DEF Typed

LEMMA TypedEnds == Typed /\ (Write \/ Die) => Typed'
<1> SUFFICES ASSUME Typed, Write \/ Die PROVE Typed'
  OBVIOUS
<1>1. CASE Write
  <2>1. file' = mem /\ Forget /\ UNCHANGED <<day, part, stamp, upsets, latest, journal, exchange, lost>>
    BY <1>1 DEF Write
  <2>2. Placed(file)' /\ file' \in Body \cup {None} /\ upsets' \in 0 .. MaxUpsets /\ lost' \subseteq Ids
    BY <2>1 DEF exchange, Typed, TypeOK, Placed
  <2> QED
    BY <2>1, <2>2, TypedForget
<1>2. CASE Die
  <2>1. Forget /\ UNCHANGED <<day, part, stamp, latest, file, journal, exchange>>
    BY <1>2 DEF Die
  <2>2. mem \in Body /\ mem.id \in Ids
    BY <1>2 DEF Die, Typed, TypeOK, Body
  <2>3. lost' \subseteq Ids
    BY <1>2, <2>2 DEF Die, Typed, TypeOK
  <2>4. upsets' \in 0 .. MaxUpsets
    BY <1>2, ConstantsAssumption DEF Die, Typed, TypeOK
  <2>5. Placed(file)' /\ file' \in Body \cup {None}
    BY <2>1 DEF exchange, Typed, TypeOK, Placed
  <2> QED
    BY <2>1, <2>3, <2>4, <2>5, TypedForget
<1> QED
  BY <1>1, <1>2

\* What the exchange does to its orders on its own.
LEMMA FillTypes ==
  ASSUME TypeOK, NEW c \in Cids, Fill(c)
  PROVE  /\ venue' \in [Cids -> Order \cup {None}]
         /\ \A d \in Cids : /\ venue[d] = None <=> venue'[d] = None
                            /\ venue'[d] # None /\ venue'[d].live => venue[d].live
<1> DEFINE live == venue[c].filled + 1 < venue[c].qty
           o == [venue[c] EXCEPT !.filled = @ + 1, !.live = live]
<1>1. venue[c] \in Order /\ venue[c].live
  BY DEF Fill, TypeOK
<1>2. o \in Order
  <2>1. venue[c].filled + 1 \in Nat
    BY <1>1 DEF Order
  <2>2. live \in BOOLEAN
    OBVIOUS
  <2> HIDE DEF live
  <2>3. \A n \in Nat, l \in BOOLEAN : [venue[c] EXCEPT !.filled = n, !.live = l] \in Order
    BY <1>1 DEF Order
  <2>4. o = [venue[c] EXCEPT !.filled = venue[c].filled + 1, !.live = live]
    OBVIOUS
  <2> QED
    BY <2>1, <2>2, <2>3, <2>4
<1>3. venue' = [venue EXCEPT ![c] = o]
  BY <1>1 DEF Fill, TypeOK, Order
<1>4. o # None
  BY <1>2, ConstantsAssumption
<1> HIDE DEF o
<1> QED
  BY <1>1, <1>2, <1>3, <1>4, ConstantsAssumption DEF TypeOK

LEMMA CloseTypes ==
  ASSUME TypeOK, NEW market, Close(market)
  PROVE  /\ venue' \in [Cids -> Order \cup {None}]
         /\ \A d \in Cids : /\ venue[d] = None <=> venue'[d] = None
                            /\ venue'[d] # None /\ venue'[d].live => venue[d].live
<1>1. \A d \in Cids : venue[d] # None =>
        [venue[d] EXCEPT !.live = FALSE] \in Order /\ ~ [venue[d] EXCEPT !.live = FALSE].live
  BY DEF TypeOK, Order
<1>2. \A d \in Cids :
        venue'[d] = IF venue[d] # None /\ d[2] \in market THEN [venue[d] EXCEPT !.live = FALSE] ELSE venue[d]
  BY DEF Close
<1>3. \A d \in Cids :
        /\ venue'[d] \in Order \cup {None}
        /\ venue[d] = None <=> venue'[d] = None
        /\ venue'[d] # None /\ venue'[d].live => venue[d].live
  <2> TAKE d \in Cids
  <2>1. CASE venue[d] # None /\ d[2] \in market
    <3>1. venue'[d] \in Order /\ ~ venue'[d].live
      BY <1>1, <1>2, <2>1
    <3> QED
      BY <2>1, <3>1, ConstantsAssumption
  <2>2. CASE ~ (venue[d] # None /\ d[2] \in market)
    BY <1>2, <2>2 DEF TypeOK
  <2> QED
    BY <2>1, <2>2
<1>4. venue' \in [Cids -> Order \cup {None}]
  BY <1>3 DEF Close
<1> QED
  BY <1>3, <1>4

LEMMA TickTypes ==
  ASSUME Typed, Tick
  PROVE  /\ venue' \in [Cids -> Order \cup {None}] /\ day' \in Days
         /\ part' \in {"night", "kr", "evening"} /\ (part' = "night" => day' > 0)
         /\ \A d \in Cids : /\ venue[d] = None <=> venue'[d] = None
                            /\ venue'[d] # None /\ venue'[d].live => venue[d].live
         /\ UNCHANGED <<stamp, upsets, latest, file, journal, posts, fire, lost>>
         /\ pc # "idle" => UNCHANGED Session /\ stamp \in Stamps'
<1>1. /\ venue' \in [Cids -> Order \cup {None}]
      /\ \A d \in Cids : /\ venue[d] = None <=> venue'[d] = None
                         /\ venue'[d] # None /\ venue'[d].live => venue[d].live
  <2>1. CASE Close(Us)
    BY <2>1, CloseTypes DEF Typed
  <2>2. CASE Close(Domestic)
    BY <2>2, CloseTypes DEF Typed
  <2>3. CASE venue' = venue
    BY <2>3 DEF Typed, TypeOK
  <2> QED
    BY <2>1, <2>2, <2>3 DEF Tick
<1>2. day' \in Days /\ part' \in {"night", "kr", "evening"} /\ (part' = "night" => day' > 0)
  BY ConstantsAssumption DEF Tick, Typed, TypeOK, Days
<1>3. pc # "idle" => UNCHANGED Session /\ stamp \in Stamps'
  <2> SUFFICES ASSUME pc # "idle" PROVE UNCHANGED Session /\ stamp \in Stamps'
    OBVIOUS
  <2>1. /\ part = "evening" /\ part' = "night" /\ day' = day + 1 /\ day \in Int /\ stamp \in Stamps
        /\ stamp \in Days
    BY DEF Tick, Typed, TypeOK, Hand, Days
  <2>2. stamp = day /\ day' - 1 = day
    BY <2>1 DEF Stamps
  <2> QED
    BY <2>1, <2>2 DEF Stamps, Session
<1> QED
  BY <1>1, <1>2, <1>3 DEF Tick

LEMMA TypedAround ==
  ASSUME Typed, Tick \/ (\E c \in Cids : Fill(c)) \/ UNCHANGED vars
  PROVE  Typed'
<1>1. /\ venue' \in [Cids -> Order \cup {None}] /\ Known
      /\ day' \in Days /\ part' \in {"night", "kr", "evening"} /\ (part' = "night" => day' > 0)
      /\ UNCHANGED <<stamp, upsets, latest, file, journal, posts, fire, lost>>
      /\ pc # "idle" => UNCHANGED Session /\ stamp \in Stamps'
  <2>1. CASE Tick
    BY <2>1, TickTypes DEF Known
  <2>2. ASSUME NEW c \in Cids, Fill(c)
        PROVE  /\ venue' \in [Cids -> Order \cup {None}] /\ Known
               /\ UNCHANGED <<day, part, stamp, upsets, latest, file, journal, posts, fire, lost>>
    BY <2>2, FillTypes DEF Typed, Known, Fill
  <2>3. CASE UNCHANGED vars
    BY <2>3 DEF vars, fire, Typed, TypeOK, Hand, Known, Session, Stamps
  <2> QED
    BY <2>1, <2>2, <2>3 DEF Typed, TypeOK, Hand, Stamps, Session
<1>2. TypeOK'
  BY <1>1 DEF fire, Typed, TypeOK
<1>3. Placed(file)' /\ Placed(mem)'
  <2>1. \A new \in Body : Placed(new) => Placed(new)'
    <3> TAKE new \in Body
    <3> HAVE Placed(new)
    <3> QED
      BY <1>1, PlacedKept
  <2> QED
    BY <1>1, <2>1 DEF fire, Typed, TypeOK, Placed
<1>4. Hand'
  <2>1. CASE pc = "idle"
    BY <1>1, <2>1, ConstantsAssumption DEF fire, Typed, TypeOK, Hand, Outcomes
  <2>2. CASE pc # "idle"
    <3>1. answer = "accepted" => mem # None /\ item \in todo /\ item \in Items
      BY <2>2, ConstantsAssumption DEF Typed, TypeOK, Hand, Outcomes
    <3>2. answer = "accepted" => venue'[Cid(item)] # None
      BY <1>1, <3>1, CidType DEF Typed, Hand, Known
    <3>3. UNCHANGED Cid(item)
      BY <1>1, <2>2 DEF fire, Cid, CidOf
    <3> QED
      BY <1>1, <2>2, <3>2, <3>3 DEF fire, Typed, Hand, Remaining
  <2> QED
    BY <2>1, <2>2
<1> QED
  BY <1>2, <1>3, <1>4 DEF Typed

LEMMA TypedStep == Typed /\ [Next]_vars => Typed'
<1> SUFFICES ASSUME Typed, [Next]_vars PROVE Typed'
  OBVIOUS
<1>1. CASE Place
  BY <1>1, TypedRefuse, TypedIntend, TypedPost, TypedAnswered, TypedEnds DEF Place
<1>2. ASSUME NEW read, Look(read) PROVE Typed'
  BY <1>2, TypedLook, TypedBegin DEF Look
<1> QED
  BY <1>1, <1>2, TypedApprove, TypedEnds, TypedAround DEF Next

\* The scenario file, the journal, the exchange and the fire stay within their types.
THEOREM Typing == Spec => []TypeOK
<1>1. Init => Typed
  BY InitTyped
<1>2. Typed /\ [Next]_vars => Typed'
  BY TypedStep
<1>3. Typed => TypeOK
  BY DEF Typed
<1> QED
  BY <1>1, <1>2, <1>3, PTL DEF Spec

-----------------------------------------------------------------------------
(* No client order id is sent twice.                                       *)

\* What reached the exchange was in the journal before, and the order about to be
\* sent never was at the exchange.
Sent ==
  /\ \A c \in Cids : posts[c] <= 1 /\ (posts[c] > 0 => Journalled(c))
  /\ pc = "post" => Journalled(Cid(item)) /\ posts[Cid(item)] = 0

\* Only a fire that intends or has its answer writes to the journal, only a POST
\* reaches the exchange.
LEMMA Quiet ==
  ASSUME TypeOK, [Next]_vars, ~ Post, ~ Answered, \A i \in Items : ~ Intend(i)
  PROVE  /\ UNCHANGED <<journal, posts>>
         /\ pc' = "post" => UNCHANGED <<stamp, Cid(item), mem, item, pc>>
<1>1. CASE Place
  BY <1>1 DEF Place, Refuse, Write, Forget, exchange
<1>2. CASE Approve \/ Die \/ Tick \/ (\E read \in SUBSET Items : Look(read)) \/ UNCHANGED vars
  <2>1. CASE Approve
    BY <2>1 DEF Approve, exchange, fire
  <2>2. CASE Die
    BY <2>2 DEF Die, Forget, exchange
  <2>3. CASE Tick
    <3>1. UNCHANGED <<journal, posts, stamp, mem, item, pc>> /\ day \in Int
      BY <2>3 DEF Tick, fire, TypeOK, Days
    <3>2. pc = "post" => UNCHANGED Session
      BY <2>3, <3>1 DEF Tick, Session
    <3> QED
      BY <3>1, <3>2 DEF Cid, CidOf
  <2>4. ASSUME NEW read, Look(read)
        PROVE  /\ UNCHANGED <<journal, posts>>
               /\ pc' = "post" => UNCHANGED <<stamp, Cid(item), mem, item, pc>>
    <3>1. UNCHANGED <<journal, posts>> /\ pc = "idle"
      BY <2>4 DEF Look, Finish, Hold, Begin, Fires, exchange
    <3>2. pc' \in {"idle", "next"}
      BY <2>4, <3>1 DEF Look, Finish, Hold, Begin, fire
    <3> QED
      BY <3>1, <3>2
  <2>5. CASE UNCHANGED vars
    BY <2>5 DEF vars, Cid, CidOf, Session
  <2> QED
    BY <1>2, <2>1, <2>2, <2>3, <2>4, <2>5
<1>3. ASSUME NEW c \in Cids, Fill(c)
      PROVE  UNCHANGED <<journal, posts, stamp, Cid(item), mem, item, pc>>
  BY <1>3 DEF Fill, fire, Cid, CidOf, Session
<1> QED
  BY <1>1, <1>2, <1>3 DEF Next

\* What logging one row does to the journal.
LEMMA Logged ==
  ASSUME NEW i, NEW state, Log(i, state)
  PROVE  /\ \A c : Journalled(c)' <=> Journalled(c) \/ c = Cid(i)
         /\ \A c : Accepted(c)' <=> Accepted(c) \/ (c = Cid(i) /\ state = "accepted")
<1> DEFINE row == [state |-> state, cid |-> Cid(i), day |-> stamp, est |-> Remaining(mem, i) * quote[i]]
<1>1. journal' = journal \cup {row}
  BY DEF Log
<1>2. row.cid = Cid(i) /\ row.state = state
  OBVIOUS
<1> HIDE DEF row
<1> QED
  BY <1>1, <1>2 DEF Journalled, Accepted

LEMMA SentStep == Typed /\ Sent /\ [Next]_vars => Sent'
<1> SUFFICES ASSUME Typed, Sent, [Next]_vars PROVE Sent'
  OBVIOUS
<1>1. ASSUME NEW i \in Items, Intend(i) PROVE Sent'
  <2>1. mem # None /\ Cid(i) \in Cids /\ posts[Cid(i)] \in Nat
    BY <1>1, CidType DEF Intend, Typed, TypeOK
  <2>2. (Cid(item))' = Cid(i) /\ UNCHANGED posts /\ Log(i, "intent") /\ ~ Journalled(Cid(i))
    BY <1>1 DEF Intend, exchange, Cid, CidOf, Session
  <2>3. posts[Cid(i)] = 0
    BY <2>1, <2>2 DEF Sent
  <2> QED
    BY <2>2, <2>3, Logged DEF Sent
<1>2. CASE Post
  <2>1. /\ mem # None /\ item \in todo /\ item \in Items /\ pc = "post" /\ pc' = "answer"
        /\ UNCHANGED journal /\ (Reach(item) \/ UNCHANGED posts)
    BY <1>2 DEF Post, exchange, Typed, TypeOK, Hand
  <2>2. \A c \in Cids : Journalled(c)' <=> Journalled(c)
    BY <2>1 DEF Journalled
  <2>3. CASE Reach(item)
    <3>1. \A c \in Cids : posts'[c] = posts[c] \/ (c = Cid(item) /\ posts'[c] = posts[c] + 1)
      BY <2>1, <2>3, ReachTypes DEF Typed
    <3>2. \A c \in Cids : posts'[c] <= 1 /\ (posts'[c] > 0 => Journalled(c))
      BY <2>1, <3>1 DEF Sent
    <3> QED
      BY <2>1, <2>2, <3>2 DEF Sent
  <2>4. CASE UNCHANGED posts
    BY <2>1, <2>2, <2>4 DEF Sent
  <2> QED
    BY <2>1, <2>3, <2>4
<1>3. CASE Answered
  <2>1. pc' # "post" /\ UNCHANGED posts /\ Log(item, answer)
    BY <1>3, AnsweredKeeps DEF Answered, exchange
  <2> QED
    BY <2>1, Logged DEF Sent
<1>4. CASE ~ Post /\ ~ Answered /\ \A i \in Items : ~ Intend(i)
  <2>1. UNCHANGED <<journal, posts>> /\ (pc' = "post" => UNCHANGED <<stamp, Cid(item), mem, item, pc>>)
    BY <1>4, Quiet DEF Typed
  <2> QED
    BY <2>1 DEF Sent, Journalled
<1> QED
  BY <1>1, <1>2, <1>3, <1>4

\* A fire that died after its POST, or lost the answer, never sends that order again:
\* the intent row was written first, and _place looks for the id there.
THEOREM NeverResent == Spec => []SentOnce
<1>1. Init => Typed /\ Sent
  <2>1. Init => Sent
    BY DEF Init, Sent
  <2> QED
    BY <2>1, InitTyped
<1>2. Typed /\ Sent /\ [Next]_vars => (Typed /\ Sent)'
  BY TypedStep, SentStep
<1>3. Typed /\ Sent => SentOnce
  BY DEF Sent, SentOnce
<1> QED
  BY <1>1, <1>2, <1>3, PTL DEF Spec

-----------------------------------------------------------------------------
(* A live order the exchange accepted is open in the scenario file.        *)

\* The scenario has the order of c open.
OpenIn(body, c) ==
  /\ body # None
  /\ body.id = c[1] /\ body.open[c[2]] # None /\ body.open[c[2]].cid = c

LiveAt(c) == venue[c] # None /\ venue[c].live /\ Accepted(c) /\ c[1] \notin lost

\* What a fire has in hand is the scenario of the file.
SameScenario ==
  /\ pc # "idle" => file # None /\ mem.id = file.id /\ mem.items = file.items
  /\ \A i \in todo : i \in mem.items

OnlyItsItems(body) ==
  body # None => \A i \in Items : body.open[i] # None => i \in body.items

\* A live order is in the scenario file, and the fire that runs has it too.  What only the
\* fire has is an order of its own session that reached the exchange.
Tracking ==
  /\ SameScenario /\ OnlyItsItems(file) /\ OnlyItsItems(mem)
  /\ pc \in {"post", "answer"} => ~ Accepted(Cid(item))
  /\ answer = "accepted" => posts[Cid(item)] > 0
  /\ pc # "idle" => \A c \in Cids : OpenIn(mem, c) =>
                      OpenIn(file, c) \/ (c = Cid(c[2]) /\ posts[c] > 0)
  /\ \A c \in Cids : LiveAt(c) => OpenIn(IF pc = "idle" THEN file ELSE mem, c)

\* An order that is live after a step was live before, unless it was just sent or accepted.
LEMMA StaysLive ==
  ASSUME Typed, [Next]_vars, ~ Post, ~ Answered, NEW c \in Cids, LiveAt(c)'
  PROVE  LiveAt(c)
<1>1. CASE Place
  <2>1. ASSUME NEW i \in Items, Intend(i) PROVE LiveAt(c)
    <3>1. UNCHANGED <<venue, lost>> /\ Log(i, "intent")
      BY <2>1 DEF Intend, exchange
    <3> QED
      BY <3>1, Logged DEF LiveAt
  <2>2. ASSUME (\E i \in Items : Refuse(i)) \/ Write PROVE LiveAt(c)
    BY <2>2 DEF Refuse, Write, exchange, LiveAt, Accepted
  <2> QED
    BY <1>1, <2>1, <2>2 DEF Place
<1>2. CASE Tick
  BY <1>2, TickTypes DEF LiveAt, Accepted
<1>3. ASSUME NEW d \in Cids, Fill(d) PROVE LiveAt(c)
  <2>1. venue'[c] # None /\ venue'[c].live => venue[c] # None /\ venue[c].live
    BY <1>3, FillTypes DEF Typed
  <2>2. UNCHANGED <<journal, lost>>
    BY <1>3 DEF Fill
  <2> QED
    BY <2>1, <2>2 DEF LiveAt, Accepted
<1>4. CASE Approve
  BY <1>4 DEF Approve, exchange, LiveAt, Accepted
<1>5. CASE Die
  BY <1>5 DEF Die, exchange, LiveAt, Accepted
<1>6. ASSUME NEW read, Look(read) PROVE LiveAt(c)
  BY <1>6 DEF Look, Finish, Hold, Begin, exchange, LiveAt, Accepted
<1>7. CASE UNCHANGED vars
  BY <1>7 DEF vars, LiveAt, Accepted
<1> QED
  BY <1>1, <1>2, <1>3, <1>4, <1>5, <1>6, <1>7 DEF Next

LEMMA TrackingApprove == Typed /\ Tracking /\ Approve => Tracking'
<1> SUFFICES ASSUME Typed, Tracking, Approve PROVE Tracking'
  OBVIOUS
<1>1. pc = "idle" /\ pc' = "idle" /\ UNCHANGED <<fire, exchange, journal, lost>> /\ ~ Post /\ ~ Answered
  BY DEF Approve, fire, Post, Answered
<1>2. \A c \in Cids : ~ LiveAt(c)
  <2> SUFFICES ASSUME NEW c \in Cids, LiveAt(c) PROVE FALSE
    OBVIOUS
  <2>1. file # None /\ file.open[c[2]] # None /\ c[2] \in Items
    BY <1>1 DEF Tracking, OpenIn, Cids
  <2>2. c[2] \in file.items
    BY <2>1 DEF Tracking, OnlyItsItems
  <2> QED
    BY <2>1, <2>2 DEF Approve, MayReplace
<1>3. \A c \in Cids : ~ LiveAt(c)'
  BY <1>1, <1>2, StaysLive DEF Next
<1>4. OnlyItsItems(file)'
  BY DEF Approve, OnlyItsItems
<1> QED
  BY <1>1, <1>3, <1>4, ConstantsAssumption
     DEF Typed, TypeOK, Hand, fire, Tracking, SameScenario, OnlyItsItems, Outcomes

\* Reading back keeps the orders that are live.
LEMMA TrackedKeeps ==
  ASSUME Typed, Tracking, file # None, pc = "idle", NEW read, read \subseteq Open(file)
  PROVE  /\ \A c \in Cids : LiveAt(c) => OpenIn(Tracked(read), c)
         /\ \A c \in Cids : OpenIn(Tracked(read), c) => OpenIn(file, c)
         /\ OnlyItsItems(Tracked(read))
<1> DEFINE body == Tracked(read)
<1>1. /\ body \in Body /\ body # None /\ body.id = file.id /\ body.items = file.items
      /\ \A i \in Items : \/ body.open[i] = file.open[i]
                          \/ /\ body.open[i] = None /\ file.open[i] # None
                             /\ venue[file.open[i].cid] # None /\ ~ venue[file.open[i].cid].live
  BY TrackedTypes, ConstantsAssumption
<1> HIDE DEF body
<1>2. \A c \in Cids : c[2] \in Items
  BY DEF Cids
<1>3. \A c \in Cids : LiveAt(c) => OpenIn(body, c)
  BY <1>1, <1>2 DEF Tracking, OpenIn, LiveAt
<1>4. \A c \in Cids : OpenIn(body, c) => OpenIn(file, c)
  BY <1>1, <1>2 DEF OpenIn
<1>5. OnlyItsItems(body)
  BY <1>1 DEF Tracking, OnlyItsItems
<1> QED
  BY <1>3, <1>4, <1>5 DEF body

LEMMA TrackingLook ==
  ASSUME Typed, Tracking, NEW read, Look(read)
  PROVE  Tracking'
<1> DEFINE body == Tracked(read)
<1>1. /\ file # None /\ read \subseteq Open(file) /\ pc = "idle" /\ ~ Post /\ ~ Answered
      /\ UNCHANGED <<exchange, journal, lost, answer, item>> /\ answer = None
  BY DEF Look, Finish, Hold, Begin, Fires, Post, Answered, fire, Typed, TypeOK
<1>2. /\ body \in Body /\ body # None /\ body.id = file.id /\ body.items = file.items
  BY <1>1, TrackedTypes, ConstantsAssumption
<1>3. /\ Tried(body) \in Body /\ Tried(body) # None /\ Tried(body).id = body.id
      /\ Tried(body).items = body.items /\ Tried(body).open = body.open
  BY <1>2, TriedKeeps, ConstantsAssumption DEF Typed
<1>4. \A c \in Cids : LiveAt(c)' => LiveAt(c)
  BY <1>1, StaysLive DEF Next, Look, exchange, LiveAt, Accepted
<1>5. CASE Finish(read) \/ Hold(read)
  <2>1. /\ file' \in Body /\ file' # None /\ file'.id = body.id /\ file'.items = body.items
        /\ file'.open = body.open
    <3>1. CASE Finish(read)
      <4>1. file' = body \/ file' = [body EXCEPT !.status = "expired"]
        BY <3>1 DEF Finish
      <4> QED
        BY <1>2, <4>1, StatusKeeps, ConstantsAssumption DEF Statuses
    <3>2. CASE Hold(read)
      <4>1. \/ file' = body \/ file' = Tried(body)
            \/ file' = [Tried(body) EXCEPT !.status = "stopped"]
        BY <3>2 DEF Hold
      <4> QED
        BY <1>2, <1>3, <4>1, StatusKeeps, ConstantsAssumption DEF Statuses
    <3> QED
      BY <1>5, <3>1, <3>2
  <2>2. UNCHANGED fire /\ pc' = "idle"
    BY <1>1, <1>5 DEF Finish, Hold, fire
  <2>3. \A c \in Cids : LiveAt(c)' => OpenIn(file, c)'
    BY <1>1, <1>4, <2>1, TrackedKeeps DEF OpenIn
  <2>4. OnlyItsItems(file)'
    BY <1>1, <2>1, TrackedKeeps, <1>2 DEF OnlyItsItems
  <2> QED
    BY <1>1, <2>2, <2>3, <2>4, ConstantsAssumption
       DEF Typed, Hand, fire, Tracking, SameScenario, OnlyItsItems, Outcomes
<1>6. CASE Begin(read)
  <2>1. mem' = Tried(body) /\ pc' = "next" /\ UNCHANGED file /\ todo' = Wanted(body)
    BY <1>6 DEF Begin
  <2>2. SameScenario'
    BY <1>1, <1>2, <1>3, <2>1 DEF SameScenario, Wanted
  <2>3. OnlyItsItems(file)' /\ OnlyItsItems(mem)'
    BY <1>1, <1>2, <1>3, <2>1, TrackedKeeps DEF Tracking, OnlyItsItems
  <2>4. \A c \in Cids : LiveAt(c)' => OpenIn(mem, c)'
    BY <1>1, <1>2, <1>3, <1>4, <2>1, TrackedKeeps DEF OpenIn
  <2>5. \A c \in Cids : OpenIn(mem, c)' => OpenIn(file, c)'
    BY <1>1, <1>2, <1>3, <2>1, TrackedKeeps DEF OpenIn
  <2> QED
    BY <1>1, <2>1, <2>2, <2>3, <2>4, <2>5, ConstantsAssumption DEF Tracking, Outcomes
<1> QED
  BY <1>5, <1>6 DEF Look

LEMMA TrackingRefuse == ASSUME Typed, Tracking, NEW i \in Items, Refuse(i) PROVE Tracking'
<1>1. /\ mem # None /\ mem \in Body /\ item = None /\ answer = None /\ pc # "idle" /\ pc' = "write"
      /\ UNCHANGED <<day, part, file, exchange, journal, lost, answer, todo>> /\ ~ Post /\ ~ Answered
  BY DEF Refuse, Typed, TypeOK, Post, Answered
<1>2. mem' # None /\ mem'.open = mem.open /\ mem'.id = mem.id /\ mem'.items = mem.items
  BY <1>1, StatusKeeps, ConstantsAssumption DEF Refuse, Statuses
<1>3. \A c \in Cids : (OpenIn(mem, c)' <=> OpenIn(mem, c)) /\ (OpenIn(file, c)' <=> OpenIn(file, c))
  BY <1>1, <1>2 DEF OpenIn
<1>4. \A c \in Cids : LiveAt(c)' => LiveAt(c)
  BY <1>1 DEF LiveAt, Accepted, exchange
<1>5. \A x : (Cid(x))' = Cid(x)
  BY <1>1, <1>2 DEF Cid, CidOf, Session
<1>6. SameScenario' /\ OnlyItsItems(file)' /\ OnlyItsItems(mem)'
  BY <1>1, <1>2 DEF Tracking, SameScenario, OnlyItsItems
<1> QED
  BY <1>1, <1>3, <1>4, <1>5, <1>6, ConstantsAssumption DEF Tracking, Outcomes, exchange

LEMMA TrackingIntend ==
  ASSUME Typed, Sent, Tracking, NEW i \in Items, Intend(i) PROVE Tracking'
<1>1. /\ mem # None /\ answer = None /\ pc = "next" /\ pc' = "post" /\ item' = i
      /\ UNCHANGED <<day, part, file, venue, posts, lost, answer, todo, mem>> /\ ~ Post /\ ~ Answered
      /\ Log(i, "intent") /\ ~ Journalled(Cid(i))
  BY DEF Intend, exchange, Typed, TypeOK, Post, Answered
<1>2. \A c : Accepted(c)' <=> Accepted(c)
  BY <1>1, Logged
<1>3. \A c \in Cids : (OpenIn(mem, c)' <=> OpenIn(mem, c)) /\ (OpenIn(file, c)' <=> OpenIn(file, c))
  BY <1>1 DEF OpenIn
<1>4. \A c \in Cids : LiveAt(c)' => LiveAt(c)
  BY <1>1, <1>2 DEF LiveAt
<1>5. \A x : (Cid(x))' = Cid(x)
  BY <1>1 DEF Cid, CidOf, Session
<1>6. SameScenario' /\ OnlyItsItems(file)' /\ OnlyItsItems(mem)'
  BY <1>1 DEF Tracking, SameScenario, OnlyItsItems
<1>7. ~ Accepted(Cid(item))'
  <2>1. ~ Accepted(Cid(i))
    BY <1>1 DEF Journalled, Accepted
  <2>2. (Cid(item))' = Cid(i)
    BY <1>1 DEF Cid, CidOf, Session
  <2> QED
    BY <1>2, <2>1, <2>2 DEF Accepted
<1> QED
  BY <1>1, <1>3, <1>4, <1>5, <1>6, <1>7, ConstantsAssumption DEF Tracking, Outcomes

LEMMA TrackingPost == Typed /\ Tracking /\ Post => Tracking'
<1> SUFFICES ASSUME Typed, Tracking, Post PROVE Tracking'
  OBVIOUS
<1>1. /\ mem # None /\ item \in todo /\ item \in Items /\ pc = "post" /\ pc' = "answer"
      /\ UNCHANGED <<day, part, file, journal, mem, todo, item, lost>>
  BY DEF Post, Typed, TypeOK, Hand
<1>2. \/ Reach(item)
      \/ UNCHANGED exchange /\ answer' # "accepted"
  BY DEF Post
<1>3. /\ \A c \in Cids : posts'[c] >= posts[c] /\ (c # Cid(item) => venue'[c] = venue[c])
      /\ answer' = "accepted" => posts'[Cid(item)] > 0
  <2>1. CASE Reach(item)
    <3>1. /\ \A c \in Cids : c # Cid(item) => venue'[c] = venue[c] /\ posts'[c] = posts[c]
          /\ posts'[Cid(item)] = posts[Cid(item)] + 1
      BY <1>1, <2>1, ReachTypes DEF Typed
    <3>2. Cid(item) \in Cids /\ \A c \in Cids : posts[c] \in Nat
      BY <1>1, CidType DEF Typed, TypeOK
    <3> QED
      BY <3>1, <3>2
  <2>2. CASE UNCHANGED exchange /\ answer' # "accepted"
    BY <2>2 DEF exchange, Typed, TypeOK
  <2> QED
    BY <1>2, <2>1, <2>2
<1>4. \A c : Accepted(c)' <=> Accepted(c)
  BY <1>1 DEF Accepted
<1>5. \A x : (Cid(x))' = Cid(x)
  BY <1>1 DEF Cid, CidOf, Session
<1>6. /\ (Cid(item))' = Cid(item)
      /\ Accepted(Cid(item))' <=> Accepted(Cid(item))
  BY <1>1 DEF Cid, CidOf, Session, Accepted
<1>7. \A c \in Cids : LiveAt(c)' => LiveAt(c)
  BY <1>1, <1>3, <1>4 DEF LiveAt, Tracking
<1>8. \A c \in Cids : (OpenIn(mem, c)' <=> OpenIn(mem, c)) /\ (OpenIn(file, c)' <=> OpenIn(file, c))
  BY <1>1 DEF OpenIn
<1>9. SameScenario' /\ OnlyItsItems(file)' /\ OnlyItsItems(mem)'
  BY <1>1 DEF Tracking, SameScenario, OnlyItsItems
<1>10. \A c \in Cids : OpenIn(mem, c)' => OpenIn(file, c)' \/ ((c = Cid(c[2]))' /\ posts'[c] > 0)
  <2> TAKE c \in Cids
  <2> HAVE OpenIn(mem, c)'
  <2>1. OpenIn(file, c) \/ (c = Cid(c[2]) /\ posts[c] > 0)
    BY <1>1, <1>8 DEF Tracking
  <2>2. posts[c] \in Nat /\ posts'[c] \in Nat
    <3>1. posts' \in [Cids -> Nat]
      BY TypedPost DEF Typed, TypeOK
    <3> QED
      BY <3>1 DEF Typed, TypeOK
  <2> QED
    BY <1>3, <1>5, <1>8, <2>1, <2>2
<1>11. answer' = "accepted" => (posts[Cid(item)])' > 0
  BY <1>3, <1>6
<1>12. ~ Accepted(Cid(item))'
  BY <1>1, <1>6 DEF Tracking
<1>13. \A c \in Cids : LiveAt(c)' => OpenIn(mem, c)'
  BY <1>1, <1>7, <1>8 DEF Tracking
<1> QED
  BY <1>1, <1>9, <1>10, <1>11, <1>12, <1>13 DEF Tracking

LEMMA TrackingAnswered == Typed /\ Sent /\ Tracking /\ Answered => Tracking'
<1> SUFFICES ASSUME Typed, Sent, Tracking, Answered PROVE Tracking'
  OBVIOUS
<1>1. /\ mem # None /\ mem \in Body /\ item \in todo /\ item \in Items /\ pc = "answer"
      /\ item' = None /\ answer' = None /\ Log(item, answer) /\ mem.open[item] = None
      /\ UNCHANGED <<day, part, file, venue, posts, lost>>
  BY DEF Answered, exchange, Typed, TypeOK, Hand
<1>2. /\ mem' \in Body /\ mem' # None /\ mem'.id = mem.id /\ mem'.items = mem.items
      /\ pc' \in {"next", "write"} /\ todo' \subseteq todo
  BY AnsweredKeeps, ConstantsAssumption
<1>3. Cid(item) \in Cids /\ Cid(item)[1] = mem.id /\ Cid(item)[2] = item
  BY <1>1, CidType DEF Typed
<1>4. \A x : (Cid(x))' = Cid(x)
  BY <1>1, <1>2 DEF Cid, CidOf, Session
<1>5. SameScenario' /\ OnlyItsItems(file)'
  BY <1>1, <1>2 DEF Tracking, SameScenario, OnlyItsItems
<1>6. \A c \in Cids : c[2] \in Items
  BY DEF Cids
<1>7. CASE answer = "accepted"
  <2>1. /\ \A i \in Items : i # item => mem'.open[i] = mem.open[i]
        /\ mem'.open[item] = Accepting(item)
    BY <1>1, <1>7, AnsweredKeeps DEF Body
  <2>2. Accepting(item).cid = Cid(item) /\ Accepting(item) # None
    BY <1>1, AcceptingType DEF Typed
  <2>3. \A c \in Cids : OpenIn(mem, c) => OpenIn(mem, c)'
    <3> TAKE c \in Cids
    <3> HAVE OpenIn(mem, c)
    <3>1. c[2] # item
      BY <1>1 DEF OpenIn
    <3> QED
      BY <1>2, <1>6, <2>1, <3>1 DEF OpenIn
  <2>4. \A c \in Cids : c = Cid(item) => OpenIn(mem, c)'
    BY <1>2, <1>3, <2>1, <2>2 DEF OpenIn
  <2>5. \A c \in Cids : OpenIn(mem, c)' => OpenIn(mem, c) \/ c = Cid(item)
    <3> TAKE c \in Cids
    <3> HAVE OpenIn(mem, c)'
    <3>1. CASE c[2] = item
      BY <2>1, <2>2, <3>1 DEF OpenIn
    <3>2. CASE c[2] # item
      BY <1>1, <1>2, <1>6, <2>1, <3>2 DEF OpenIn
    <3> QED
      BY <3>1, <3>2
  <2>6. \A c \in Cids : LiveAt(c)' => OpenIn(mem, c)'
    <3> TAKE c \in Cids
    <3> HAVE LiveAt(c)'
    <3>1. LiveAt(c) \/ c = Cid(item)
      BY <1>1, Logged DEF LiveAt
    <3> QED
      BY <1>1, <2>3, <2>4, <3>1 DEF Tracking
  <2>7. \A c \in Cids : OpenIn(mem, c)' => OpenIn(file, c)' \/ ((c = Cid(c[2]))' /\ posts'[c] > 0)
    <3> TAKE c \in Cids
    <3> HAVE OpenIn(mem, c)'
    <3>1. CASE OpenIn(mem, c)
      BY <1>1, <1>4, <3>1 DEF Tracking, OpenIn
    <3>2. CASE c = Cid(item)
      BY <1>1, <1>3, <1>4, <1>7, <3>2 DEF Tracking
    <3> QED
      BY <2>5, <3>1, <3>2
  <2>8. OnlyItsItems(mem)'
    BY <1>1, <1>2, <2>1 DEF Tracking, SameScenario, OnlyItsItems
  <2> QED
    BY <1>1, <1>2, <1>5, <2>6, <2>7, <2>8, ConstantsAssumption DEF Tracking, Outcomes
<1>8. CASE answer # "accepted"
  <2>1. mem'.open = mem.open
    BY <1>8, AnsweredKeeps
  <2>2. \A c \in Cids : (OpenIn(mem, c)' <=> OpenIn(mem, c)) /\ (OpenIn(file, c)' <=> OpenIn(file, c))
    BY <1>1, <1>2, <2>1 DEF OpenIn
  <2>3. \A c \in Cids : LiveAt(c)' => LiveAt(c)
    BY <1>1, <1>8, Logged DEF LiveAt
  <2>4. OnlyItsItems(mem)'
    BY <1>1, <1>2, <2>1 DEF Tracking, OnlyItsItems
  <2>5. \A c \in Cids : OpenIn(mem, c)' => OpenIn(file, c)' \/ ((c = Cid(c[2]))' /\ posts'[c] > 0)
    BY <1>1, <1>4, <2>2 DEF Tracking
  <2>6. \A c \in Cids : LiveAt(c)' => OpenIn(mem, c)'
    BY <1>1, <2>2, <2>3 DEF Tracking
  <2> QED
    BY <1>1, <1>2, <1>5, <2>4, <2>5, <2>6, ConstantsAssumption DEF Tracking, Outcomes
<1> QED
  BY <1>7, <1>8

LEMMA TrackingWrite == Typed /\ Tracking /\ Write => Tracking'
<1> SUFFICES ASSUME Typed, Tracking, Write PROVE Tracking'
  OBVIOUS
<1>1. /\ pc # "idle" /\ file' = mem /\ pc' = "idle" /\ mem' = None /\ todo' = {} /\ answer' = None
      /\ UNCHANGED <<journal, venue, lost>>
  BY DEF Write, Forget, exchange
<1>2. \A c \in Cids : LiveAt(c)' => LiveAt(c)
  BY <1>1 DEF LiveAt, Accepted
<1>3. \A c \in Cids : OpenIn(mem, c) => OpenIn(file, c)'
  BY <1>1 DEF OpenIn
<1>4. SameScenario' /\ OnlyItsItems(file)' /\ OnlyItsItems(mem)'
  BY <1>1 DEF Tracking, SameScenario, OnlyItsItems
<1> QED
  BY <1>1, <1>2, <1>3, <1>4, ConstantsAssumption DEF Tracking, Outcomes

\* A death loses nothing that was written down: any other scenario is counted as lost.
LEMMA TrackingDie == Typed /\ Tracking /\ Die => Tracking'
<1> SUFFICES ASSUME Typed, Tracking, Die PROVE Tracking'
  OBVIOUS
<1>1. /\ pc # "idle" /\ pc' = "idle" /\ mem' = None /\ todo' = {} /\ answer' = None
      /\ UNCHANGED <<file, journal, exchange>>
  BY DEF Die, Forget
<1>2. /\ lost \subseteq lost'
      /\ Unwritten # {} => mem.id \in lost'
  BY DEF Die
<1>3. \A c \in Cids : LiveAt(c)' => OpenIn(file, c)
  <2> SUFFICES ASSUME NEW c \in Cids, LiveAt(c)' PROVE OpenIn(file, c)
    OBVIOUS
  <2>1. LiveAt(c) /\ c[1] \notin lost'
    BY <1>1, <1>2 DEF LiveAt, Accepted, exchange
  <2>2. OpenIn(mem, c)
    BY <1>1, <2>1 DEF Tracking
  <2>3. CASE c = Cid(c[2]) /\ posts[c] > 0
    <3>1. c[2] \notin Unwritten
      BY <1>2, <2>1, <2>2 DEF OpenIn
    <3>2. file.open[c[2]] # None /\ file.open[c[2]].cid = c
      BY <2>3, <3>1 DEF Unwritten, Cids
    <3> QED
      BY <1>1, <2>2, <3>2 DEF OpenIn, Tracking, SameScenario
  <2> QED
    BY <1>1, <2>2, <2>3 DEF Tracking
<1>4. SameScenario' /\ OnlyItsItems(file)' /\ OnlyItsItems(mem)'
  BY <1>1 DEF Tracking, SameScenario, OnlyItsItems
<1>5. \A c \in Cids : LiveAt(c)' => OpenIn(file, c)'
  BY <1>1, <1>3 DEF OpenIn
<1> QED
  BY <1>1, <1>4, <1>5, ConstantsAssumption DEF Tracking, Outcomes

LEMMA TrackingAround ==
  ASSUME Typed, Tracking, Tick \/ (\E c \in Cids : Fill(c)) \/ UNCHANGED vars
  PROVE  Tracking'
<1>1. /\ UNCHANGED <<file, journal, posts, fire, lost>>
      /\ pc = "idle" \/ UNCHANGED Session
      /\ ~ Post /\ ~ Answered
  <2>1. UNCHANGED pc => ~ Post /\ ~ Answered
    BY AnsweredKeeps DEF Post, Answered
  <2>2. CASE Tick
    BY <2>1, <2>2, TickTypes DEF fire
  <2>3. ASSUME NEW c \in Cids, Fill(c)
        PROVE  UNCHANGED <<day, part, file, journal, posts, fire, lost>>
    BY <2>3 DEF Fill
  <2>4. CASE UNCHANGED vars
    BY <2>1, <2>4 DEF vars, fire, Session
  <2> QED
    BY <2>1, <2>2, <2>3, <2>4 DEF fire, Session
<1>2. \A c \in Cids : LiveAt(c)' => LiveAt(c)
  BY <1>1, StaysLive DEF Next
<1>3. SameScenario' /\ OnlyItsItems(file)' /\ OnlyItsItems(mem)'
  BY <1>1 DEF fire, Tracking, SameScenario, OnlyItsItems
<1>4. \A c \in Cids : (OpenIn(mem, c)' <=> OpenIn(mem, c)) /\ (OpenIn(file, c)' <=> OpenIn(file, c))
  BY <1>1 DEF fire, OpenIn
<1>5. CASE pc = "idle"
  <2>1. answer' # "accepted"
    BY <1>1, <1>5, ConstantsAssumption DEF fire, Typed, TypeOK, Outcomes
  <2> QED
    BY <1>1, <1>2, <1>3, <1>4, <1>5, <2>1 DEF fire, Tracking
<1>6. CASE pc # "idle"
  <2>1. \A x : (Cid(x))' = Cid(x)
    BY <1>1, <1>6 DEF fire, Cid, CidOf
  <2>2. (Cid(item))' = Cid(item) /\ (Accepted(Cid(item))' <=> Accepted(Cid(item)))
    BY <1>1, <1>6 DEF fire, Cid, CidOf, Accepted
  <2> QED
    BY <1>1, <1>2, <1>3, <1>4, <1>6, <2>1, <2>2 DEF fire, Tracking
<1> QED
  BY <1>5, <1>6

LEMMA TrackingStep == Typed /\ Sent /\ Tracking /\ [Next]_vars => Tracking'
<1> SUFFICES ASSUME Typed, Sent, Tracking, [Next]_vars PROVE Tracking'
  OBVIOUS
<1>1. CASE Place
  BY <1>1, TrackingRefuse, TrackingIntend, TrackingPost, TrackingAnswered, TrackingWrite DEF Place
<1>2. ASSUME NEW read, Look(read) PROVE Tracking'
  BY <1>2, TrackingLook
<1> QED
  BY <1>1, <1>2, TrackingApprove, TrackingDie, TrackingAround DEF Next

\* approve says a replaced scenario takes its open orders' tracking with it, so it replaces
\* none that has one; and no fill, failed read, refusal or lost answer loses an order the
\* exchange accepted, while its fire lives to write the file.
THEOREM NoneIsForgotten == Spec => []LiveIsOpen
<1>1. Init => Typed /\ Sent /\ Tracking
  <2>1. Init => Sent /\ Tracking
    BY ConstantsAssumption DEF Init, Sent, Tracking, SameScenario, OnlyItsItems, LiveAt, Outcomes
  <2> QED
    BY <2>1, InitTyped
<1>2. Typed /\ Sent /\ Tracking /\ [Next]_vars => (Typed /\ Sent /\ Tracking)'
  BY TypedStep, SentStep, TrackingStep
<1>3. Tracking => LiveIsOpen
  BY DEF Tracking, LiveIsOpen, LiveAt, OpenIn
<1> QED
  BY <1>1, <1>2, <1>3, PTL DEF Spec

=============================================================================
