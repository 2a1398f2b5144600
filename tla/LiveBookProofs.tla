---------------------------- MODULE LiveBookProofs ----------------------------
(***************************************************************************)
(* Proofs about LiveBook, for any processes, entries and symbols: what the *)
(* files and the processes can hold; that no settlement has two rows, and  *)
(* the money of a position is recorded before its record goes; that no two *)
(* entries are live on one symbol, no leg rests beside another position,   *)
(* and every live entry is booked or claimed until a claim nobody booked   *)
(* has expired; and how far the cap on the number of positions holds.      *)
(***************************************************************************)
EXTENDS LiveBook, FiniteSetTheorems, TLAPS

-----------------------------------------------------------------------------
(* The helpers.                                                            *)

\* The venue shows a whole number of units.
LEMMA HeldFinite ==
  ASSUME NEW s PROVE IsFiniteSet({u \in EntriesOn(s) \X (1 .. Full) : u[2] <= units[u[1]]})
<1>1. IsFiniteSet(EntriesOn(s)) /\ IsFiniteSet(1 .. Full)
  BY EntriesAssumption, FS_Subset, FS_Interval DEF EntriesOn, Full
<1> QED
  BY <1>1, FS_Product, FS_Subset

LEMMA HeldType == ASSUME NEW s PROVE Held(s) \in Nat
  BY HeldFinite, FS_CardinalityType DEF Held

\* What fills takes units away, and names what it flattened.
LEMMA FillTypes ==
  ASSUME units \in [Entries -> 0 .. Full], took \in [Entries -> Orders \cup {None}],
         NEW s \in Symbols, NEW n \in 1 .. Full, NEW by \in Orders, Fill(s, n, by)
  PROVE  /\ units' \in [Entries -> 0 .. Full] /\ took' \in [Entries -> Orders \cup {None}]
         /\ \A e \in Entries : units'[e] <= units[e]
<1>1. PICK h \in EntriesOn(s) :
        /\ units[h] > 0
        /\ units' = [units EXCEPT ![h] = IF @ > n THEN @ - n ELSE 0]
        /\ took' = [took EXCEPT ![h] = IF units[h] > n THEN @ ELSE by]
  BY DEF Fill
<1> QED
  BY <1>1 DEF EntriesOn, Full

-----------------------------------------------------------------------------
(* Types, and what a process has in hand at each step.                     *)

\* The files, the venue and the clock.
WorldOK ==
  /\ now \in Times /\ halted \in BOOLEAN /\ upsets \in 0 .. MaxUpsets
  /\ order \in [Entries -> {"none", "wire", "part", "full", "short", "dead"}]
  /\ units \in [Entries -> 0 .. Full]
  /\ resting \in [Entries -> SUBSET Legs] /\ fired \in [Entries -> SUBSET Legs]
  /\ took \in [Entries -> Orders \cup {None}] /\ closes \subseteq Orders
  /\ book \in [Symbols -> Entries \cup {None}] /\ claim \in [Symbols -> Claims \cup {None}]
  /\ rows \in Seq([pos : Entries, exit : Orders])

\* The memory of the processes.
ProcsOK ==
  /\ pc \in [Procs -> Places] /\ job \in [Procs -> Entries \cup {None}]
  /\ why \in [Procs -> Flows]
  /\ seen \in [Procs -> [Symbols -> Nat]] /\ at \in [Procs -> Times \cup {None}]
  /\ todo \in [Procs -> SUBSET Entries] /\ exit \in [Procs -> Orders \cup {None}]
  /\ keep \in [Procs -> BOOLEAN]

\* A process at work on a position has it in hand; a close has its reason; an
\* outcome has its exit order, and so has a naked close that gives the symbol back.
HandOf(p) ==
  /\ pc[p] \notin {"idle", "venue", "pass"} => job[p] \in Entries
  /\ pc[p] \in {"claimed", "ready", "sent", "stop", "book"} => why[p] = "entry"
  /\ pc[p] = "target" => why[p] \in {"entry", "naked"}
  /\ pc[p] = "time" => why[p] = "time"
  /\ pc[p] = "close" => why[p] \in Reasons
  /\ pc[p] \in {"cancel", "append", "clear"} => exit[p] \in Orders
  /\ pc[p] = "giveback" /\ why[p] = "naked" => exit[p] \in Orders

Hands == \A p \in Procs : HandOf(p)

\* A part is less than the whole.
Parts == \A e \in Entries : order[e] = "part" => units[e] <= 1

Typed == WorldOK /\ ProcsOK /\ Hands /\ Parts

LEMMA TypedTypes == Typed => TypeOK
  BY DEF Typed, WorldOK, ProcsOK, TypeOK

LEMMA InitTyped == Init => Typed
<1> SUFFICES ASSUME Init PROVE Typed
  OBVIOUS
<1>1. WorldOK
  <2>1. now \in Times /\ upsets \in 0 .. MaxUpsets
    BY TimingAssumption DEF Init, Times
  <2>2. units \in [Entries -> 0 .. Full]
    BY DEF Init, Full
  <2>3. rows \in Seq([pos : Entries, exit : Orders])
    BY DEF Init
  <2> QED
    BY <2>1, <2>2, <2>3 DEF Init, WorldOK
<1>2. ProcsOK
  BY DEF Init, ProcsOK, Places, Flows
<1>3. Hands /\ Parts
  BY DEF Init, Hands, HandOf, Parts
<1> QED
  BY <1>1, <1>2, <1>3 DEF Typed

\* A step of process p: the others keep what they have in hand.
LEMMA OthersKeep ==
  ASSUME Hands, NEW p \in Procs, HandOf(p)',
         \A q \in Procs : q # p => UNCHANGED <<pc[q], job[q], why[q], exit[q]>>
  PROVE  Hands'
  BY DEF Hands, HandOf

LEMMA GoMoves ==
  ASSUME ProcsOK, NEW p \in Procs, NEW place \in Places, Go(p, place)
  PROVE  /\ ProcsOK' /\ pc'[p] = place
         /\ UNCHANGED <<job, why, seen, at, todo, exit, keep>>
         /\ \A q \in Procs : q # p => pc'[q] = pc[q]
  BY DEF Go, ProcsOK

LEMMA RestMoves ==
  ASSUME ProcsOK, Hands, NEW p \in Procs, Rest(p)
  PROVE  ProcsOK' /\ Hands' /\ pc'[p] = "idle" /\ \A q \in Procs : q # p => pc'[q] = pc[q] /\ job'[q] = job[q]
<1>1. ProcsOK' /\ pc'[p] = "idle"
  BY DEF Rest, ProcsOK, Places, Flows
<1>2. \A q \in Procs : q # p => UNCHANGED <<pc[q], job[q], why[q], exit[q]>>
  BY DEF Rest, ProcsOK
<1>3. HandOf(p)'
  BY <1>1 DEF HandOf
<1> QED
  BY <1>1, <1>2, <1>3, OthersKeep

LEMMA DoneMoves ==
  ASSUME ProcsOK, Hands, NEW p \in Procs, Done(p)
  PROVE  ProcsOK' /\ Hands' /\ pc'[p] \in {"idle", "pass"} /\ \A q \in Procs : q # p => pc'[q] = pc[q] /\ job'[q] = job[q]
<1>1. CASE p \in Probes
  BY <1>1, RestMoves DEF Done
<1>2. CASE p \notin Probes
  <2>0. /\ pc' = [pc EXCEPT ![p] = "pass"] /\ job' = [job EXCEPT ![p] = None]
        /\ why' = [why EXCEPT ![p] = "none"] /\ at' = [at EXCEPT ![p] = None]
        /\ exit' = [exit EXCEPT ![p] = None] /\ keep' = [keep EXCEPT ![p] = FALSE]
        /\ UNCHANGED <<seen, todo>>
    BY <1>2 DEF Done
  <2>1. ProcsOK' /\ pc'[p] = "pass"
    BY <2>0 DEF ProcsOK, Places, Flows
  <2>2. \A q \in Procs : q # p => UNCHANGED <<pc[q], job[q], why[q], exit[q]>>
    BY <1>2 DEF Done, ProcsOK
  <2>3. HandOf(p)'
    BY <2>1 DEF HandOf
  <2> QED
    BY <2>1, <2>2, <2>3, OthersKeep
<1> QED
  BY <1>1, <1>2

LEMMA TakeMoves ==
  ASSUME ProcsOK, Hands, NEW p \in Procs, NEW e \in Entries, NEW place \in Places, NEW reason \in Flows,
         NEW kept \in BOOLEAN, Take(p, e, place, reason, kept), UNCHANGED exit
  PROVE  /\ pc' \in [Procs -> Places] /\ job' \in [Procs -> Entries \cup {None}]
         /\ why' \in [Procs -> Flows] /\ keep' \in [Procs -> BOOLEAN]
         /\ pc'[p] = place /\ job'[p] = e /\ why'[p] = reason
         /\ \A q \in Procs : q # p => UNCHANGED <<pc[q], job[q], why[q], exit[q]>>
  BY DEF Take, ProcsOK

\* Nothing at the venue becomes more.
LEMMA PartsKept ==
  ASSUME Parts, WorldOK, units' \in [Entries -> 0 .. Full],
         \A e \in Entries : (order'[e] = "part" => order[e] = "part") /\ units'[e] <= units[e]
  PROVE  Parts'
<1>1. ASSUME NEW e \in Entries, order'[e] = "part" PROVE units'[e] <= 1
  <2>1. units[e] <= 1 /\ units'[e] <= units[e] /\ units[e] \in 0 .. Full /\ units'[e] \in 0 .. Full
    BY <1>1 DEF Parts, WorldOK
  <2> QED
    BY <2>1 DEF Full
<1> QED
  BY <1>1 DEF Parts

\* A step that leaves the world alone, or changes only the files and the legs.
LEMMA FilesMove ==
  ASSUME Typed, UNCHANGED <<order, units>>, ProcsOK', Hands', WorldOK'
  PROVE  Typed'
  BY DEF Typed, Parts

LEMMA WorldKept ==
  ASSUME WorldOK, UNCHANGED <<now, halted, upsets, venueVars, fileVars>>
  PROVE  WorldOK' /\ UNCHANGED <<order, units>>
  BY DEF WorldOK, venueVars, fileVars

\* A step of a process by itself: it goes on to a place with the same in hand.
LEMMA GoKeeps ==
  ASSUME Typed, NEW p \in Procs, NEW place \in Places, Go(p, place),
         UNCHANGED <<now, halted, upsets, venueVars, fileVars>>,
         place \notin {"idle", "venue", "pass"} => job[p] \in Entries,
         place \in {"claimed", "ready", "sent", "stop", "book"} => why[p] = "entry",
         place # "time",
         place = "target" => why[p] \in {"entry", "naked"},
         place = "close" => why[p] \in Reasons,
         place \in {"cancel", "append", "clear"} => exit[p] \in Orders,
         place = "giveback" /\ why[p] = "naked" => exit[p] \in Orders
  PROVE  Typed'
<1>1. /\ ProcsOK' /\ pc'[p] = place
      /\ UNCHANGED <<job, why, seen, at, todo, exit, keep>>
      /\ \A q \in Procs : q # p => pc'[q] = pc[q]
  BY GoMoves DEF Typed
<1>2. HandOf(p)'
  BY <1>1 DEF HandOf
<1>3. Hands'
  BY <1>1, <1>2, OthersKeep DEF Typed
<1> QED
  BY <1>1, <1>3, WorldKept, FilesMove DEF Typed

LEMMA RestKeeps ==
  ASSUME Typed, NEW p \in Procs, Rest(p), UNCHANGED <<order, units>>, WorldOK'
  PROVE  Typed'
  BY RestMoves, FilesMove DEF Typed

LEMMA DoneKeeps ==
  ASSUME Typed, NEW p \in Procs, Done(p), UNCHANGED <<order, units>>, WorldOK'
  PROVE  Typed'
  BY DoneMoves, FilesMove DEF Typed

\* A process takes a position in hand and goes to a place that asks for no exit.
LEMMA TakeKeeps ==
  ASSUME Typed, NEW p \in Procs, NEW e \in Entries, NEW reason \in Flows, NEW kept \in BOOLEAN,
         NEW place \in {"claimed", "time", "settle", "close", "giveback"},
         place = "claimed" => reason = "entry",
         place = "time" => reason = "time",
         place = "close" => reason \in Reasons,
         place = "giveback" => reason # "naked",
         Take(p, e, place, reason, kept), UNCHANGED <<order, units, seen, at, exit>>,
         todo' \in [Procs -> SUBSET Entries], WorldOK'
  PROVE  Typed'
<1>1. place \in Places
  BY DEF Places
<1>2. /\ pc' \in [Procs -> Places] /\ job' \in [Procs -> Entries \cup {None}]
      /\ why' \in [Procs -> Flows] /\ keep' \in [Procs -> BOOLEAN]
      /\ pc'[p] = place /\ job'[p] = e /\ why'[p] = reason
      /\ \A q \in Procs : q # p => UNCHANGED <<pc[q], job[q], why[q], exit[q]>>
  BY <1>1, TakeMoves DEF Typed
<1>3. ProcsOK'
  BY <1>2 DEF Typed, ProcsOK
<1>4. HandOf(p)'
  BY <1>2 DEF HandOf
<1> QED
  BY <1>2, <1>3, <1>4, OthersKeep, FilesMove DEF Typed

LEMMA TypedReadVenue ==
  ASSUME Typed, NEW p \in Procs, ReadVenue(p) PROVE Typed'
<1>0. \A n \in Nat : [s \in Symbols |-> n] \in [Symbols -> Nat]
  OBVIOUS
<1>1. /\ seen' \in [Procs -> [Symbols -> Nat]] /\ at' \in [Procs -> Times \cup {None}]
      /\ pc' \in [Procs -> Places] /\ pc'[p] = "venue" /\ \A q \in Procs : q # p => pc'[q] = pc[q]
  <2>0. pc' = [pc EXCEPT ![p] = "venue"] /\ (at' = at \/ at' = [at EXCEPT ![p] = now])
    BY DEF ReadVenue
  <2>1. /\ pc' \in [Procs -> Places] /\ pc'[p] = "venue" /\ \A q \in Procs : q # p => pc'[q] = pc[q]
        /\ at' \in [Procs -> Times \cup {None}]
    <3>1. pc \in [Procs -> Places] /\ at \in [Procs -> Times \cup {None}] /\ now \in Times /\ "venue" \in Places
      BY DEF Typed, WorldOK, ProcsOK, Places
    <3> QED
      BY <2>0, <3>1
  <2>2. CASE seen' = [seen EXCEPT ![p] = [s \in Symbols |-> Held(s)]]
    BY <2>1, <2>2, HeldType DEF Typed, ProcsOK
  <2>3. CASE seen' = [seen EXCEPT ![p] = [s \in Symbols |-> Full]]
    BY <1>0, <2>1, <2>3 DEF Typed, ProcsOK, Full
  <2> QED
    BY <2>1, <2>2, <2>3 DEF ReadVenue
<1>3. ProcsOK'
  BY <1>1 DEF ReadVenue, Typed, ProcsOK
<1>2. HandOf(p)' /\ \A q \in Procs : q # p => UNCHANGED <<pc[q], job[q], why[q], exit[q]>>
  BY <1>1 DEF HandOf, ReadVenue
<1> QED
  BY <1>1, <1>2, <1>3, OthersKeep, WorldKept, FilesMove DEF ReadVenue, Typed

LEMMA BookedTypes ==
  ASSUME WorldOK PROVE {book[s] : s \in Booked} \subseteq Entries
  BY DEF WorldOK, Booked

LEMMA TypedReadBook ==
  ASSUME Typed, NEW p \in Procs, ReadBook(p) PROVE Typed'
<1>1. /\ todo' \in [Procs -> SUBSET Entries] /\ at' \in [Procs -> Times \cup {None}]
      /\ pc' \in [Procs -> Places]
  BY BookedTypes DEF ReadBook, Typed, ProcsOK, Places
<1>2. ProcsOK' /\ pc'[p] = "pass" /\ \A q \in Procs : q # p => pc'[q] = pc[q]
  BY <1>1 DEF ReadBook, Typed, ProcsOK
<1>3. HandOf(p)' /\ \A q \in Procs : q # p => UNCHANGED <<pc[q], job[q], why[q], exit[q]>>
  BY <1>2 DEF HandOf, ReadBook
<1> QED
  BY <1>2, <1>3, OthersKeep, WorldKept, FilesMove DEF ReadBook, Typed

LEMMA TypedEndPass ==
  ASSUME Typed, NEW p \in Procs, EndPass(p) PROVE Typed'
  BY RestKeeps, WorldKept DEF EndPass, Typed

LEMMA TypedLook ==
  ASSUME Typed, NEW e \in Entries, Look(e) PROVE Typed'
<1>1. Leg \in Procs /\ todo' \in [Procs -> SUBSET Entries]
  BY DEF Look, Typed, ProcsOK, Procs
<1>2. WorldOK' /\ UNCHANGED <<order, units, seen, at, exit>>
  BY WorldKept DEF Look, Typed
<1>3. CASE Take(Leg, e, "settle", "settle", FALSE) \/ Take(Leg, e, "time", "time", seen[Leg][On[e]] # Full)
  BY <1>1, <1>2, <1>3, TakeKeeps DEF Flows, Reasons
<1>4. CASE Take(Leg, e, "close", "unprotected", seen[Leg][On[e]] # Full)
  BY <1>1, <1>2, <1>4, TakeKeeps DEF Flows, Reasons
<1>5. CASE UNCHANGED <<pc, job, why, keep>>
  BY <1>1, <1>2, <1>5, FilesMove DEF Typed, ProcsOK, Hands, HandOf
<1> QED
  BY <1>3, <1>4, <1>5 DEF Look

\* The symbol of the position in hand.
LEMMA SymType == ASSUME NEW p \in Procs, job[p] \in Entries PROVE Sym(p) \in Symbols
  BY DEF Sym, Symbols

LEMMA TypedSaveHolding == Typed /\ SaveHolding => Typed'
<1> SUFFICES ASSUME Typed, SaveHolding PROVE Typed'
  OBVIOUS
<1>1. Leg \in Procs /\ job[Leg] \in Entries /\ Sym(Leg) \in Symbols
  BY SymType DEF SaveHolding, Typed, Hands, HandOf, Procs
<1>2. WorldOK' /\ UNCHANGED <<order, units>>
  BY <1>1 DEF SaveHolding, Typed, WorldOK, venueVars
<1>3. CASE Done(Leg) \/ Rest(Leg)
  BY <1>1, <1>2, <1>3, DoneKeeps, RestKeeps
<1>4. CASE Go(Leg, "close")
  <2>1. /\ ProcsOK' /\ pc'[Leg] = "close" /\ UNCHANGED <<job, why, exit>>
        /\ \A q \in Procs : q # Leg => pc'[q] = pc[q]
    BY <1>1, <1>4, GoMoves DEF Typed, Places
  <2>2. why[Leg] = "time"
    BY <1>1 DEF SaveHolding, Typed, Hands, HandOf
  <2> QED
    BY <1>1, <1>2, <2>1, <2>2, OthersKeep, FilesMove DEF Typed, HandOf, Reasons
<1> QED
  BY <1>3, <1>4 DEF SaveHolding

-----------------------------------------------------------------------------
(* An entry.                                                               *)

LEMMA TypedClaimSymbol ==
  ASSUME Typed, NEW p \in Procs, NEW e \in Entries, Claim(p, e) PROVE Typed'
<1>1. On[e] \in Symbols /\ [order |-> e, since |-> now] \in Claims
  BY DEF Symbols, Claims, Typed, WorldOK
<1>2. WorldOK' /\ todo' \in [Procs -> SUBSET Entries] /\ UNCHANGED <<order, units, seen, at, exit>>
  BY <1>1 DEF Claim, Typed, WorldOK, ProcsOK, venueVars
<1> QED
  BY <1>2, TakeKeeps DEF Claim, Flows

LEMMA TypedCheckResting ==
  ASSUME Typed, NEW p \in Procs, CheckResting(p) PROVE Typed'
  BY GoKeeps DEF CheckResting, Places, Typed, Hands, HandOf

LEMMA TypedRefuse ==
  ASSUME Typed, NEW p \in Procs, Refuse(p) PROVE Typed'
  BY GoKeeps DEF Refuse, Places, Typed, Hands, HandOf

LEMMA TypedSend ==
  ASSUME Typed, NEW p \in Procs, Send(p) PROVE Typed'
<1>1. job[p] \in Entries /\ why[p] = "entry"
  BY DEF Send, Typed, Hands, HandOf
<1>2. /\ ProcsOK' /\ pc'[p] = "sent" /\ UNCHANGED <<job, why, exit>>
      /\ \A q \in Procs : q # p => pc'[q] = pc[q]
  BY GoMoves DEF Send, Typed, Places
<1>3. HandOf(p)'
  BY <1>1, <1>2 DEF HandOf
<1>4. Hands'
  BY <1>2, <1>3, OthersKeep DEF Typed
<1>5. WorldOK' /\ Parts'
  BY <1>1 DEF Send, Typed, WorldOK, Parts, fileVars
<1> QED
  BY <1>2, <1>4, <1>5 DEF Typed

LEMMA TypedConfirm ==
  ASSUME Typed, NEW p \in Procs, Confirm(p) PROVE Typed'
<1>1. job[p] \in Entries /\ why[p] = "entry" /\ todo' \in [Procs -> SUBSET Entries]
  BY DEF Confirm, Typed, Hands, HandOf, ProcsOK, Go, Take, Rest
<1>2. WorldOK' /\ UNCHANGED <<order, units>>
  BY WorldKept DEF Confirm, Typed
<1>3. CASE Go(p, "stop") \/ Go(p, "giveback")
  BY <1>1, <1>3, GoKeeps DEF Confirm, Places
<1>4. CASE Take(p, job[p], "close", "naked", TRUE) /\ UNCHANGED <<seen, at, todo, exit>>
  BY <1>1, <1>2, <1>4, TakeKeeps DEF Flows, Reasons
<1>5. CASE Rest(p)
  BY <1>2, <1>5, RestKeeps
<1> QED
  BY <1>3, <1>4, <1>5 DEF Confirm

LEMMA TypedPlace ==
  ASSUME Typed, NEW p \in Procs, NEW leg \in Legs, NEW next \in {"target", "book"},
         pc[p] \in {"stop", "target"}, Place(p, leg, next)
  PROVE  Typed'
<1>1. job[p] \in Entries /\ why[p] \in {"entry", "naked"}
  BY DEF Typed, Hands, HandOf
<1>2. PICK rests, confirmed \in BOOLEAN :
        /\ resting' = [resting EXCEPT ![job[p]] = IF rests THEN @ \cup {leg} ELSE @]
        /\ why' = [why EXCEPT ![p] = IF confirmed THEN @ ELSE "naked"]
  BY DEF Place
<1>3. WorldOK' /\ UNCHANGED <<order, units>>
  BY <1>1, <1>2 DEF Place, Typed, WorldOK, fileVars
<1>4. /\ why' \in [Procs -> Flows] /\ why'[p] \in {"entry", "naked"}
      /\ \A q \in Procs : q # p => why'[q] = why[q]
  BY <1>1, <1>2 DEF Typed, ProcsOK, Flows, Reasons
<1>5. /\ pc' \in [Procs -> Places] /\ UNCHANGED <<job, seen, at, todo, exit, keep>>
      /\ pc'[p] = IF why'[p] = "naked" /\ next = "book" THEN "close" ELSE next
      /\ \A q \in Procs : q # p => pc'[q] = pc[q]
  BY DEF Place, Typed, ProcsOK, Places
<1>6. ProcsOK'
  BY <1>4, <1>5 DEF Typed, ProcsOK
<1>7. HandOf(p)'
  BY <1>1, <1>4, <1>5 DEF HandOf, Reasons
<1> QED
  BY <1>3, <1>4, <1>5, <1>6, <1>7, OthersKeep, FilesMove DEF Typed

LEMMA TypedLegs ==
  ASSUME Typed, NEW p \in Procs, PlaceStop(p) \/ PlaceTarget(p) PROVE Typed'
  BY TypedPlace DEF PlaceStop, PlaceTarget, Legs

LEMMA TypedSave ==
  ASSUME Typed, NEW p \in Procs, Save(p) PROVE Typed'
<1>1. job[p] \in Entries /\ Sym(p) \in Symbols
  BY SymType DEF Save, Typed, Hands, HandOf
<1>2. WorldOK' /\ todo' \in [Procs -> SUBSET Entries] /\ UNCHANGED <<order, units, seen, at, exit>>
  BY <1>1 DEF Save, Typed, WorldOK, ProcsOK, venueVars
<1> QED
  BY <1>1, <1>2, TakeKeeps DEF Save, Flows

LEMMA TypedSaveFails ==
  ASSUME Typed, NEW p \in Procs, SaveFails(p) PROVE Typed'
  BY RestKeeps, WorldKept DEF SaveFails, Typed

LEMMA TypedRelease ==
  ASSUME Typed, NEW p \in Procs, Release(p) PROVE Typed'
<1>1. job[p] \in Entries /\ Sym(p) \in Symbols
  BY SymType DEF Release, Typed, Hands, HandOf
<1>2. WorldOK' /\ UNCHANGED <<order, units>>
  BY <1>1 DEF Release, ReleaseOwn, Typed, WorldOK, venueVars
<1>3. CASE Rest(p)
  BY <1>2, <1>3, RestKeeps
<1>4. ASSUME NEW place \in {"watch", "append"}, Go(p, place), place = "append" => why[p] = "naked"
      PROVE  Typed'
  <2>1. /\ ProcsOK' /\ pc'[p] = place /\ UNCHANGED <<job, why, exit>>
        /\ \A q \in Procs : q # p => pc'[q] = pc[q]
    BY <1>4, GoMoves DEF Typed, Places
  <2>2. place = "append" => exit[p] \in Orders
    BY <1>4 DEF Release, Typed, Hands, HandOf
  <2>3. HandOf(p)'
    BY <1>1, <2>1, <2>2 DEF HandOf
  <2> QED
    BY <1>2, <2>1, <2>3, OthersKeep, FilesMove DEF Typed
<1> QED
  BY <1>3, <1>4 DEF Release

-----------------------------------------------------------------------------
(* The end of a position.                                                  *)

LEMMA TypedWatch ==
  ASSUME Typed, NEW p \in Procs, Watch(p) PROVE Typed'
<1>1. job[p] \in Entries
  BY DEF Watch, Typed, Hands, HandOf
<1>2. WorldOK' /\ UNCHANGED <<order, units>>
  BY WorldKept DEF Watch, Typed
<1>3. CASE Rest(p)
  BY <1>2, <1>3, RestKeeps
<1>4. ASSUME UNCHANGED <<seen, at, todo, exit>>,
             Take(p, job[p], "settle", "settle", FALSE) \/ Take(p, job[p], "close", "time", FALSE)
      PROVE  Typed'
  <2>1. todo' \in [Procs -> SUBSET Entries]
    BY <1>4 DEF Typed, ProcsOK
  <2> QED
    BY <1>1, <1>2, <1>4, <2>1, TakeKeeps DEF Flows, Reasons
<1> QED
  BY <1>3, <1>4 DEF Watch

LEMMA TypedEmerRead ==
  ASSUME Typed, NEW p \in Procs, EmerRead(p) PROVE Typed'
<1>1. todo' \in [Procs -> SUBSET Entries]
  BY BookedTypes DEF EmerRead, Typed, ProcsOK
<1>2. ProcsOK' /\ pc'[p] = "pass" /\ \A q \in Procs : q # p => pc'[q] = pc[q]
  BY <1>1, HeldType DEF EmerRead, Typed, ProcsOK, Places
<1>3. HandOf(p)' /\ \A q \in Procs : q # p => UNCHANGED <<pc[q], job[q], why[q], exit[q]>>
  BY <1>2 DEF HandOf, EmerRead
<1> QED
  BY <1>2, <1>3, OthersKeep, WorldKept, FilesMove DEF EmerRead, Typed

LEMMA TypedEmerLook ==
  ASSUME Typed, NEW p \in Procs, NEW e \in Entries, EmerLook(p, e) PROVE Typed'
<1>1. todo' \in [Procs -> SUBSET Entries]
  BY DEF EmerLook, Typed, ProcsOK
<1>2. WorldOK' /\ UNCHANGED <<order, units, seen, at, exit>>
  BY WorldKept DEF EmerLook, Typed
<1>3. CASE Take(p, e, "close", "emergency", FALSE)
  BY <1>1, <1>2, <1>3, TakeKeeps DEF Flows, Reasons
<1>4. CASE UNCHANGED <<pc, job, why, keep>>
  BY <1>1, <1>2, <1>4, FilesMove DEF Typed, ProcsOK, Hands, HandOf
<1> QED
  BY <1>3, <1>4 DEF EmerLook

LEMMA TypedClose ==
  ASSUME Typed, NEW p \in Procs, Close(p) PROVE Typed'
<1> DEFINE id == [of |-> job[p], as |-> why[p]]
           quantity == IF why[p] = "naked" /\ keep[p] THEN 1 ELSE Full
           confirmed == /\ pc' = [pc EXCEPT ![p] = IF keep[p] /\ why[p] = "unprotected" THEN "append" ELSE "cancel"]
                        /\ exit' = [exit EXCEPT ![p] = id]
                        /\ UNCHANGED <<job, why, seen, at, todo, keep>>
           unknown == IF why[p] = "naked" THEN Rest(p) ELSE Done(p)
<1>1. job[p] \in Entries /\ why[p] \in Reasons /\ Sym(p) \in Symbols
  BY SymType DEF Close, Typed, Hands, HandOf
<1>2. id \in Orders /\ quantity \in 1 .. Full
  BY <1>1 DEF Orders, Full
<1>3. /\ UNCHANGED <<now, halted, upsets, order, resting, fired, fileVars>>
      /\ \/ Fill(Sym(p), quantity, id) /\ closes' \in {closes, closes \cup {id}}
         \/ UNCHANGED <<units, took, closes>>
      /\ confirmed \/ unknown
  BY DEF Close
<1> HIDE DEF id, quantity
<1>4. /\ units' \in [Entries -> 0 .. Full] /\ took' \in [Entries -> Orders \cup {None}]
      /\ \A e \in Entries : units'[e] <= units[e]
  <2>1. CASE Fill(Sym(p), quantity, id)
    BY <1>1, <1>2, <2>1, FillTypes DEF Typed, WorldOK
  <2>2. CASE UNCHANGED <<units, took, closes>>
    BY <2>2 DEF Typed, WorldOK, Full
  <2> QED
    BY <1>3, <2>1, <2>2
<1>5. WorldOK'
  BY <1>2, <1>3, <1>4 DEF Typed, WorldOK, fileVars
<1>6. Parts'
  BY <1>3, <1>4, PartsKept DEF Typed
<1>7. CASE confirmed
  <2>1. /\ ProcsOK' /\ pc'[p] \in {"append", "cancel"} /\ exit'[p] = id /\ job'[p] = job[p]
        /\ \A q \in Procs : q # p => UNCHANGED <<pc[q], job[q], why[q], exit[q]>>
    BY <1>2, <1>7 DEF Typed, ProcsOK, Places
  <2>2. HandOf(p)'
    BY <1>1, <1>2, <2>1 DEF HandOf
  <2> QED
    BY <1>5, <1>6, <2>1, <2>2, OthersKeep DEF Typed
<1>8. CASE unknown
  BY <1>5, <1>6, <1>8, RestMoves, DoneMoves DEF Typed
<1> QED
  BY <1>3, <1>7, <1>8

\* The evidence of an exit is an order.
LEMMA ExitType ==
  ASSUME WorldOK, NEW e \in Entries,
         NEW o \in {[of |-> e, as |-> l] : l \in fired[e]}
                     \cup (IF took[e] # None THEN {ChildOf(took[e])} ELSE {})
  PROVE  o \in Orders
<1>1. CASE o \in {[of |-> e, as |-> l] : l \in fired[e]}
  BY <1>1 DEF WorldOK, Orders
<1>2. CASE took[e] # None /\ o = ChildOf(took[e])
  <2>1. took[e] \in Orders
    BY <1>2 DEF WorldOK
  <2> QED
    BY <1>2, <2>1 DEF ChildOf, Orders
<1> QED
  BY <1>1, <1>2

LEMMA TypedSettle ==
  ASSUME Typed, NEW p \in Procs, Settle(p) PROVE Typed'
<1>1. job[p] \in Entries
  BY DEF Settle, Typed, Hands, HandOf
<1>2. WorldOK' /\ UNCHANGED <<order, units>>
  BY WorldKept DEF Settle, Typed
<1>3. CASE Done(p)
  BY <1>2, <1>3, DoneKeeps
<1>4. ASSUME NEW o \in Orders, exit' = [exit EXCEPT ![p] = o], pc' = [pc EXCEPT ![p] = "cancel"],
             UNCHANGED <<job, why, seen, at, todo, keep>>
      PROVE  Typed'
  <2>1. /\ ProcsOK' /\ pc'[p] = "cancel" /\ exit'[p] = o
        /\ \A q \in Procs : q # p => UNCHANGED <<pc[q], job[q], why[q], exit[q]>>
    BY <1>4 DEF Typed, ProcsOK, Places
  <2>2. HandOf(p)'
    BY <1>1, <1>4, <2>1 DEF HandOf
  <2> QED
    BY <1>2, <2>1, <2>2, OthersKeep, FilesMove DEF Typed
<1>5. Done(p) \/ \E o \in Orders : /\ exit' = [exit EXCEPT ![p] = o]
                                   /\ pc' = [pc EXCEPT ![p] = "cancel"]
                                   /\ UNCHANGED <<job, why, seen, at, todo, keep>>
  BY <1>1, ExitType DEF Settle, Typed
<1> QED
  BY <1>3, <1>4, <1>5

LEMMA TypedCancel ==
  ASSUME Typed, NEW p \in Procs, Cancel(p) PROVE Typed'
<1>1. job[p] \in Entries /\ exit[p] \in Orders
  BY DEF Cancel, Typed, Hands, HandOf
<1>2. PICK left \in SUBSET resting[job[p]] :
        /\ resting' = [resting EXCEPT ![job[p]] = left]
        /\ keep' = [keep EXCEPT ![p] = @ \/ left # {}]
  BY DEF Cancel
<1>3. resting' \in [Entries -> SUBSET Legs]
  BY <1>1, <1>2 DEF Typed, WorldOK
<1>4. WorldOK' /\ UNCHANGED <<order, units>>
  BY <1>3 DEF Cancel, Typed, WorldOK, fileVars
<1>5. keep' \in [Procs -> BOOLEAN]
  <2>1. (keep[p] \/ left # {}) \in BOOLEAN
    BY DEF Typed, ProcsOK
  <2> QED
    BY <1>2, <2>1 DEF Typed, ProcsOK
<1>6. /\ pc' \in [Procs -> Places] /\ pc'[p] \in {"giveback", "append"}
      /\ UNCHANGED <<job, why, seen, at, todo, exit>>
      /\ \A q \in Procs : q # p => pc'[q] = pc[q]
  BY DEF Cancel, Typed, ProcsOK, Places
<1>7. ProcsOK'
  BY <1>5, <1>6 DEF Typed, ProcsOK
<1>8. HandOf(p)'
  BY <1>1, <1>6 DEF HandOf
<1> QED
  BY <1>4, <1>6, <1>7, <1>8, OthersKeep, FilesMove DEF Typed

LEMMA TypedRecord ==
  ASSUME Typed, NEW p \in Procs, Record(p) PROVE Typed'
<1>1. job[p] \in Entries /\ exit[p] \in Orders
  BY DEF Record, Typed, Hands, HandOf
<1>2. rows' \in Seq([pos : Entries, exit : Orders])
  <2> DEFINE row == [pos |-> job[p], exit |-> exit[p]]
  <2>1. row \in [pos : Entries, exit : Orders]
    BY <1>1
  <2>2. rows' \in {rows, Append(rows, row)}
    BY DEF Record, AppendOutcome
  <2>3. rows \in Seq([pos : Entries, exit : Orders])
    BY DEF Typed, WorldOK
  <2> HIDE DEF row
  <2>4. Append(rows, row) \in Seq([pos : Entries, exit : Orders])
    BY <2>1, <2>3
  <2> QED
    BY <2>2, <2>3, <2>4
<1>3. WorldOK' /\ UNCHANGED <<order, units>>
  BY <1>2 DEF Record, Typed, WorldOK, venueVars
<1>4. CASE Rest(p)
  BY <1>3, <1>4, RestKeeps
<1>5. CASE Go(p, "clear")
  <2>1. /\ ProcsOK' /\ pc'[p] = "clear" /\ UNCHANGED <<job, why, exit>>
        /\ \A q \in Procs : q # p => pc'[q] = pc[q]
    BY <1>5, GoMoves DEF Typed, Places
  <2>2. HandOf(p)'
    BY <1>1, <2>1 DEF HandOf
  <2> QED
    BY <1>3, <2>1, <2>2, OthersKeep, FilesMove DEF Typed
<1> QED
  BY <1>4, <1>5 DEF Record

LEMMA TypedRecordFails ==
  ASSUME Typed, NEW p \in Procs, RecordFails(p) PROVE Typed'
  BY RestKeeps, DoneKeeps, WorldKept DEF RecordFails, Typed

LEMMA TypedClear ==
  ASSUME Typed, NEW p \in Procs, Clear(p) PROVE Typed'
<1>1. job[p] \in Entries /\ Sym(p) \in Symbols
  BY SymType DEF Clear, Typed, Hands, HandOf
<1>2. WorldOK' /\ UNCHANGED <<order, units>>
  BY <1>1 DEF Clear, ClearOwn, Typed, WorldOK, venueVars
<1>3. CASE Done(p)
  BY <1>2, <1>3, DoneKeeps
<1>4. CASE why[p] = "naked" /\ Go(p, "giveback")
  <2>1. /\ ProcsOK' /\ pc'[p] = "giveback" /\ UNCHANGED <<job, why, exit>>
        /\ \A q \in Procs : q # p => pc'[q] = pc[q]
    BY <1>4, GoMoves DEF Typed, Places
  <2>2. HandOf(p)'
    BY <1>1, <2>1 DEF HandOf, Clear, Typed, Hands
  <2> QED
    BY <1>2, <2>1, <2>2, OthersKeep, FilesMove DEF Typed
<1> QED
  BY <1>3, <1>4 DEF Clear

-----------------------------------------------------------------------------
(* The venue, the clock and faults; every step.                            *)

\* A step of the venue or of the clock: no process moves.
LEMMA AroundKeeps ==
  ASSUME Typed, WorldOK', Parts', UNCHANGED procVars
  PROVE  Typed'
  BY DEF Typed, ProcsOK, Hands, HandOf, procVars

LEMMA TypedLand ==
  ASSUME Typed, NEW e \in Entries, Land(e) PROVE Typed'
<1>1. units' \in [Entries -> 0 .. Full] /\ Parts'
  BY DEF Land, Typed, WorldOK, Parts, Full
<1>2. WorldOK'
  BY <1>1 DEF Land, Typed, WorldOK, fileVars
<1> QED
  BY <1>1, <1>2, AroundKeeps DEF Land

LEMMA TypedTrigger ==
  ASSUME Typed, NEW e \in Entries, NEW leg \in Legs, Trigger(e, leg) PROVE Typed'
<1>1. On[e] \in Symbols /\ [of |-> e, as |-> leg] \in Orders /\ Full \in 1 .. Full
  BY DEF Symbols, Orders, Full
<1>2. /\ units' \in [Entries -> 0 .. Full] /\ took' \in [Entries -> Orders \cup {None}]
      /\ \A f \in Entries : units'[f] <= units[f]
  BY <1>1, FillTypes DEF Trigger, Typed, WorldOK
<1>3. WorldOK'
  BY <1>2 DEF Trigger, Typed, WorldOK, fileVars
<1>4. Parts'
  BY <1>2, PartsKept DEF Trigger, Typed
<1> QED
  BY <1>3, <1>4, AroundKeeps DEF Trigger

LEMMA TypedDrop ==
  ASSUME Typed, NEW e \in Entries, NEW leg \in Legs, Drop(e, leg) PROVE Typed'
<1>1. WorldOK' /\ Parts'
  BY TimingAssumption DEF Drop, Typed, WorldOK, Parts, fileVars
<1> QED
  BY <1>1, AroundKeeps DEF Drop

LEMMA TypedAround == Typed /\ (Halt \/ Tick \/ UNCHANGED vars) => Typed'
<1> SUFFICES ASSUME Typed, Halt \/ Tick \/ UNCHANGED vars PROVE Typed'
  OBVIOUS
<1>1. WorldOK'
  <2>1. /\ UNCHANGED <<venueVars, fileVars>>
        /\ now' \in Times /\ halted' \in BOOLEAN /\ upsets' \in 0 .. MaxUpsets
    <3>1. now \in Times /\ halted \in BOOLEAN /\ upsets \in 0 .. MaxUpsets
      BY DEF Typed, WorldOK
    <3>2. CASE Halt
      <4>1. halted' \in BOOLEAN /\ UNCHANGED <<now, venueVars, fileVars>>
        BY <3>2, Zenon DEF Halt
      <4>2. upsets' \in 0 .. MaxUpsets
        BY <3>1, <3>2, TimingAssumption DEF Halt
      <4> QED
        BY <3>1, <4>1, <4>2
    <3>3. CASE Tick
      BY <3>1, <3>3, TimingAssumption DEF Tick, Times, venueVars, fileVars
    <3>4. CASE UNCHANGED vars
      BY <3>1, <3>4 DEF vars, venueVars, fileVars
    <3> QED
      BY <3>2, <3>3, <3>4
  <2> QED
    BY <2>1 DEF venueVars, fileVars, Typed, WorldOK
<1>2. Parts' /\ UNCHANGED procVars
  BY DEF Halt, Tick, vars, venueVars, fileVars, Typed, Parts
<1> QED
  BY <1>1, <1>2, AroundKeeps

LEMMA TypedCrash ==
  ASSUME Typed, NEW p \in Procs, Crash(p) PROVE Typed'
<1>1. WorldOK' /\ UNCHANGED <<order, units>>
  BY TimingAssumption DEF Crash, Typed, WorldOK, venueVars, fileVars
<1> QED
  BY <1>1, RestKeeps DEF Crash

LEMMA TypedStep == Typed /\ [Next]_vars => Typed'
<1> SUFFICES ASSUME Typed, [Next]_vars PROVE Typed'
  OBVIOUS
<1>1. ASSUME NEW p \in Procs, DoorStep(p) PROVE Typed'
  BY <1>1, TypedReadVenue, TypedReadBook, TypedEndPass, TypedClaimSymbol, TypedCheckResting, TypedRefuse,
     TypedSend, TypedConfirm, TypedLegs, TypedSave, TypedSaveFails, TypedRelease DEF DoorStep
<1>2. ASSUME NEW p \in Procs, ExitStep(p) PROVE Typed'
  BY <1>2, TypedWatch, TypedEmerRead, TypedEmerLook, TypedClose, TypedSettle, TypedCancel,
     TypedRecord, TypedRecordFails, TypedClear DEF ExitStep
<1>3. CASE Venue
  BY <1>3, TypedLand, TypedTrigger, TypedDrop DEF Venue
<1> QED
  BY <1>1, <1>2, <1>3, TypedCrash, TypedLook, TypedSaveHolding, TypedAround DEF Next

\* The venue, the book, the claims, the ledger and the memory of every process stay
\* within their types.
THEOREM Typing == Spec => []TypeOK
<1>1. Init => Typed
  BY InitTyped
<1>2. Typed /\ [Next]_vars => Typed'
  BY TypedStep
<1> QED
  BY <1>1, <1>2, TypedTypes, PTL DEF Spec

-----------------------------------------------------------------------------
(* The ledger of outcomes.                                                 *)

\* A row is appended once, and never taken back.
LEMMA RowsGrow ==
  ASSUME Typed, [Next]_vars
  PROVE  \/ UNCHANGED rows
         \/ \E p \in Procs : /\ pc[p] = "append"
                             /\ AppendOutcome([pos |-> job[p], exit |-> exit[p]])
<1>1. ASSUME NEW p \in Procs, DoorStep(p) PROVE UNCHANGED rows
  BY <1>1 DEF DoorStep, ReadVenue, ReadBook, EndPass, Claim, CheckResting, Refuse, Send, Confirm,
     PlaceStop, PlaceTarget, Place, Save, SaveFails, Release, fileVars
<1>2. ASSUME NEW p \in Procs, ExitStep(p), ~ Record(p) PROVE UNCHANGED rows
  BY <1>2 DEF ExitStep, Watch, EmerRead, EmerLook, Close, Settle, Cancel, RecordFails, Clear, fileVars
<1>3. CASE \/ (\E p \in Procs : Crash(p)) \/ (\E e \in Entries : Look(e))
           \/ SaveHolding \/ Venue \/ Halt \/ Tick \/ UNCHANGED vars
  BY <1>3 DEF Crash, Look, SaveHolding, Venue, Land, Trigger, Drop, Halt, Tick, vars, fileVars
<1> QED
  BY <1>1, <1>2, <1>3 DEF Next, Record

LEMMA AppendsOnce ==
  ASSUME Typed, RowsUnique, NEW row, AppendOutcome(row)
  PROVE  RowsUnique'
<1>1. CASE \E i \in 1 .. Len(rows) : rows[i] = row
  BY <1>1 DEF AppendOutcome, RowsUnique
<1>2. CASE ~ \E i \in 1 .. Len(rows) : rows[i] = row
  <2>1. /\ rows' = Append(rows, row) /\ Len(rows) \in Nat /\ Len(rows') = Len(rows) + 1
        /\ rows'[Len(rows) + 1] = row
        /\ \A i \in 1 .. Len(rows) : rows'[i] = rows[i]
    BY <1>2 DEF AppendOutcome, Typed, WorldOK
  <2>2. SUFFICES ASSUME NEW i \in 1 .. Len(rows'), NEW j \in 1 .. Len(rows'), rows'[i] = rows'[j]
                 PROVE  i = j
    BY DEF RowsUnique
  <2>3. CASE i \in 1 .. Len(rows) /\ j \in 1 .. Len(rows)
    BY <2>1, <2>2, <2>3 DEF RowsUnique
  <2>4. CASE i = Len(rows) + 1 \/ j = Len(rows) + 1
    BY <1>2, <2>1, <2>2, <2>4
  <2> QED
    BY <2>1, <2>3, <2>4
<1> QED
  BY <1>1, <1>2

\* No settlement is recorded twice.
THEOREM NoRowTwice == Spec => []RowsUnique
<1>1. Init => Typed /\ RowsUnique
  BY InitTyped DEF Init, RowsUnique
<1>2. Typed /\ RowsUnique /\ [Next]_vars => Typed' /\ RowsUnique'
  <2> SUFFICES ASSUME Typed, RowsUnique, [Next]_vars PROVE RowsUnique'
    BY TypedStep
  <2>1. CASE UNCHANGED rows
    BY <2>1 DEF RowsUnique
  <2> QED
    BY <2>1, RowsGrow, AppendsOnce
<1> QED
  BY <1>1, <1>2, PTL DEF Spec

\* The money is in the ledger when a process is about to clear the record.
Recorded(e) == \E i \in 1 .. Len(rows) : rows[i].pos = e

Cleared == \A p \in Procs : pc[p] = "clear" => Recorded(job[p])

LEMMA RecordedStays ==
  ASSUME Typed, [Next]_vars, NEW e, Recorded(e)
  PROVE  \E i \in 1 .. Len(rows') : rows'[i].pos = e
<1>1. CASE UNCHANGED rows
  BY <1>1 DEF Recorded
<1>2. ASSUME NEW row, AppendOutcome(row)
      PROVE  \E i \in 1 .. Len(rows') : rows'[i].pos = e
  <2>1. \/ rows' = rows
        \/ /\ Len(rows) \in Nat /\ Len(rows') = Len(rows) + 1
           /\ \A i \in 1 .. Len(rows) : rows'[i] = rows[i]
    BY <1>2 DEF AppendOutcome, Typed, WorldOK
  <2> QED
    BY <2>1 DEF Recorded
<1> QED
  BY <1>1, <1>2, RowsGrow

LEMMA NowRecorded ==
  ASSUME Typed, NEW p \in Procs, Record(p)
  PROVE  \E i \in 1 .. Len(rows') : rows'[i].pos = job[p]
<1> DEFINE row == [pos |-> job[p], exit |-> exit[p]]
<1>1. row.pos = job[p] /\ AppendOutcome(row)
  BY DEF Record
<1> HIDE DEF row
<1>2. CASE \E i \in 1 .. Len(rows) : rows[i] = row
  BY <1>1, <1>2 DEF AppendOutcome
<1>3. CASE ~ \E i \in 1 .. Len(rows) : rows[i] = row
  <2>1. Len(rows) \in Nat /\ Len(rows') = Len(rows) + 1 /\ rows'[Len(rows) + 1] = row
    BY <1>1, <1>3 DEF AppendOutcome, Typed, WorldOK
  <2> QED
    BY <1>1, <2>1
<1> QED
  BY <1>2, <1>3

\* Only the record of an outcome leads to the clearing of the book.
LEMMA ToClear ==
  ASSUME Typed, [Next]_vars, NEW p \in Procs, pc'[p] = "clear"
  PROVE  (pc[p] = "clear" \/ Record(p)) /\ job'[p] = job[p]
<1> USE DEF Typed, ProcsOK
<1>1. ASSUME NEW q \in Procs, DoorStep(q) PROVE pc[p] = "clear" /\ job'[p] = job[p]
  <2>1. pc'[q] # "clear" /\ \A r \in Procs : r # q => pc'[r] = pc[r] /\ job'[r] = job[r]
    <3>1. CASE ReadVenue(q) \/ ReadBook(q) \/ EndPass(q) \/ (\E e \in Entries : Claim(q, e))
      BY <3>1 DEF ReadVenue, ReadBook, EndPass, Claim, Rest, Take
    <3>2. CASE CheckResting(q) \/ Refuse(q) \/ Send(q) \/ Confirm(q)
      BY <3>2 DEF CheckResting, Refuse, Send, Confirm, Go, Rest, Take
    <3>3. CASE PlaceStop(q) \/ PlaceTarget(q)
      BY <3>3 DEF PlaceStop, PlaceTarget, Place
    <3>4. CASE Save(q) \/ SaveFails(q) \/ Release(q)
      BY <3>4 DEF Save, SaveFails, Release, Go, Rest, Take
    <3> QED
      BY <1>1, <3>1, <3>2, <3>3, <3>4 DEF DoorStep
  <2> QED
    BY <2>1
<1>2. ASSUME NEW q \in Procs, ExitStep(q), ~ Record(q) PROVE pc[p] = "clear" /\ job'[p] = job[p]
  BY <1>2 DEF ExitStep, Watch, EmerRead, EmerLook, Close, Settle, Cancel, RecordFails, Clear, Go, Rest, Take, Done
<1>3. ASSUME NEW q \in Procs, Record(q) PROVE (pc[p] = "clear" \/ Record(p)) /\ job'[p] = job[p]
  BY <1>3 DEF Record, Go, Rest
<1>4. ASSUME NEW q \in Procs, Crash(q) PROVE pc[p] = "clear" /\ job'[p] = job[p]
  BY <1>4 DEF Crash, Rest
<1>5. CASE (\E e \in Entries : Look(e)) \/ SaveHolding
  <2>1. /\ Leg \in Procs /\ (pc'[Leg] # "clear" \/ (pc'[Leg] = pc[Leg] /\ job'[Leg] = job[Leg]))
        /\ \A r \in Procs : r # Leg => pc'[r] = pc[r] /\ job'[r] = job[r]
    BY <1>5 DEF Procs, Look, SaveHolding, Go, Rest, Take, Done
  <2> QED
    BY <2>1
<1>6. CASE Venue \/ Halt \/ Tick \/ UNCHANGED vars
  BY <1>6 DEF Venue, Land, Trigger, Drop, Halt, Tick, vars, procVars
<1> QED
  BY <1>1, <1>2, <1>3, <1>4, <1>5, <1>6 DEF Next

LEMMA ClearedStep == Typed /\ Cleared /\ [Next]_vars => Cleared'
<1> SUFFICES ASSUME Typed, Cleared, [Next]_vars, NEW p \in Procs, pc'[p] = "clear"
             PROVE  \E i \in 1 .. Len(rows') : rows'[i].pos = job'[p]
  BY DEF Cleared, Recorded
<1>1. (pc[p] = "clear" \/ Record(p)) /\ job'[p] = job[p]
  BY ToClear
<1> QED
  BY <1>1, NowRecorded, RecordedStays DEF Cleared

\* What happens to the record of a symbol.
LEMMA BookMoves ==
  ASSUME Typed, Cleared, [Next]_vars, NEW s \in Symbols, book[s] # None, book'[s] # book[s]
  PROVE  book'[s] = None /\ Recorded(book[s])
<1>1. ASSUME NEW p \in Procs, DoorStep(p) PROVE book'[s] = book[s]
  BY <1>1 DEF DoorStep, ReadVenue, ReadBook, EndPass, Claim, CheckResting, Refuse, Send, Confirm,
     PlaceStop, PlaceTarget, Place, Save, SaveFails, Release, fileVars, Typed, WorldOK
<1>2. ASSUME NEW p \in Procs, ExitStep(p), ~ Clear(p) PROVE book'[s] = book[s]
  BY <1>2 DEF ExitStep, Watch, EmerRead, EmerLook, Close, Settle, Cancel, Record, RecordFails, fileVars
<1>3. ASSUME NEW p \in Procs, Clear(p) PROVE book'[s] = None /\ Recorded(book[s])
  BY <1>3 DEF Clear, ClearOwn, Cleared, Typed, WorldOK
<1>4. CASE \/ (\E p \in Procs : Crash(p)) \/ (\E e \in Entries : Look(e))
           \/ SaveHolding \/ Venue \/ Halt \/ Tick \/ UNCHANGED vars
  BY <1>4 DEF Crash, Look, SaveHolding, Venue, Land, Trigger, Drop, Halt, Tick, vars, fileVars, Typed, WorldOK
<1> QED
  BY <1>1, <1>2, <1>3, <1>4 DEF Next

\* A record leaves the book only for nothing, and only after the money of its
\* position is in the ledger, over retries, crashes and two settling processes.
THEOREM MoneyFirst == Spec => RecordedFirst
<1>1. Init => Typed /\ Cleared
  BY InitTyped DEF Init, Cleared
<1>2. Typed /\ Cleared /\ [Next]_vars => Typed' /\ Cleared'
  BY TypedStep, ClearedStep
<1>3. Typed /\ Cleared /\ [Next]_vars =>
        [\A s \in Symbols : book[s] # None /\ book'[s] # book[s] =>
           book'[s] = None /\ \E i \in 1 .. Len(rows) : rows[i].pos = book[s]]_vars
  BY BookMoves DEF Recorded
<1> QED
  BY <1>1, <1>2, <1>3, PTL DEF Spec, RecordedFirst

-----------------------------------------------------------------------------
(* Who moves, and what moves.                                              *)

StepOf(p) == \/ DoorStep(p) \/ ExitStep(p) \/ Crash(p)
             \/ p = Leg /\ (SaveHolding \/ \E e \in Entries : Look(e))

\* The memory of one process, without the exit order it names.
Memory(q) == <<pc[q], job[q], why[q], seen[q], at[q], todo[q], keep[q]>>

LEMMA WhoMoves ==
  ASSUME [Next]_vars
  PROVE  \/ \E p \in Procs : StepOf(p)
         \/ (Venue \/ Halt \/ Tick \/ UNCHANGED vars) /\ UNCHANGED procVars
<1>1. (Venue \/ Halt \/ Tick \/ UNCHANGED vars) => UNCHANGED procVars
  BY DEF Venue, Land, Trigger, Drop, Halt, Tick, vars
<1> QED
  BY <1>1 DEF Next, StepOf, Procs

LEMMA OnlyOneMoves ==
  ASSUME Typed, NEW p \in Procs, StepOf(p), NEW q \in Procs, q # p
  PROVE  Memory(q)' = Memory(q)
<1> SUFFICES UNCHANGED <<pc[q], job[q], why[q], seen[q], at[q], todo[q], keep[q]>>
  BY DEF Memory
<1> USE DEF Typed, ProcsOK
<1>1. CASE DoorStep(p)
  <2>0. CASE ReadVenue(p) \/ ReadBook(p)
    BY <2>0 DEF ReadVenue, ReadBook
  <2>1. CASE EndPass(p) \/ (\E e \in Entries : Claim(p, e))
    BY <2>1 DEF EndPass, Claim, Rest, Take
  <2>2. CASE CheckResting(p) \/ Refuse(p) \/ Send(p) \/ Confirm(p)
    BY <2>2 DEF CheckResting, Refuse, Send, Confirm, Go, Rest, Take
  <2>3. CASE PlaceStop(p) \/ PlaceTarget(p)
    BY <2>3 DEF PlaceStop, PlaceTarget, Place
  <2>4. CASE Save(p) \/ SaveFails(p) \/ Release(p)
    BY <2>4 DEF Save, SaveFails, Release, Go, Rest, Take
  <2> QED
    BY <1>1, <2>0, <2>1, <2>2, <2>3, <2>4 DEF DoorStep
<1>2. CASE ExitStep(p)
  <2>1. CASE Watch(p) \/ EmerRead(p) \/ (\E e \in Entries : EmerLook(p, e))
    BY <2>1 DEF Watch, EmerRead, EmerLook, Rest, Take
  <2>2. CASE Close(p)
    BY <2>2 DEF Close, Rest, Done
  <2>3. CASE Settle(p) \/ Cancel(p)
    BY <2>3 DEF Settle, Cancel, Rest, Done
  <2>4. CASE Record(p) \/ RecordFails(p) \/ Clear(p)
    BY <2>4 DEF Record, RecordFails, Clear, Go, Rest, Done
  <2> QED
    BY <1>2, <2>1, <2>2, <2>3, <2>4 DEF ExitStep
<1>3. CASE Crash(p)
  BY <1>3 DEF Crash, Rest
<1>4. CASE p = Leg /\ (SaveHolding \/ \E e \in Entries : Look(e))
  BY <1>4 DEF SaveHolding, Look, Go, Rest, Done, Take
<1> QED
  BY <1>1, <1>2, <1>3, <1>4 DEF StepOf

\* An entry order changes when it is sent and when it lands.
LEMMA OrderMoves ==
  ASSUME Typed, [Next]_vars, NEW e \in Entries
  PROVE  \/ order'[e] = order[e]
         \/ order'[e] = "wire" /\ \E p \in Procs : Send(p) /\ job[p] = e
         \/ Land(e)
<1> USE DEF Typed, WorldOK
<1>1. ASSUME NEW p \in Procs, Send(p)
      PROVE  order'[e] = order[e] \/ (order'[e] = "wire" /\ job[p] = e)
  BY <1>1 DEF Send
<1>2. ASSUME NEW p \in Procs, DoorStep(p), ~ Send(p) PROVE UNCHANGED order
  BY <1>2 DEF DoorStep, ReadVenue, ReadBook, EndPass, Claim, CheckResting, Refuse, Confirm,
     PlaceStop, PlaceTarget, Place, Save, SaveFails, Release, venueVars
<1>3. ASSUME NEW p \in Procs, ExitStep(p) PROVE UNCHANGED order
  BY <1>3 DEF ExitStep, Watch, EmerRead, EmerLook, Close, Settle, Cancel, Record, RecordFails, Clear, venueVars
<1>4. CASE Venue
  <2>1. ASSUME NEW f \in Entries, Land(f) PROVE order'[e] = order[e] \/ Land(e)
    BY <2>1 DEF Land
  <2> QED
    BY <1>4, <2>1 DEF Venue, Trigger, Drop
<1>5. CASE \/ (\E p \in Procs : Crash(p)) \/ (\E f \in Entries : Look(f)) \/ SaveHolding
           \/ Halt \/ Tick \/ UNCHANGED vars
  BY <1>5 DEF Crash, Look, SaveHolding, Halt, Tick, vars, venueVars
<1> QED
  BY <1>1, <1>2, <1>3, <1>4, <1>5 DEF Next

\* What is open at the venue grows only when an entry order lands.
LEMMA UnitsMove ==
  ASSUME Typed, [Next]_vars, NEW e \in Entries
  PROVE  units'[e] <= units[e] \/ Land(e)
<1> USE DEF Typed, WorldOK
<1>0. units[e] \in 0 .. Full /\ units[e] <= units[e]
  BY DEF Full
<1>1. ASSUME NEW p \in Procs, DoorStep(p) PROVE UNCHANGED units
  BY <1>1 DEF DoorStep, ReadVenue, ReadBook, EndPass, Claim, CheckResting, Refuse, Send, Confirm,
     PlaceStop, PlaceTarget, Place, Save, SaveFails, Release, venueVars
<1>2. ASSUME NEW p \in Procs, Close(p) PROVE units'[e] <= units[e]
  <2>1. job[p] \in Entries /\ Sym(p) \in Symbols /\ [of |-> job[p], as |-> why[p]] \in Orders
    BY <1>2, SymType DEF Close, Hands, HandOf, Orders
  <2>2. CASE UNCHANGED units
    BY <1>0, <2>2
  <2>3. CASE \E n \in 1 .. Full : Fill(Sym(p), n, [of |-> job[p], as |-> why[p]])
    BY <2>1, <2>3, FillTypes
  <2> QED
    BY <1>2, <2>2, <2>3 DEF Close, Full
<1>3. ASSUME NEW p \in Procs, ExitStep(p), ~ Close(p) PROVE UNCHANGED units
  BY <1>3 DEF ExitStep, Watch, EmerRead, EmerLook, Settle, Cancel, Record, RecordFails, Clear, venueVars
<1>4. CASE Venue
  <2>1. ASSUME NEW f \in Entries, Land(f) PROVE units'[e] = units[e] \/ Land(e)
    BY <2>1 DEF Land
  <2>2. ASSUME NEW f \in Entries, NEW leg \in Legs, Trigger(f, leg) PROVE units'[e] <= units[e]
    <3>1. On[f] \in Symbols /\ [of |-> f, as |-> leg] \in Orders /\ Full \in 1 .. Full
      BY DEF Symbols, Orders, Full
    <3> QED
      BY <2>2, <3>1, FillTypes DEF Trigger
  <2>3. ASSUME NEW f \in Entries, NEW leg \in Legs, Drop(f, leg) PROVE UNCHANGED units
    BY <2>3 DEF Drop
  <2> QED
    BY <1>0, <1>4, <2>1, <2>2, <2>3 DEF Venue
<1>5. ASSUME \/ (\E p \in Procs : Crash(p)) \/ (\E f \in Entries : Look(f)) \/ SaveHolding
             \/ Halt \/ Tick \/ UNCHANGED vars
      PROVE  UNCHANGED units
  BY <1>5 DEF Crash, Look, SaveHolding, Halt, Tick, vars, venueVars
<1> QED
  BY <1>0, <1>1, <1>2, <1>3, <1>4, <1>5 DEF Next

\* A leg comes to rest only by the entry that places it.
LEMMA RestingMoves ==
  ASSUME Typed, [Next]_vars, NEW e \in Entries
  PROVE  \/ resting'[e] \subseteq resting[e]
         \/ \E p \in Procs : pc[p] \in {"stop", "target"} /\ job[p] = e
<1> USE DEF Typed, WorldOK
<1>1. ASSUME NEW p \in Procs, PlaceStop(p) \/ PlaceTarget(p)
      PROVE  resting'[e] = resting[e] \/ (pc[p] \in {"stop", "target"} /\ job[p] = e)
  BY <1>1 DEF PlaceStop, PlaceTarget, Place
<1>2. ASSUME NEW p \in Procs, DoorStep(p), ~ (PlaceStop(p) \/ PlaceTarget(p)) PROVE UNCHANGED resting
  BY <1>2 DEF DoorStep, ReadVenue, ReadBook, EndPass, Claim, CheckResting, Refuse, Send, Confirm,
     Save, SaveFails, Release, venueVars
<1>3. ASSUME NEW p \in Procs, Cancel(p) PROVE resting'[e] \subseteq resting[e]
  BY <1>3 DEF Cancel
<1>4. ASSUME NEW p \in Procs, ExitStep(p), ~ Cancel(p) PROVE UNCHANGED resting
  BY <1>4 DEF ExitStep, Watch, EmerRead, EmerLook, Close, Settle, Record, RecordFails, Clear, venueVars
<1>5. CASE Venue
  BY <1>5 DEF Venue, Land, Trigger, Drop
<1>6. CASE \/ (\E p \in Procs : Crash(p)) \/ (\E f \in Entries : Look(f)) \/ SaveHolding
           \/ Halt \/ Tick \/ UNCHANGED vars
  BY <1>6 DEF Crash, Look, SaveHolding, Halt, Tick, vars, venueVars
<1> QED
  BY <1>1, <1>2, <1>3, <1>4, <1>5, <1>6 DEF Next

\* A record is made by an entry or saved again by the leg, and goes with its position.
LEMMA RecordMoves ==
  ASSUME Typed, [Next]_vars, NEW s \in Symbols
  PROVE  \/ book'[s] = book[s]
         \/ /\ book[s] # None /\ book'[s] = None
            /\ \E p \in Procs : pc[p] = "clear" /\ job[p] = book[s]
         \/ /\ book[s] = None
            /\ \E p \in Procs : /\ Save(p) \/ (SaveHolding /\ p = Leg)
                                /\ pc[p] \in {"book", "time"} /\ Sym(p) = s /\ book'[s] = job[p]
<1> USE DEF Typed, WorldOK
<1>1. ASSUME NEW p \in Procs, Save(p)
      PROVE  book'[s] = book[s] \/ (pc[p] = "book" /\ Sym(p) = s /\ book[s] = None /\ book'[s] = job[p])
  BY <1>1 DEF Save
<1>2. ASSUME NEW p \in Procs, DoorStep(p), ~ Save(p) PROVE UNCHANGED book
  BY <1>2 DEF DoorStep, ReadVenue, ReadBook, EndPass, Claim, CheckResting, Refuse, Send, Confirm,
     PlaceStop, PlaceTarget, Place, SaveFails, Release, fileVars
<1>3. ASSUME NEW p \in Procs, Clear(p)
      PROVE  book'[s] = book[s] \/ (pc[p] = "clear" /\ book[s] = job[p] /\ book'[s] = None)
  BY <1>3 DEF Clear, ClearOwn
<1>4. ASSUME NEW p \in Procs, Clear(p), book[s] = None PROVE book'[s] = book[s]
  BY <1>4 DEF Clear, ClearOwn
<1>5. ASSUME NEW p \in Procs, ExitStep(p), ~ Clear(p) PROVE UNCHANGED book
  BY <1>5 DEF ExitStep, Watch, EmerRead, EmerLook, Close, Settle, Cancel, Record, RecordFails, fileVars
<1>6. CASE SaveHolding
  <2>1. Leg \in Procs
    BY DEF Procs
  <2>2. book'[s] = book[s] \/ (pc[Leg] = "time" /\ Sym(Leg) = s /\ book[s] = None /\ book'[s] = job[Leg])
    BY <1>6 DEF SaveHolding
  <2> QED
    BY <1>6, <2>1, <2>2
<1>7. CASE \/ (\E p \in Procs : Crash(p)) \/ (\E f \in Entries : Look(f))
           \/ Venue \/ Halt \/ Tick \/ UNCHANGED vars
  BY <1>7 DEF Crash, Look, Venue, Land, Trigger, Drop, Halt, Tick, vars, fileVars
<1> QED
  BY <1>1, <1>2, <1>3, <1>4, <1>5, <1>6, <1>7 DEF Next

\* A claim is taken by a door that finds the symbol free, and given back by its own.
LEMMA ClaimMoves ==
  ASSUME Typed, [Next]_vars, NEW s \in Symbols
  PROVE  \/ claim'[s] = claim[s]
         \/ \E p \in Procs, e \in Entries : /\ Claim(p, e) /\ On[e] = s
                                            /\ claim'[s] = [order |-> e, since |-> now]
         \/ /\ claim[s] # None /\ claim'[s] = None
            /\ \E p \in Procs : pc[p] = "giveback" /\ job[p] = claim[s].order /\ Release(p)
<1> USE DEF Typed, WorldOK
<1>1. ASSUME NEW p \in Procs, NEW e \in Entries, Claim(p, e)
      PROVE  claim'[s] = claim[s] \/ (On[e] = s /\ claim'[s] = [order |-> e, since |-> now])
  BY <1>1 DEF Claim
<1>2. ASSUME NEW p \in Procs, Release(p)
      PROVE  \/ claim'[s] = claim[s]
             \/ pc[p] = "giveback" /\ claim[s] # None /\ claim'[s] = None /\ job[p] = claim[s].order
  BY <1>2 DEF Release, ReleaseOwn
<1>3. ASSUME NEW p \in Procs, DoorStep(p), ~ Release(p), ~ (\E e \in Entries : Claim(p, e)) PROVE UNCHANGED claim
  BY <1>3 DEF DoorStep, ReadVenue, ReadBook, EndPass, CheckResting, Refuse, Send, Confirm,
     PlaceStop, PlaceTarget, Place, Save, SaveFails, fileVars
<1>4. ASSUME NEW p \in Procs, ExitStep(p) PROVE UNCHANGED claim
  BY <1>4 DEF ExitStep, Watch, EmerRead, EmerLook, Close, Settle, Cancel, Record, RecordFails, Clear, fileVars
<1>5. CASE \/ (\E p \in Procs : Crash(p)) \/ (\E f \in Entries : Look(f)) \/ SaveHolding
           \/ Venue \/ Halt \/ Tick \/ UNCHANGED vars
  BY <1>5 DEF Crash, Look, SaveHolding, Venue, Land, Trigger, Drop, Halt, Tick, vars, fileVars
<1> QED
  BY <1>1, <1>2, <1>3, <1>4, <1>5 DEF Next

\* Time passes, and only by the clock.
LEMMA TimeMoves ==
  ASSUME [Next]_vars
  PROVE  now' = now \/ (Tick /\ now' = now + 1)
<1>1. ASSUME NEW p \in Procs, DoorStep(p) PROVE now' = now
  BY <1>1 DEF DoorStep, ReadVenue, ReadBook, EndPass, Claim, CheckResting, Refuse, Send, Confirm,
     PlaceStop, PlaceTarget, Place, Save, SaveFails, Release
<1>2. ASSUME NEW p \in Procs, ExitStep(p) PROVE now' = now
  BY <1>2 DEF ExitStep, Watch, EmerRead, EmerLook, Close, Settle, Cancel, Record, RecordFails, Clear
<1>3. CASE \/ (\E p \in Procs : Crash(p)) \/ (\E f \in Entries : Look(f)) \/ SaveHolding
           \/ Venue \/ Halt \/ UNCHANGED vars
  BY <1>3 DEF Crash, Look, SaveHolding, Venue, Land, Trigger, Drop, Halt, vars
<1> QED
  BY <1>1, <1>2, <1>3 DEF Next, Tick

\* A close is known to the venue once it filled whole.
LEMMA ClosesMove ==
  ASSUME Typed, [Next]_vars
  PROVE  \/ closes' = closes
         \/ \E p \in Procs : Close(p) /\ closes' = closes \cup {[of |-> job[p], as |-> why[p]]}
<1>1. ASSUME NEW p \in Procs, DoorStep(p) PROVE UNCHANGED closes
  BY <1>1 DEF DoorStep, ReadVenue, ReadBook, EndPass, Claim, CheckResting, Refuse, Send, Confirm,
     PlaceStop, PlaceTarget, Place, Save, SaveFails, Release, venueVars
<1>2. ASSUME NEW p \in Procs, Close(p)
      PROVE  closes' = closes \/ closes' = closes \cup {[of |-> job[p], as |-> why[p]]}
  BY <1>2 DEF Close
<1>3. ASSUME NEW p \in Procs, ExitStep(p), ~ Close(p) PROVE UNCHANGED closes
  BY <1>3 DEF ExitStep, Watch, EmerRead, EmerLook, Settle, Cancel, Record, RecordFails, Clear, venueVars
<1>4. CASE \/ (\E p \in Procs : Crash(p)) \/ (\E f \in Entries : Look(f)) \/ SaveHolding
           \/ Venue \/ Halt \/ Tick \/ UNCHANGED vars
  BY <1>4 DEF Crash, Look, SaveHolding, Venue, Land, Trigger, Drop, Halt, Tick, vars, venueVars
<1> QED
  BY <1>1, <1>2, <1>3, <1>4 DEF Next

LEMMA FiredMoves ==
  ASSUME Typed, [Next]_vars, NEW e \in Entries
  PROVE  fired'[e] = fired[e] \/ \E leg \in Legs : Trigger(e, leg)
<1>1. ASSUME NEW p \in Procs, DoorStep(p) PROVE UNCHANGED fired
  BY <1>1 DEF DoorStep, ReadVenue, ReadBook, EndPass, Claim, CheckResting, Refuse, Send, Confirm,
     PlaceStop, PlaceTarget, Place, Save, SaveFails, Release, venueVars
<1>2. ASSUME NEW p \in Procs, ExitStep(p) PROVE UNCHANGED fired
  BY <1>2 DEF ExitStep, Watch, EmerRead, EmerLook, Close, Settle, Cancel, Record, RecordFails, Clear, venueVars
<1>3. CASE Venue
  <2>1. ASSUME NEW f \in Entries, NEW leg \in Legs, Trigger(f, leg)
        PROVE  fired'[e] = fired[e] \/ f = e
    BY <2>1 DEF Trigger, Typed, WorldOK
  <2> QED
    BY <1>3, <2>1 DEF Venue, Land, Drop
<1>4. CASE \/ (\E p \in Procs : Crash(p)) \/ (\E f \in Entries : Look(f)) \/ SaveHolding
           \/ Halt \/ Tick \/ UNCHANGED vars
  BY <1>4 DEF Crash, Look, SaveHolding, Halt, Tick, vars, venueVars
<1> QED
  BY <1>1, <1>2, <1>3, <1>4 DEF Next

-----------------------------------------------------------------------------
(* What is over at the venue, and what a process knows of its position.    *)

\* Nothing of this entry is open, and nothing can be any more.
Over(e) == order[e] \in {"full", "short", "dead"}
Flat(e) == Over(e) /\ units[e] = 0

NakedClose(e) == [of |-> e, as |-> "naked"]

\* Nothing is open before an order lands; legs are for an entry that filled whole, a leg
\* that fired has flattened its own entry, and so has a close that is not of a part; the
\* book has entries that filled whole.
VenueInv ==
  /\ \A e \in Entries : order[e] \in {"none", "wire", "dead"} => units[e] = 0
  /\ \A e \in Entries : resting[e] # {} => order[e] = "full"
  /\ \A e \in Entries : fired[e] # {} => Flat(e)
  /\ \A o \in closes : order[o.of] # "none" /\ (o.as # "naked" => Flat(o.of))
  /\ \A s \in Symbols : book[s] # None => order[book[s]] = "full" /\ On[book[s]] = s

\* Until its entry is booked or over, the position in hand is the door's own.
Opening(p) == pc[p] \in {"sent", "stop", "target", "book"}

OwnJob(p) ==
  /\ pc[p] \in {"claimed", "ready", "giveback", "watch"} \/ Opening(p) => Opener[job[p]] = p
  /\ why[p] = "naked" =>
       Opener[job[p]] = p /\ pc[p] \in {"target", "close", "cancel", "append", "clear", "giveback"}
  /\ pc[p] = "idle" => at[p] = None
  /\ pc[p] \in {"claimed", "ready"} \/ Opening(p) => at[p] # None /\ p \in Doors

\* How far the entry in hand has come.
OrderJob(p) ==
  /\ pc[p] \in {"claimed", "ready"} => order[job[p]] = "none"
  /\ pc[p] \in {"sent", "close"} => order[job[p]] # "none"
  /\ pc[p] \in {"stop", "target", "book", "watch", "time", "settle"} => order[job[p]] = "full"
  /\ pc[p] = "close" /\ ~ (why[p] = "naked" /\ keep[p]) => order[job[p]] = "full"
  /\ \A e \in todo[p] : order[e] = "full"

\* A position whose outcome is recorded, or whose symbol is given back, is over, unless a
\* part was closed, which keeps the symbol.
FlatJob(p) ==
  /\ Opening(p) \/ (pc[p] = "close" /\ why[p] = "naked") => NakedClose(job[p]) \notin closes
  /\ pc[p] \in {"cancel", "append", "clear"} => (why[p] = "naked" /\ keep[p]) \/ Flat(job[p])
  /\ pc[p] = "giveback" =>
       /\ why[p] \in {"entry", "open", "naked"}
       /\ why[p] = "entry" => order[job[p]] \in {"none", "dead"}
       /\ why[p] = "open" => order[job[p]] = "full" /\ (book[Sym(p)] = job[p] \/ Flat(job[p]))
       /\ why[p] = "naked" => Flat(job[p])

Job(p) == OwnJob(p) /\ OrderJob(p) /\ FlatJob(p)
Jobs == \A p \in Procs : Job(p)

\* No two entries are live on one symbol, and no leg rests beside another live entry.
Apart == \A e, f \in Entries : e # f /\ On[e] = On[f] /\ Live(e) => ~ Live(f) /\ resting[f] = {}

\* An order is sent once, and once it is over it stays over.
LEMMA OrderStays ==
  ASSUME Typed, Jobs, [Next]_vars, NEW e \in Entries
  PROVE  /\ Over(e) => order'[e] = order[e]
         /\ order'[e] = "none" => order[e] = "none"
         /\ order'[e] = "dead" => order[e] \in {"dead", "wire"}
         /\ order'[e] \in {"wire", "part"} =>
              \/ order[e] \in {"wire", "part"}
              \/ order'[e] = "wire" /\ \E p \in Procs : Send(p) /\ job[p] = e
<1>1. ASSUME NEW p \in Procs, Send(p), job[p] = e PROVE order[e] = "none"
  BY <1>1 DEF Send, Jobs, Job, OrderJob
<1>2. CASE Land(e)
  BY <1>2 DEF Land, Over, Typed, WorldOK
<1>3. CASE order'[e] = order[e] \/ (order'[e] = "wire" /\ \E p \in Procs : Send(p) /\ job[p] = e)
  BY <1>1, <1>3 DEF Over
<1> QED
  BY <1>2, <1>3, OrderMoves

LEMMA FlatStays ==
  ASSUME Typed, Jobs, [Next]_vars, NEW e \in Entries, Flat(e)
  PROVE  Flat(e)'
<1>1. order'[e] = order[e] /\ ~ Land(e)
  BY OrderStays DEF Flat, Over, Land
<1>2. units'[e] <= units[e] /\ units[e] = 0
  BY <1>1, UnitsMove DEF Flat
<1>3. units'[e] \in 0 .. Full
  BY TypedStep DEF Typed, WorldOK
<1>4. units'[e] = 0
  BY <1>2, <1>3 DEF Full
<1> QED
  BY <1>1, <1>4 DEF Flat, Over

\* An entry comes to life when it is sent, and in no other way.
LEMMA LiveMoves ==
  ASSUME Typed, Jobs, VenueInv, [Next]_vars, NEW e \in Entries, Live(e)'
  PROVE  Live(e) \/ \E p \in Procs : Send(p) /\ job[p] = e
<1>1. CASE order'[e] \in {"wire", "part"}
  BY <1>1, OrderStays DEF Live
<1>2. CASE Land(e)
  BY <1>2 DEF Land, Live
<1>3. CASE units'[e] > 0 /\ ~ Land(e)
  <2>1. units'[e] <= units[e] /\ units[e] \in 0 .. Full /\ units'[e] \in 0 .. Full
    BY <1>3, UnitsMove, TypedStep DEF Typed, WorldOK
  <2> QED
    BY <1>3, <2>1 DEF Live, Full
<1> QED
  BY <1>1, <1>2, <1>3 DEF Live

\* What fills on a symbol whole leaves nothing open there.
LEMMA FillEmpties ==
  ASSUME Typed, Apart, NEW s \in Symbols, NEW by, Fill(s, Full, by), NEW e \in EntriesOn(s)
  PROVE  units'[e] = 0
<1>1. PICK h \in EntriesOn(s) : /\ units[h] > 0
                                /\ units' = [units EXCEPT ![h] = IF @ > Full THEN @ - Full ELSE 0]
  BY DEF Fill
<1>2. units \in [Entries -> 0 .. Full] /\ h \in Entries /\ e \in Entries /\ On[h] = On[e]
  BY DEF EntriesOn, Typed, WorldOK
<1>3. CASE e = h
  BY <1>1, <1>2, <1>3 DEF Full
<1>4. CASE e # h
  <2>1. ~ Live(e)
    BY <1>1, <1>2, <1>4 DEF Apart, Live
  <2>2. units[e] \in 0 .. Full /\ ~ (units[e] > 0)
    BY <1>2, <2>1 DEF Live
  <2> QED
    BY <1>1, <1>2, <1>4, <2>2 DEF Full
<1> QED
  BY <1>3, <1>4

\* A leg that fires flattens the entry it was placed for.
LEMMA TriggerFlattens ==
  ASSUME Typed, Apart, VenueInv, NEW e \in Entries, NEW leg \in Legs, Trigger(e, leg)
  PROVE  Flat(e)'
<1>1. order[e] = "full" /\ order' = order
  BY DEF Trigger, VenueInv
<1>2. On[e] \in Symbols /\ e \in EntriesOn(On[e])
  BY DEF Symbols, EntriesOn
<1>3. units'[e] = 0
  BY <1>2, FillEmpties DEF Trigger
<1> QED
  BY <1>1, <1>3 DEF Flat, Over

\* So does a close of a whole position, even when its answer is lost.
LEMMA CloseFlattens ==
  ASSUME Typed, Apart, VenueInv, NEW p \in Procs, Job(p), Close(p), ~ (why[p] = "naked" /\ keep[p]),
         closes' # closes \/ pc'[p] \in {"cancel", "append"}, NEW e \in Entries, e = job[p]
  PROVE  Flat(e)'
<1> DEFINE id == [of |-> e, as |-> why[p]]
<1>1. order[e] = "full" /\ order' = order /\ pc[p] = "close"
  BY DEF Close, Job, OrderJob
<1>2. Sym(p) \in Symbols /\ e \in EntriesOn(Sym(p))
  BY DEF Sym, EntriesOn, Symbols
<1>3. CASE Fill(Sym(p), Full, id)
  <2>1. units'[e] = 0
    BY <1>2, <1>3, FillEmpties
  <2> QED
    BY <1>1, <2>1 DEF Flat, Over
<1>4. CASE ~ Fill(Sym(p), Full, id)
  <2>1. CASE id \in closes /\ UNCHANGED units
    <3>1. why[p] # "naked"
      BY <1>1, <2>1 DEF Job, FlatJob, NakedClose
    <3>2. Flat(e)
      BY <2>1, <3>1 DEF VenueInv
    <3> QED
      BY <1>1, <2>1, <3>2 DEF Flat, Over
  <2>2. CASE UNCHANGED closes /\ (Rest(p) \/ Done(p))
    <3>1. pc'[p] \in {"idle", "pass"}
      BY <2>2, RestMoves, DoneMoves DEF Typed
    <3> QED
      BY <2>2, <3>1
  <2> QED
    BY <1>4, <2>1, <2>2 DEF Close
<1> QED
  BY <1>3, <1>4

LEMMA VenueInvStep == ASSUME Typed, Apart, VenueInv, Jobs, [Next]_vars PROVE VenueInv'
<1> USE DEF Typed, WorldOK
<1>1. ASSUME NEW e \in Entries, order'[e] \in {"none", "wire", "dead"} PROVE units'[e] = 0
  <2>1. units[e] \in 0 .. Full /\ units'[e] \in 0 .. Full
    BY TypedStep
  <2>2. CASE Land(e)
    BY <1>1, <2>2 DEF Land, VenueInv
  <2>3. CASE ~ Land(e)
    <3>1. order[e] \in {"none", "wire", "dead"}
      <4>1. CASE order'[e] = order[e]
        BY <1>1, <4>1
      <4>2. ASSUME NEW p \in Procs, Send(p), job[p] = e PROVE order[e] = "none"
        BY <4>2 DEF Send, Jobs, Job, OrderJob
      <4> QED
        BY <2>3, <4>1, <4>2, OrderMoves
    <3>2. units[e] = 0 /\ units'[e] <= units[e]
      BY <2>3, <3>1, UnitsMove DEF VenueInv
    <3> QED
      BY <2>1, <3>2 DEF Full
  <2> QED
    BY <2>2, <2>3
<1>2. ASSUME NEW e \in Entries, resting'[e] # {} PROVE order'[e] = "full"
  <2>1. order[e] = "full"
    <3>1. CASE resting[e] # {}
      BY <3>1 DEF VenueInv
    <3>2. CASE \E p \in Procs : pc[p] \in {"stop", "target"} /\ job[p] = e
      BY <3>2 DEF Jobs, Job, OrderJob
    <3> QED
      BY <1>2, <3>1, <3>2, RestingMoves
  <2> QED
    BY <2>1, OrderStays DEF Over
<1>3. ASSUME NEW e \in Entries, fired'[e] # {} PROVE Flat(e)'
  <2>1. CASE fired'[e] = fired[e]
    BY <1>3, <2>1, FlatStays DEF VenueInv
  <2>2. CASE \E leg \in Legs : Trigger(e, leg)
    BY <2>2, TriggerFlattens
  <2> QED
    BY <2>1, <2>2, FiredMoves
<1>4. ASSUME NEW o \in closes' PROVE order'[o.of] # "none" /\ (o.as # "naked" => Flat(o.of)')
  <2>1. o \in Orders /\ o.of \in Entries
    BY <1>4, TypedStep DEF Orders
  <2>2. CASE o \in closes
    <3>1. order[o.of] # "none" /\ (o.as # "naked" => Flat(o.of))
      BY <2>2 DEF VenueInv
    <3> QED
      BY <2>1, <3>1, OrderStays, FlatStays
  <2>3. CASE o \notin closes
    <3>1. PICK p \in Procs : Close(p) /\ closes' = closes \cup {[of |-> job[p], as |-> why[p]]}
      BY <1>4, <2>3, ClosesMove
    <3>2. o = [of |-> job[p], as |-> why[p]]
      BY <1>4, <2>3, <3>1
    <3>3. o.of = job[p] /\ o.as = why[p]
      BY <3>2
    <3>4. order[job[p]] # "none" /\ Job(p)
      BY <3>1 DEF Close, Jobs, Job, OrderJob
    <3>5. closes' # closes
      BY <1>4, <2>3
    <3>6. o.as # "naked" => Flat(o.of)'
      BY <2>1, <3>1, <3>3, <3>4, <3>5, CloseFlattens
    <3>7. order'[o.of] # "none"
      BY <2>1, <3>3, <3>4, OrderStays
    <3> QED
      BY <3>6, <3>7
  <2> QED
    BY <2>2, <2>3
<1>5. ASSUME NEW s \in Symbols, book'[s] # None PROVE order'[book'[s]] = "full" /\ On[book'[s]] = s
  <2>1. order[book'[s]] = "full" /\ On[book'[s]] = s
    <3>1. CASE book'[s] = book[s]
      BY <1>5, <3>1 DEF VenueInv
    <3>2. CASE \E p \in Procs : pc[p] \in {"book", "time"} /\ Sym(p) = s /\ book'[s] = job[p]
      BY <3>2 DEF Jobs, Job, OrderJob, Sym
    <3> QED
      BY <1>5, <3>1, <3>2, RecordMoves
  <2>2. book'[s] \in Entries
    BY <1>5, TypedStep
  <2> QED
    BY <2>1, <2>2, OrderStays DEF Over
<1> QED
  BY <1>1, <1>2, <1>3, <1>4, <1>5 DEF VenueInv

-----------------------------------------------------------------------------
(* What a process knows of its position holds from step to step.           *)

\* What others do leaves it true.
LEMMA JobStands ==
  ASSUME Typed, Jobs, [Next]_vars, NEW q \in Procs, Memory(q)' = Memory(q)
  PROVE  Job(q)'
<1>1. Job(q) /\ UNCHANGED <<pc[q], job[q], why[q], seen[q], at[q], todo[q], keep[q]>>
  BY DEF Memory, Jobs
<1> DEFINE e == job[q]
<1>2. OwnJob(q)'
  BY <1>1 DEF Job, OwnJob, Opening
<1>3. ASSUME NEW f \in Entries, order[f] = "full" PROVE order'[f] = "full"
  BY <1>3, OrderStays DEF Over
<1>4. e \in Entries \/ pc[q] \in {"idle", "venue", "pass"}
  BY DEF Typed, Hands, HandOf
<1>5. ASSUME pc[q] \in {"claimed", "ready", "giveback"}, order[e] = "none" PROVE order'[e] = "none"
  <2>1. e \in Entries /\ ~ Land(e) /\ Opener[e] = q
    BY <1>1, <1>4, <1>5 DEF Land, Job, OwnJob
  <2>2. ASSUME NEW p \in Procs, Send(p), job[p] = e PROVE FALSE
    <3>1. Opener[e] = p /\ pc'[p] = "sent"
      BY <2>2, GoMoves DEF Send, Jobs, Job, OwnJob, Typed, Places
    <3> QED
      BY <1>1, <1>5, <2>1, <3>1
  <2> QED
    BY <1>5, <2>1, <2>2, OrderMoves
<1>6. ASSUME Opening(q) \/ (pc[q] = "close" /\ why[q] = "naked") PROVE NakedClose(e) \notin closes'
  <2>1. e \in Entries /\ Opener[e] = q /\ NakedClose(e) \notin closes
    BY <1>1, <1>4, <1>6 DEF Job, OwnJob, FlatJob, Opening
  <2>2. ASSUME NEW p \in Procs, Close(p), [of |-> job[p], as |-> why[p]] = NakedClose(e) PROVE FALSE
    <3>1. job[p] = e /\ why[p] = "naked" /\ pc[p] = "close"
      BY <2>2 DEF NakedClose, Close
    <3>2. p = q
      BY <2>1, <3>1 DEF Jobs, Job, OwnJob
    <3>3. pc'[p] # "close"
      <4>1. ASSUME Rest(p) \/ Done(p) PROVE pc'[p] # "close"
        BY <4>1, RestMoves, DoneMoves DEF Typed
      <4> QED
        BY <2>2, <4>1 DEF Close, Typed, ProcsOK
    <3> QED
      BY <1>1, <3>1, <3>2, <3>3
  <2> HIDE DEF e
  <2> QED
    BY <2>1, <2>2, ClosesMove
<1>7. ASSUME NEW f \in Entries, Flat(f) PROVE Flat(f)'
  BY <1>7, FlatStays
<1>8. ASSUME pc[q] = "giveback", why[q] = "open", book[Sym(q)] = e PROVE book'[Sym(q)] = e \/ Flat(e)
  <2>1. e \in Entries /\ Opener[e] = q /\ Sym(q) \in Symbols
    BY <1>1, <1>4, <1>8, SymType DEF Job, OwnJob
  <2>2. ASSUME NEW p \in Procs, pc[p] = "clear", job[p] = e PROVE Flat(e)
    <3>1. (why[p] = "naked" /\ keep[p]) \/ Flat(e)
      BY <2>2 DEF Jobs, Job, FlatJob
    <3>2. why[p] = "naked" => p = q
      BY <2>1, <2>2 DEF Jobs, Job, OwnJob
    <3> QED
      BY <1>8, <2>2, <3>1, <3>2
  <2>3. book[Sym(q)] \in Entries
    BY <1>8, <2>1
  <2> QED
    BY <1>8, <2>1, <2>2, <2>3, RecordMoves, NoneAssumption
<1>9. OrderJob(q)'
  <2>1. pc[q] \in {"sent", "close"} => order'[e] # "none"
    BY <1>1, <1>4, OrderStays DEF Job, OrderJob
  <2>2. pc[q] \in {"claimed", "ready"} => order'[e] = "none"
    BY <1>1, <1>5 DEF Job, OrderJob
  <2>3. pc[q] \in {"stop", "target", "book", "watch", "time", "settle"} => order'[e] = "full"
    BY <1>1, <1>3, <1>4 DEF Job, OrderJob
  <2>4. pc[q] = "close" /\ ~ (why[q] = "naked" /\ keep[q]) => order'[e] = "full"
    BY <1>1, <1>3, <1>4 DEF Job, OrderJob
  <2>5. \A f \in todo[q] : order'[f] = "full"
    BY <1>1, <1>3 DEF Job, OrderJob, Typed, ProcsOK
  <2> QED
    BY <1>1, <2>1, <2>2, <2>3, <2>4, <2>5 DEF OrderJob
<1>10. FlatJob(q)'
  <2>1. UNCHANGED <<pc[q], job[q], why[q], keep[q], Sym(q)>>
    BY <1>1 DEF Sym
  <2>2. Opening(q)' <=> Opening(q)
    BY <2>1 DEF Opening
  <2>3. Flat(job[q])' <=> (order'[e] \in {"full", "short", "dead"} /\ units'[e] = 0)
    BY <2>1 DEF Flat, Over
  <2>4. pc[q] \in {"cancel", "append", "clear"} => (why[q] = "naked" /\ keep[q]) \/ Flat(job[q])'
    BY <1>1, <1>4, <1>7, <2>3 DEF Job, FlatJob, Flat, Over
  <2>5. pc[q] = "giveback" =>
          /\ why[q] \in {"entry", "open", "naked"}
          /\ why[q] = "entry" => order'[e] \in {"none", "dead"}
          /\ why[q] = "open" => order'[e] = "full" /\ (book'[Sym(q)] = e \/ Flat(job[q])')
          /\ why[q] = "naked" => Flat(job[q])'
    <3> SUFFICES ASSUME pc[q] = "giveback"
                 PROVE  /\ why[q] \in {"entry", "open", "naked"}
                        /\ why[q] = "entry" => order'[e] \in {"none", "dead"}
                        /\ why[q] = "open" => order'[e] = "full" /\ (book'[Sym(q)] = e \/ Flat(job[q])')
                        /\ why[q] = "naked" => Flat(job[q])'
      OBVIOUS
    <3>0. e \in Entries /\ FlatJob(q)
      BY <1>1, <1>4 DEF Job
    <3>1. why[q] = "entry" => order'[e] \in {"none", "dead"}
      BY <1>5, <3>0, OrderStays DEF FlatJob, Over
    <3>2. why[q] = "open" => order'[e] = "full"
      BY <1>3, <3>0 DEF FlatJob
    <3>3. Flat(e) => Flat(job[q])'
      BY <1>7, <2>3, <3>0 DEF Flat, Over
    <3>4. why[q] = "open" => book'[Sym(q)] = e \/ Flat(e)
      BY <1>8, <3>0 DEF FlatJob
    <3> QED
      BY <3>0, <3>1, <3>2, <3>3, <3>4 DEF FlatJob
  <2>6. Opening(q) \/ (pc[q] = "close" /\ why[q] = "naked") => NakedClose(job'[q]) \notin closes'
    BY <1>6, <2>1
  <2> QED
    BY <2>1, <2>2, <2>4, <2>5, <2>6 DEF FlatJob, NakedClose
<1> QED
  BY <1>2, <1>9, <1>10 DEF Job
\* A process with nothing in hand knows that the positions it goes over were filled.
LEMMA NothingInHand ==
  ASSUME Typed, Jobs, [Next]_vars, NEW p \in Procs, pc'[p] \in {"idle", "venue", "pass"},
         pc'[p] = "idle" => at'[p] = None, why'[p] # "naked",
         todo'[p] \subseteq Entries, \A e \in todo'[p] : order[e] = "full"
  PROVE  Job(p)'
<1>1. ASSUME NEW e \in todo'[p] PROVE order'[e] = "full"
  BY OrderStays DEF Over
<1> QED
  BY <1>1 DEF Job, OwnJob, OrderJob, FlatJob, Opening

LEMMA RestJob ==
  ASSUME Typed, Jobs, [Next]_vars, NEW p \in Procs, Rest(p) PROVE Job(p)'
<1>1. pc'[p] = "idle" /\ at'[p] = None /\ why'[p] = "none" /\ todo'[p] = {}
  BY DEF Rest, Typed, ProcsOK
<1> QED
  BY <1>1, NothingInHand

LEMMA DoneJob ==
  ASSUME Typed, Jobs, [Next]_vars, NEW p \in Procs, Done(p) PROVE Job(p)'
<1>1. CASE p \in Probes
  BY <1>1, RestJob DEF Done
<1>2. CASE p \notin Probes
  <2>1. pc'[p] = "pass" /\ why'[p] = "none" /\ todo'[p] = todo[p]
    BY <1>2 DEF Done, Typed, ProcsOK
  <2>2. \A e \in todo[p] : order[e] = "full"
    BY DEF Jobs, Job, OrderJob
  <2>3. todo[p] \subseteq Entries
    BY DEF Typed, ProcsOK
  <2> QED
    BY <2>1, <2>2, <2>3, NothingInHand
<1> QED
  BY <1>1, <1>2

LEMMA GoJob ==
  ASSUME Typed, Jobs, [Next]_vars, NEW p \in Procs, NEW place \in Places, Go(p, place)
  PROVE  /\ pc'[p] = place
         /\ UNCHANGED <<job[p], why[p], at[p], todo[p], keep[p], Sym(p)>>
         /\ \A f \in todo[p] : order'[f] = "full"
<1>1. \A f \in todo[p] : f \in Entries /\ order[f] = "full"
  BY DEF Jobs, Job, OrderJob, Typed, ProcsOK
<1>2. \A f \in todo[p] : order'[f] = "full"
  BY <1>1, OrderStays DEF Over
<1> QED
  BY <1>2 DEF Go, Sym, Typed, ProcsOK

LEMMA PassJob ==
  ASSUME Typed, VenueInv, Jobs, [Next]_vars, NEW p \in Procs,
         ReadVenue(p) \/ ReadBook(p) \/ EndPass(p) \/ EmerRead(p) \/ Crash(p) \/ SaveFails(p)
  PROVE  Job(p)'
<1>1. CASE EndPass(p) \/ Crash(p) \/ SaveFails(p)
  BY <1>1, RestJob DEF EndPass, Crash, SaveFails
<1>2. CASE ReadVenue(p) \/ ReadBook(p) \/ EmerRead(p)
  <2>1. /\ pc'[p] \in {"venue", "pass"} /\ UNCHANGED <<why, job>>
        /\ todo'[p] \subseteq todo[p] \cup {book[s] : s \in Booked}
    BY <1>2 DEF ReadVenue, ReadBook, EmerRead, Typed, ProcsOK
  <2>2. \A s \in Booked : book[s] \in Entries /\ order[book[s]] = "full"
    BY DEF Booked, VenueInv, Typed, WorldOK
  <2>3. \A e \in todo[p] : e \in Entries /\ order[e] = "full"
    BY DEF Jobs, Job, OrderJob, Typed, ProcsOK
  <2>4. why[p] # "naked"
    BY <1>2 DEF Jobs, Job, OwnJob, ReadVenue, ReadBook, EmerRead
  <2>5. todo'[p] \subseteq Entries /\ \A e \in todo'[p] : order[e] = "full"
    BY <2>1, <2>2, <2>3
  <2> QED
    BY <2>1, <2>4, <2>5, NothingInHand
<1> QED
  BY <1>1, <1>2

LEMMA ClaimJob ==
  ASSUME Typed, Jobs, [Next]_vars, NEW p \in Procs, NEW e \in Entries, Claim(p, e) PROVE Job(p)'
<1>1. /\ pc'[p] = "claimed" /\ job'[p] = e /\ why'[p] = "entry" /\ at'[p] = at[p] /\ todo'[p] = {}
      /\ order' = order /\ order[e] = "none" /\ Opener[e] = p /\ at[p] # None /\ p \in Doors
  BY DEF Claim, Take, Typed, ProcsOK, venueVars
<1> QED
  BY <1>1 DEF Job, OwnJob, OrderJob, FlatJob, Opening

LEMMA ReadyJob ==
  ASSUME Typed, Jobs, [Next]_vars, NEW p \in Procs, CheckResting(p) \/ Refuse(p) PROVE Job(p)'
<1>1. /\ pc'[p] \in {"ready", "giveback"} /\ UNCHANGED <<job[p], why[p], at[p], todo[p], keep[p], order>>
      /\ \A f \in todo[p] : order'[f] = "full"
  BY GoJob DEF CheckResting, Refuse, Places, venueVars
<1>2. pc[p] \in {"claimed", "ready"} /\ why[p] = "entry" /\ Job(p)
  BY DEF CheckResting, Refuse, Typed, Hands, HandOf, Jobs
<1> QED
  BY <1>1, <1>2 DEF Job, OwnJob, OrderJob, FlatJob, Opening

LEMMA SendJob ==
  ASSUME Typed, VenueInv, Jobs, [Next]_vars, NEW p \in Procs, Send(p) PROVE Job(p)'
<1>1. /\ pc'[p] = "sent" /\ UNCHANGED <<job[p], why[p], at[p], todo[p], keep[p], closes>>
      /\ \A f \in todo[p] : order'[f] = "full"
  BY GoJob DEF Send, Places
<1>2. pc[p] = "ready" /\ why[p] = "entry" /\ Job(p) /\ job[p] \in Entries
  BY DEF Send, Typed, Hands, HandOf, Jobs
<1>3. order'[job[p]] = "wire"
  BY <1>2 DEF Send, Typed, WorldOK
<1>4. order[job[p]] = "none"
  BY <1>2 DEF Job, OrderJob
<1>5. NakedClose(job[p]) \notin closes
  BY <1>4 DEF VenueInv, NakedClose
<1> QED
  BY <1>1, <1>2, <1>3, <1>5 DEF Job, OwnJob, OrderJob, FlatJob, Opening, NakedClose

LEMMA ConfirmJob ==
  ASSUME Typed, Jobs, [Next]_vars, NEW p \in Procs, Confirm(p) PROVE Job(p)'
<1>1. pc[p] = "sent" /\ why[p] = "entry" /\ Job(p) /\ job[p] \in Entries /\ UNCHANGED <<order, closes>>
  BY DEF Confirm, Typed, Hands, HandOf, Jobs, venueVars
<1>2. CASE order[job[p]] = "full" /\ Go(p, "stop")
  <2>1. /\ pc'[p] = "stop" /\ UNCHANGED <<job[p], why[p], at[p], todo[p], keep[p]>>
        /\ \A f \in todo[p] : order'[f] = "full"
    BY <1>2, GoJob DEF Places
  <2> QED
    BY <1>1, <1>2, <2>1 DEF Job, OwnJob, OrderJob, FlatJob, Opening, NakedClose
<1>3. CASE order[job[p]] = "dead" /\ Go(p, "giveback")
  <2>1. /\ pc'[p] = "giveback" /\ UNCHANGED <<job[p], why[p], at[p], todo[p], keep[p]>>
        /\ \A f \in todo[p] : order'[f] = "full"
    BY <1>3, GoJob DEF Places
  <2> QED
    BY <1>1, <1>3, <2>1 DEF Job, OwnJob, OrderJob, FlatJob, Opening, NakedClose
<1>4. CASE Take(p, job[p], "close", "naked", TRUE) /\ UNCHANGED <<seen, at, todo, exit>>
  <2>1. /\ pc'[p] = "close" /\ job'[p] = job[p] /\ why'[p] = "naked" /\ keep'[p]
        /\ UNCHANGED <<at, todo>>
    BY <1>4 DEF Take, Typed, ProcsOK
  <2> QED
    BY <1>1, <2>1 DEF Job, OwnJob, OrderJob, FlatJob, Opening, NakedClose
<1> QED
  BY <1>2, <1>3, <1>4, RestJob DEF Confirm

LEMMA LegJob ==
  ASSUME Typed, Jobs, [Next]_vars, NEW p \in Procs, PlaceStop(p) \/ PlaceTarget(p) PROVE Job(p)'
<1>1. /\ pc[p] \in {"stop", "target"} /\ Job(p) /\ UNCHANGED <<order, closes>>
      /\ UNCHANGED <<job, at, todo, keep>>
  BY DEF PlaceStop, PlaceTarget, Place, Jobs
<1>2. pc'[p] = "target" \/ (pc'[p] = "book" /\ why'[p] # "naked") \/ (pc'[p] = "close" /\ why'[p] = "naked")
  BY DEF PlaceStop, PlaceTarget, Place, Typed, ProcsOK
<1> QED
  BY <1>1, <1>2 DEF Job, OwnJob, OrderJob, FlatJob, Opening, NakedClose

LEMMA SaveJob ==
  ASSUME Typed, Jobs, [Next]_vars, NEW p \in Procs, Save(p) PROVE Job(p)'
<1>1. /\ pc[p] = "book" /\ Job(p) /\ job[p] \in Entries /\ UNCHANGED <<order, at, todo>>
  BY DEF Save, Jobs, venueVars, Typed, Hands, HandOf
<1>2. /\ pc'[p] = "giveback" /\ job'[p] = job[p] /\ why'[p] = "open"
  BY DEF Save, Take, Typed, ProcsOK
<1>3. Sym(p)' = Sym(p) /\ Sym(p) \in Symbols
  BY <1>1, <1>2, SymType DEF Sym
<1>4. book'[Sym(p)] = job[p]
  BY <1>3 DEF Save, Typed, WorldOK
<1> QED
  BY <1>1, <1>2, <1>3, <1>4 DEF Job, OwnJob, OrderJob, FlatJob, Opening

LEMMA ReleaseJob ==
  ASSUME Typed, Jobs, [Next]_vars, NEW p \in Procs, Release(p) PROVE Job(p)'
<1>1. pc[p] = "giveback" /\ Job(p) /\ UNCHANGED <<order, units>>
  BY DEF Release, Jobs, venueVars
<1>2. CASE why[p] = "open" /\ Go(p, "watch")
  <2>1. /\ pc'[p] = "watch" /\ UNCHANGED <<job[p], why[p], at[p], todo[p], keep[p]>>
        /\ \A f \in todo[p] : order'[f] = "full"
    BY <1>2, GoJob DEF Places
  <2> QED
    BY <1>1, <1>2, <2>1 DEF Job, OwnJob, OrderJob, FlatJob, Opening
<1>3. CASE why[p] = "naked" /\ Go(p, "append")
  <2>1. /\ pc'[p] = "append" /\ UNCHANGED <<job[p], why[p], at[p], todo[p], keep[p]>>
        /\ \A f \in todo[p] : order'[f] = "full"
    BY <1>3, GoJob DEF Places
  <2>2. Flat(job[p])'
    BY <1>1, <1>3, <2>1 DEF Job, FlatJob, Flat, Over
  <2> QED
    BY <1>1, <1>3, <2>1, <2>2 DEF Job, OwnJob, OrderJob, FlatJob, Opening
<1> QED
  BY <1>2, <1>3, RestJob DEF Release
LEMMA WatchJob ==
  ASSUME Typed, Jobs, [Next]_vars, NEW p \in Procs, Watch(p) PROVE Job(p)'
<1>1. pc[p] = "watch" /\ Job(p) /\ UNCHANGED order
  BY DEF Watch, Jobs, venueVars
<1>2. CASE /\ Take(p, job[p], "settle", "settle", FALSE) \/ Take(p, job[p], "close", "time", FALSE)
           /\ UNCHANGED <<seen, at, todo, exit>>
  <2>1. /\ job'[p] = job[p] /\ ~ keep'[p] /\ UNCHANGED <<at, todo>>
        /\ pc'[p] \in {"settle", "close"} /\ why'[p] # "naked"
    BY <1>2 DEF Take, Typed, ProcsOK
  <2> QED
    BY <1>1, <2>1 DEF Job, OwnJob, OrderJob, FlatJob, Opening
<1> QED
  BY <1>2, RestJob DEF Watch

LEMMA EmerLookJob ==
  ASSUME Typed, Jobs, [Next]_vars, NEW p \in Procs, NEW e \in Entries, EmerLook(p, e) PROVE Job(p)'
<1>1. Job(p) /\ order[e] = "full" /\ UNCHANGED <<order, at>> /\ todo'[p] \subseteq todo[p] /\ pc[p] = "pass"
  BY DEF EmerLook, Jobs, Job, OrderJob, venueVars, Typed, ProcsOK
<1>2. CASE Take(p, e, "close", "emergency", FALSE)
  <2>1. pc'[p] = "close" /\ job'[p] = e /\ why'[p] = "emergency"
    BY <1>2 DEF Take, Typed, ProcsOK
  <2> QED
    BY <1>1, <2>1 DEF Job, OwnJob, OrderJob, FlatJob, Opening
<1>3. CASE UNCHANGED <<pc, job, why, keep>>
  BY <1>1, <1>3 DEF Job, OwnJob, OrderJob, FlatJob, Opening
<1> QED
  BY <1>2, <1>3 DEF EmerLook

LEMMA CloseJob ==
  ASSUME Typed, Apart, VenueInv, Jobs, [Next]_vars, NEW p \in Procs, Close(p) PROVE Job(p)'
<1>1. CASE Rest(p) \/ Done(p)
  BY <1>1, RestJob, DoneJob
<1>2. CASE pc'[p] \in {"cancel", "append"} /\ UNCHANGED <<job, why, seen, at, todo, keep>>
  <2>1. PICK e \in Entries : e = job[p]
    BY DEF Close, Typed, Hands, HandOf
  <2>2. Job(p) /\ UNCHANGED order
    BY DEF Close, Jobs
  <2>3. (why[p] = "naked" /\ keep[p]) \/ Flat(e)'
    BY <1>2, <2>1, <2>2, CloseFlattens
  <2>4. FlatJob(p)'
    BY <1>2, <2>1, <2>3 DEF FlatJob, Flat, Over, Opening
  <2> QED
    BY <1>2, <2>2, <2>4 DEF Job, OwnJob, OrderJob, Opening
<1> QED
  BY <1>1, <1>2 DEF Close, Typed, ProcsOK

LEMMA SettleJob ==
  ASSUME Typed, VenueInv, Jobs, [Next]_vars, NEW p \in Procs, Settle(p) PROVE Job(p)'
<1>1. PICK e \in Entries : e = job[p]
  BY DEF Settle, Typed, Hands, HandOf
<1>2. Job(p) /\ order[e] = "full" /\ UNCHANGED <<order, units>>
  BY <1>1 DEF Settle, Jobs, Job, OrderJob, venueVars
<1>3. CASE /\ fired[e] # {} \/ units[e] = 0
           /\ pc' = [pc EXCEPT ![p] = "cancel"] /\ UNCHANGED <<job, why, seen, at, todo, keep>>
  <2>1. Flat(e) /\ pc'[p] = "cancel"
    BY <1>2, <1>3 DEF VenueInv, Flat, Over, Typed, ProcsOK
  <2>2. FlatJob(p)'
    BY <1>1, <1>2, <1>3, <2>1 DEF FlatJob, Flat, Over, Opening
  <2> QED
    BY <1>2, <1>3, <2>1, <2>2 DEF Job, OwnJob, OrderJob, Opening
<1>4. \/ Done(p)
      \/ /\ fired[e] # {} \/ units[e] = 0
         /\ pc' = [pc EXCEPT ![p] = "cancel"] /\ UNCHANGED <<job, why, seen, at, todo, keep>>
  BY <1>1 DEF Settle
<1> QED
  BY <1>3, <1>4, DoneJob

LEMMA CancelJob ==
  ASSUME Typed, Jobs, [Next]_vars, NEW p \in Procs, Cancel(p) PROVE Job(p)'
<1>1. /\ pc[p] = "cancel" /\ Job(p) /\ UNCHANGED <<order, units, job, why, at, todo>>
  BY DEF Cancel, Jobs
<1>2. /\ keep[p] => keep'[p]
      /\ pc'[p] = "append" \/ (pc'[p] = "giveback" /\ why[p] = "naked" /\ ~ keep'[p])
  BY DEF Cancel, Typed, ProcsOK
<1>3. (why[p] = "naked" /\ keep[p]) \/ Flat(job[p])
  BY <1>1 DEF Job, FlatJob
<1>4. Flat(job[p]) => Flat(job[p])'
  BY <1>1 DEF Flat, Over
<1> QED
  BY <1>1, <1>2, <1>3, <1>4 DEF Job, OwnJob, OrderJob, FlatJob, Opening

LEMMA RecordJob ==
  ASSUME Typed, Jobs, [Next]_vars, NEW p \in Procs, Record(p) \/ RecordFails(p) PROVE Job(p)'
<1>1. CASE Rest(p) \/ Done(p)
  BY <1>1, RestJob, DoneJob
<1>2. CASE Record(p) /\ Go(p, "clear")
  <2>1. /\ pc'[p] = "clear" /\ UNCHANGED <<job[p], why[p], at[p], todo[p], keep[p]>>
        /\ \A f \in todo[p] : order'[f] = "full"
    BY <1>2, GoJob DEF Places
  <2>2. pc[p] = "append" /\ Job(p) /\ UNCHANGED <<order, units>>
    BY <1>2 DEF Record, Jobs, venueVars
  <2> QED
    BY <2>1, <2>2 DEF Job, OwnJob, OrderJob, FlatJob, Opening, Flat, Over
<1> QED
  BY <1>1, <1>2 DEF Record, RecordFails

LEMMA ClearJob ==
  ASSUME Typed, Jobs, [Next]_vars, NEW p \in Procs, Clear(p) PROVE Job(p)'
<1>1. CASE why[p] = "naked" /\ ~ keep[p] /\ Go(p, "giveback")
  <2>1. /\ pc'[p] = "giveback" /\ UNCHANGED <<job[p], why[p], at[p], todo[p], keep[p]>>
        /\ \A f \in todo[p] : order'[f] = "full"
    BY <1>1, GoJob DEF Places
  <2>2. pc[p] = "clear" /\ Job(p) /\ UNCHANGED <<order, units>>
    BY DEF Clear, Jobs, venueVars
  <2> QED
    BY <1>1, <2>1, <2>2 DEF Job, OwnJob, OrderJob, FlatJob, Opening, Flat, Over
<1> QED
  BY <1>1, DoneJob DEF Clear

LEMMA LookJob ==
  ASSUME Typed, Jobs, [Next]_vars, NEW e \in Entries, Look(e), Leg \in Procs PROVE Job(Leg)'
<1>1. /\ Job(Leg) /\ order[e] = "full" /\ UNCHANGED <<order, at>> /\ todo'[Leg] \subseteq todo[Leg]
      /\ pc[Leg] = "pass"
  BY DEF Look, Jobs, Job, OrderJob, venueVars, Typed, ProcsOK
<1>2. CASE \/ Take(Leg, e, "settle", "settle", FALSE) \/ Take(Leg, e, "time", "time", seen[Leg][On[e]] # Full)
           \/ Take(Leg, e, "close", "unprotected", seen[Leg][On[e]] # Full)
  <2>1. pc'[Leg] \in {"settle", "time", "close"} /\ job'[Leg] = e /\ why'[Leg] # "naked"
    BY <1>2 DEF Take, Typed, ProcsOK
  <2> QED
    BY <1>1, <2>1 DEF Job, OwnJob, OrderJob, FlatJob, Opening
<1>3. CASE UNCHANGED <<pc, job, why, keep>>
  BY <1>1, <1>3 DEF Job, OwnJob, OrderJob, FlatJob, Opening
<1> QED
  BY <1>2, <1>3 DEF Look

LEMMA HoldingJob ==
  ASSUME Typed, Jobs, [Next]_vars, SaveHolding, Leg \in Procs PROVE Job(Leg)'
<1>1. CASE Go(Leg, "close")
  <2>1. /\ pc'[Leg] = "close" /\ UNCHANGED <<job[Leg], why[Leg], at[Leg], todo[Leg], keep[Leg]>>
        /\ \A f \in todo[Leg] : order'[f] = "full"
    BY <1>1, GoJob DEF Places
  <2>2. pc[Leg] = "time" /\ why[Leg] = "time" /\ Job(Leg) /\ UNCHANGED <<order, units>>
    BY DEF SaveHolding, Jobs, venueVars, Typed, Hands, HandOf
  <2> QED
    BY <2>1, <2>2 DEF Job, OwnJob, OrderJob, FlatJob, Opening
<1> QED
  BY <1>1, RestJob, DoneJob DEF SaveHolding

LEMMA JobsStep ==
  ASSUME Typed, Apart, VenueInv, Jobs, [Next]_vars PROVE Jobs'
<1>1. ASSUME NEW p \in Procs, StepOf(p) PROVE Job(p)'
  <2>1. CASE DoorStep(p)
    BY <2>1, PassJob, ClaimJob, ReadyJob, SendJob, ConfirmJob, LegJob, SaveJob, ReleaseJob DEF DoorStep
  <2>2. CASE ExitStep(p)
    BY <2>2, PassJob, WatchJob, EmerLookJob, CloseJob, SettleJob, CancelJob, RecordJob, ClearJob DEF ExitStep
  <2>3. CASE p = Leg /\ SaveHolding
    BY <2>3, HoldingJob
  <2>4. CASE p = Leg /\ \E e \in Entries : Look(e)
    BY <2>4, LookJob
  <2> QED
    BY <1>1, <2>1, <2>2, <2>3, <2>4, PassJob DEF StepOf
<1>2. ASSUME NEW q \in Procs, Memory(q)' = Memory(q) PROVE Job(q)'
  BY <1>2, JobStands
<1>3. CASE \E p \in Procs : StepOf(p)
  BY <1>1, <1>2, <1>3, OnlyOneMoves DEF Jobs
<1>4. CASE UNCHANGED procVars
  BY <1>2, <1>4 DEF Jobs, procVars, Memory
<1> QED
  BY <1>3, <1>4, WhoMoves

-----------------------------------------------------------------------------
(* The memory of a process, from one step to the next.                     *)

Quiet == {"idle", "venue", "pass"}

\* A position that its opener has in hand and has not booked.
Unsaved(p) == pc[p] \in {"claimed", "ready"} \/ Opening(p) \/ why[p] = "naked"

\* Where a process can have its position, its facts and its place from.
Moves(p) ==
  /\ todo'[p] \subseteq todo[p] \cup {book[s] : s \in Booked}
  /\ pc'[p] \notin Quiet =>
       \/ job'[p] = job[p] /\ pc[p] \notin Quiet
       \/ job'[p] \in todo[p]
       \/ \E e \in Entries : Claim(p, e) /\ job'[p] = e
  /\ Unsaved(p)' => (Unsaved(p) /\ job'[p] = job[p]) \/ \E e \in Entries : Claim(p, e) /\ job'[p] = e
  /\ pc'[p] = "time" => (pc[p] = "time" /\ job'[p] = job[p]) \/ job'[p] \in todo[p]
  /\ at'[p] \in {at[p], None} \/ ReadVenue(p)
  /\ pc'[p] = "claimed" =>
       \/ pc[p] = "claimed" /\ job'[p] = job[p] /\ at'[p] = at[p]
       \/ \E e \in Entries : Claim(p, e) /\ job'[p] = e
  /\ pc'[p] = "ready" => (pc[p] = "ready" \/ CheckResting(p)) /\ job'[p] = job[p] /\ at'[p] = at[p]
  /\ Opening(p)' => (Opening(p) \/ Send(p)) /\ job'[p] = job[p] /\ at'[p] = at[p]
  /\ pc'[p] \in {"venue", "pass"} /\ at'[p] # None =>
       \/ ReadVenue(p)
       \/ pc[p] \in {"venue", "pass"} /\ at'[p] = at[p] /\ seen'[p] = seen[p]
  /\ pc'[p] = "pass" /\ at'[p] # None =>
       ReadBook(p) \/ (pc[p] = "pass" /\ at'[p] = at[p] /\ seen'[p] = seen[p])

LEMMA StandMoves == ASSUME NEW p \in Procs, Memory(p)' = Memory(p) PROVE Moves(p)
<1>1. UNCHANGED <<pc[p], job[p], why[p], seen[p], at[p], todo[p], keep[p]>>
  BY DEF Memory
<1> QED
  BY <1>1 DEF Moves, Unsaved, Opening, Quiet
LEMMA RestingMemory == ASSUME Typed, NEW p \in Procs, Rest(p) \/ Done(p) PROVE Moves(p)
<1>1. CASE Rest(p)
  <2>1. pc'[p] = "idle" /\ at'[p] = None /\ why'[p] = "none" /\ todo'[p] = {}
    BY <1>1 DEF Rest, Typed, ProcsOK
  <2> QED
    BY <2>1 DEF Moves, Unsaved, Opening, Quiet
<1>2. CASE ~ Rest(p)
  <2>1. pc'[p] = "pass" /\ at'[p] = None /\ why'[p] = "none" /\ todo'[p] = todo[p]
    BY <1>2 DEF Done, Typed, ProcsOK
  <2> QED
    BY <2>1 DEF Moves, Unsaved, Opening, Quiet
<1> QED
  BY <1>1, <1>2

\* A step that takes the position in hand along, or one of those still to look at.
LEMMA WorkMoves ==
  ASSUME Typed, NEW p \in Procs, at'[p] = at[p], todo'[p] \subseteq todo[p],
         pc'[p] \in {"watch", "close", "settle", "cancel", "append", "clear", "giveback"},
         (job'[p] = job[p] /\ pc[p] \notin Quiet) \/ job'[p] \in todo[p],
         why'[p] = "naked" => (why[p] = "naked" \/ Opening(p)) /\ job'[p] = job[p]
  PROVE  Moves(p)
  BY DEF Moves, Unsaved, Opening, Quiet

LEMMA DoorMoves ==
  ASSUME Typed, Jobs, NEW p \in Procs, DoorStep(p) PROVE Moves(p)
<1> USE DEF Typed, ProcsOK
<1>0. Job(p) /\ HandOf(p)
  BY DEF Jobs, Hands
<1>1. CASE EndPass(p) \/ SaveFails(p)
  BY <1>1, RestingMemory DEF EndPass, SaveFails
<1>2. CASE ReadVenue(p)
  <2>1. /\ pc'[p] = "venue" /\ UNCHANGED <<job, why, todo>> /\ why[p] # "naked"
    BY <1>0, <1>2 DEF ReadVenue, Job, OwnJob
  <2> QED
    BY <1>2, <2>1 DEF Moves, Unsaved, Opening, Quiet
<1>3. CASE ReadBook(p)
  <2>1. /\ pc[p] = "venue" /\ pc'[p] = "pass" /\ UNCHANGED <<job, why, seen>> /\ why[p] # "naked"
        /\ at'[p] \in {at[p], None} /\ todo'[p] \subseteq {book[s] : s \in Booked}
    BY <1>0, <1>3 DEF ReadBook, Job, OwnJob
  <2> QED
    BY <1>3, <2>1 DEF Moves, Unsaved, Opening, Quiet
<1>4. ASSUME NEW e \in Entries, Claim(p, e) PROVE Moves(p)
  <2>1. pc'[p] = "claimed" /\ job'[p] = e /\ UNCHANGED <<at, todo>>
    BY <1>4 DEF Claim, Take
  <2> QED
    BY <1>4, <2>1 DEF Moves, Unsaved, Opening, Quiet
<1>5. CASE CheckResting(p)
  <2>1. pc[p] = "claimed" /\ pc'[p] = "ready" /\ UNCHANGED <<job, why, at, todo>>
    BY <1>5, GoMoves DEF CheckResting, Places
  <2> QED
    BY <1>5, <2>1 DEF Moves, Unsaved, Opening, Quiet
<1>6. CASE Refuse(p)
  <2>1. pc'[p] = "giveback" /\ UNCHANGED <<job, why, at, todo>> /\ pc[p] \in {"claimed", "ready"} /\ why[p] = "entry"
    BY <1>0, <1>6, GoMoves DEF Refuse, Places, HandOf
  <2> QED
    BY <2>1, WorkMoves DEF Quiet
<1>7. CASE Send(p)
  <2>1. pc[p] = "ready" /\ pc'[p] = "sent" /\ UNCHANGED <<job, why, at, todo>>
    BY <1>7, GoMoves DEF Send, Places
  <2> QED
    BY <1>7, <2>1 DEF Moves, Unsaved, Opening, Quiet
<1>8. CASE Confirm(p) \/ PlaceStop(p) \/ PlaceTarget(p)
  <2>1. CASE Rest(p)
    BY <2>1, RestingMemory
  <2>2. CASE ~ Rest(p)
    <3>1. Opening(p) /\ pc'[p] \in {"stop", "giveback", "close", "target", "book"} /\ job'[p] = job[p] /\ UNCHANGED <<at, todo>>
      BY <1>8, <2>2 DEF Confirm, Go, Take, PlaceStop, PlaceTarget, Place, Opening
    <3> QED
      BY <3>1 DEF Moves, Unsaved, Opening, Quiet
  <2> QED
    BY <2>1, <2>2
<1>9. CASE Save(p)
  <2>1. pc[p] = "book" /\ pc'[p] = "giveback" /\ why'[p] = "open" /\ job'[p] = job[p] /\ UNCHANGED <<at, todo>>
    BY <1>9 DEF Save, Take
  <2> QED
    BY <2>1, WorkMoves DEF Quiet
<1>10. CASE Release(p)
  <2>1. CASE Rest(p)
    BY <2>1, RestingMemory
  <2>2. CASE Go(p, "watch") \/ Go(p, "append")
    <3>1. pc[p] = "giveback" /\ pc'[p] \in {"watch", "append"} /\ UNCHANGED <<job, why, at, todo>>
      BY <1>10, <2>2, GoMoves DEF Release, Places
    <3> QED
      BY <3>1, WorkMoves DEF Quiet
  <2> QED
    BY <1>10, <2>1, <2>2 DEF Release
<1> QED
  BY <1>1, <1>2, <1>3, <1>4, <1>5, <1>6, <1>7, <1>8, <1>9, <1>10 DEF DoorStep

LEMMA ExitMoves ==
  ASSUME Typed, Jobs, NEW p \in Procs, ExitStep(p) PROVE Moves(p)
<1> USE DEF Typed, ProcsOK
<1>0. Job(p) /\ HandOf(p)
  BY DEF Jobs, Hands
<1>1. CASE Rest(p) \/ Done(p)
  BY <1>1, RestingMemory
<1> SUFFICES ASSUME ~ Rest(p), ~ Done(p) PROVE Moves(p)
  BY <1>1
<1>2. CASE Watch(p)
  <2>1. /\ pc[p] = "watch" /\ pc'[p] \in {"settle", "close"} /\ why'[p] # "naked"
        /\ job'[p] = job[p] /\ UNCHANGED <<at, todo>>
    BY <1>2 DEF Watch, Take
  <2> QED
    BY <2>1, WorkMoves DEF Quiet
<1>3. CASE EmerRead(p)
  <2>1. /\ pc'[p] = "pass" /\ UNCHANGED <<job, why, at>> /\ why[p] # "naked" /\ at[p] = None
        /\ todo'[p] \subseteq {book[s] : s \in Booked}
    BY <1>0, <1>3 DEF EmerRead, Job, OwnJob
  <2> QED
    BY <2>1 DEF Moves, Unsaved, Opening, Quiet
<1>4. ASSUME NEW e \in Entries, EmerLook(p, e) PROVE Moves(p)
  <2>1. CASE Take(p, e, "close", "emergency", FALSE)
    <3>1. pc'[p] = "close" /\ job'[p] = e /\ why'[p] = "emergency" /\ at' = at /\ e \in todo[p] /\ todo'[p] \subseteq todo[p]
      BY <1>4, <2>1 DEF EmerLook, Take
    <3> QED
      BY <3>1, WorkMoves
  <2>2. CASE UNCHANGED <<pc, job, why, keep>>
    <3>1. pc[p] = "pass" /\ UNCHANGED <<seen, at>> /\ todo'[p] \subseteq todo[p] /\ why[p] # "naked"
      BY <1>0, <1>4 DEF EmerLook, Job, OwnJob
    <3> QED
      BY <2>2, <3>1 DEF Moves, Unsaved, Opening, Quiet
  <2> QED
    BY <1>4, <2>1, <2>2 DEF EmerLook
<1>5. CASE Close(p) \/ Settle(p) \/ Cancel(p) \/ Record(p) \/ RecordFails(p) \/ Clear(p)
  <2>1. /\ pc[p] \in {"close", "settle", "cancel", "append", "clear"}
        /\ pc'[p] \in {"cancel", "append", "clear", "giveback"} /\ UNCHANGED <<job, why, at, todo>>
    <3>1. CASE Close(p) \/ Settle(p) \/ Cancel(p)
      BY <3>1 DEF Close, Settle, Cancel
    <3>2. CASE Record(p) \/ RecordFails(p) \/ Clear(p)
      BY <3>2 DEF Record, RecordFails, Clear, Go
    <3> QED
      BY <1>5, <3>1, <3>2
  <2> QED
    BY <2>1, WorkMoves DEF Quiet
<1> QED
  BY <1>2, <1>3, <1>4, <1>5 DEF ExitStep

LEMMA AllMove == ASSUME Typed, Jobs, [Next]_vars, NEW q \in Procs PROVE Moves(q)
<1> USE DEF Typed, ProcsOK
<1>1. ASSUME NEW p \in Procs, StepOf(p) PROVE Moves(p)
  <2>1. CASE Crash(p)
    BY <2>1, RestingMemory DEF Crash
  <2>2. ASSUME p = Leg, SaveHolding PROVE Moves(p)
    <3>1. CASE Go(p, "close")
      <4>1. pc[p] = "time" /\ pc'[p] = "close" /\ UNCHANGED <<job, why, at, todo>>
        BY <2>2, <3>1, GoMoves DEF SaveHolding, Places
      <4> QED
        BY <4>1, WorkMoves DEF Quiet
    <3> QED
      BY <2>2, <3>1, RestingMemory DEF SaveHolding
  <2>3. ASSUME p = Leg, NEW e \in Entries, Look(e) PROVE Moves(p)
    <3>1. pc[p] = "pass" /\ e \in todo[p] /\ todo'[p] \subseteq todo[p] /\ UNCHANGED <<seen, at>> /\ why[p] # "naked"
      BY <2>3 DEF Look, Jobs, Job, OwnJob
    <3>2. CASE Take(p, e, "settle", "settle", FALSE) \/ Take(p, e, "close", "unprotected", seen[p][On[e]] # Full)
      <4>1. pc'[p] \in {"settle", "close"} /\ job'[p] = e /\ why'[p] # "naked"
        BY <3>2 DEF Take
      <4> QED
        BY <3>1, <4>1, WorkMoves
    <3>3. CASE Take(p, e, "time", "time", seen[p][On[e]] # Full)
      <4>1. pc'[p] = "time" /\ job'[p] = e /\ why'[p] = "time"
        BY <3>3 DEF Take
      <4> QED
        BY <3>1, <4>1 DEF Moves, Unsaved, Opening, Quiet
    <3>4. CASE UNCHANGED <<pc, job, why, keep>>
      BY <3>1, <3>4 DEF Moves, Unsaved, Opening, Quiet
    <3> QED
      BY <2>3, <3>2, <3>3, <3>4 DEF Look
  <2> QED
    BY <1>1, <2>1, <2>2, <2>3, DoorMoves, ExitMoves DEF StepOf
<1>2. CASE \E p \in Procs : StepOf(p)
  BY <1>1, <1>2, OnlyOneMoves, StandMoves
<1>3. CASE UNCHANGED procVars
  BY <1>3, StandMoves DEF procVars, Memory
<1> QED
  BY <1>2, <1>3, WhoMoves

-----------------------------------------------------------------------------
(* What is booked, and what a process still has to look at.                *)

\* Nobody but its opener knows this entry.
Unbooked(e) ==
  /\ book[On[e]] # e
  /\ \A q \in Procs : e \notin todo[q] /\ (job[q] = e /\ pc[q] \notin Quiet => q = Opener[e])

\* A position that was booked leaves the book only when it is over.
Records ==
  /\ \A p \in Procs : Unsaved(p) => Unbooked(job[p])
  /\ \A p \in Procs : \A e \in todo[p] : book[On[e]] = e \/ Flat(e)
  /\ \A p \in Procs : pc[p] = "time" => book[Sym(p)] = job[p] \/ Flat(job[p])

\* The record of a position that is not over stays.
LEMMA BookStays ==
  ASSUME Typed, Jobs, Records, [Next]_vars, NEW e \in Entries, book[On[e]] = e
  PROVE  book'[On[e]] = e \/ Flat(e)
<1>1. On[e] \in Symbols /\ e # None
  BY NoneAssumption DEF Symbols
<1>2. ASSUME NEW p \in Procs, pc[p] = "clear", job[p] = e PROVE Flat(e)
  <2>1. why[p] # "naked"
    BY <1>2 DEF Records, Unsaved, Unbooked
  <2> QED
    BY <1>2, <2>1 DEF Jobs, Job, FlatJob
<1> QED
  BY <1>1, <1>2, RecordMoves

LEMMA RecordsStep ==
  ASSUME Typed, VenueInv, Jobs, Records, [Next]_vars PROVE Records'
<1> USE DEF Typed, ProcsOK
<1>1. ASSUME NEW p \in Procs PROVE Moves(p)
  BY AllMove
<1>2. ASSUME NEW s \in Booked PROVE book[s] \in Entries /\ On[book[s]] = s /\ order[book[s]] = "full"
  BY DEF Booked, VenueInv, WorldOK
<1>3. ASSUME NEW p \in Procs, Unsaved(p)' PROVE Unbooked(job[p])'
  <2>1. PICK e : e = job'[p]
    OBVIOUS
  <2>2. CASE Unsaved(p) /\ job'[p] = job[p]
    <3>1. Opener[e] = p /\ Unbooked(e) /\ e \in Entries
      BY <2>1, <2>2 DEF Records, Unsaved, Jobs, Job, OwnJob, Hands, HandOf, Opening
    <3>2. ASSUME book'[On[e]] = e PROVE FALSE
      <4>1. On[e] \in Symbols /\ book[On[e]] # e /\ e # None
        BY <3>1, NoneAssumption DEF Unbooked, Symbols
      <4>2. PICK q \in Procs : /\ Save(q) \/ (SaveHolding /\ q = Leg)
                               /\ pc[q] \in {"book", "time"} /\ e = job[q]
        BY <3>2, <4>1, RecordMoves
      <4>3. q = p
        BY <3>1, <4>2 DEF Unbooked, Quiet
      <4>4. CASE Save(p)
        <5>1. pc'[p] = "giveback" /\ why'[p] = "open"
          BY <4>4 DEF Save, Take
        <5> QED
          BY <1>3, <5>1 DEF Unsaved, Opening
      <4>5. CASE pc[p] = "time"
        BY <2>2, <4>5 DEF Unsaved, Opening, Hands, HandOf
      <4> QED
        BY <4>2, <4>3, <4>4, <4>5 DEF SaveHolding
    <3>3. ASSUME NEW q \in Procs PROVE e \notin todo'[q]
      <4>1. e \notin todo[q] /\ book[On[e]] # e
        BY <3>1 DEF Unbooked
      <4>2. todo'[q] \subseteq todo[q] \cup {book[s] : s \in Booked}
        BY <1>1 DEF Moves
      <4> QED
        BY <1>2, <4>1, <4>2
    <3>4. ASSUME NEW q \in Procs, job'[q] = e, pc'[q] \notin Quiet PROVE q = Opener[e]
      <4>1. \/ job[q] = e /\ pc[q] \notin Quiet
            \/ e \in todo[q]
            \/ Claim(q, e)
        BY <1>1, <3>4 DEF Moves
      <4> QED
        BY <3>1, <4>1 DEF Unbooked, Claim
    <3> QED
      BY <2>1, <3>2, <3>3, <3>4 DEF Unbooked
  <2>3. CASE e \in Entries /\ Claim(p, e)
    <3>1. /\ order[e] = "none" /\ UNCHANGED <<book, todo>> /\ Opener[e] = p /\ On[e] \in Symbols
          /\ \A q \in Procs : q # p => job'[q] = job[q] /\ pc'[q] = pc[q]
      BY <2>3 DEF Claim, Take, Symbols
    <3>2. book[On[e]] # e
      BY <2>3, <3>1, NoneAssumption DEF VenueInv
    <3>3. ASSUME NEW q \in Procs PROVE e \notin todo[q]
      BY <3>1 DEF Jobs, Job, OrderJob
    <3>4. ASSUME NEW q \in Procs, job[q] = e, pc[q] \notin Quiet PROVE q = Opener[e]
      <4>1. Job(q) /\ pc[q] \in Places
        BY DEF Jobs
      <4> QED
        BY <3>1, <3>4, <4>1 DEF Job, OwnJob, OrderJob, FlatJob, Opening, Places, Quiet, Flat, Over
    <3> QED
      BY <2>1, <3>1, <3>2, <3>3, <3>4 DEF Unbooked
  <2> QED
    BY <1>1, <1>3, <2>1, <2>2, <2>3 DEF Moves
<1>4. ASSUME NEW e \in Entries, book[On[e]] = e \/ Flat(e) PROVE book'[On[e]] = e \/ Flat(e)'
  BY <1>4, BookStays, FlatStays
<1>5. ASSUME NEW p \in Procs, NEW e \in todo'[p] PROVE book'[On[e]] = e \/ Flat(e)'
  <2>1. e \in todo[p] \cup {book[s] : s \in Booked}
    BY <1>1 DEF Moves
  <2>2. e \in Entries /\ (book[On[e]] = e \/ Flat(e))
    BY <1>2, <2>1 DEF Records
  <2> QED
    BY <1>4, <2>2
<1>6. ASSUME NEW p \in Procs, pc'[p] = "time" PROVE book'[Sym(p)'] = job'[p] \/ Flat(job[p])'
  <2>1. PICK e \in Entries : e = job'[p]
    <3>1. job'[p] \in Entries
      BY <1>6, TypedStep DEF Hands, HandOf
    <3> QED
      BY <3>1
  <2>2. book[On[e]] = e \/ Flat(e)
    BY <1>1, <1>6, <2>1 DEF Moves, Records, Sym
  <2>3. book'[On[e]] = e \/ Flat(e)'
    BY <1>4, <2>2
  <2> QED
    BY <2>1, <2>3 DEF Sym, Flat, Over
<1> QED
  BY <1>3, <1>5, <1>6 DEF Records

-----------------------------------------------------------------------------
(* The claims.                                                             *)

\* The symbol of e is claimed for e, since t or later.
Claimed(e, t) == claim[On[e]] # None /\ claim[On[e]].order = e /\ claim[On[e]].since >= t

\* Nothing is dated after now.
Dated ==
  /\ \A s \in Symbols : claim[s] # None => On[claim[s].order] = s /\ claim[s].since <= now
  /\ \A p \in Procs : at[p] # None => at[p] <= now

\* A claim outlives the decision it was taken on, the entry sent on it, and the window
\* of its order.
Outlives ==
  /\ \A p \in Procs : pc[p] \in {"claimed", "ready"} /\ Fresh(p) => Claimed(job[p], at[p])
  /\ \A p \in Procs : Opening(p) => Claimed(job[p], at[p]) /\ now < at[p] + Ttl
  /\ \A e \in Entries : order[e] \in {"wire", "part"} => Claimed(e, now - FreshFor)

LEMMA ClaimTypes ==
  ASSUME Typed PROVE /\ \A s \in Symbols : claim[s] # None => claim[s].order \in Entries /\ claim[s].since \in Nat
                     /\ now \in Nat /\ \A p \in Procs : at[p] # None => at[p] \in Nat
  BY TimingAssumption DEF Typed, WorldOK, ProcsOK, Claims, Times

LEMMA DatedStep ==
  ASSUME Typed, Jobs, Dated, [Next]_vars PROVE Dated'
<1>1. now \in Nat /\ now' \in Nat /\ now <= now'
  BY ClaimTypes, TimeMoves
<1>2. ASSUME NEW s \in Symbols, claim'[s] # None PROVE On[claim'[s].order] = s /\ claim'[s].since <= now'
  <2>1. CASE claim'[s] = claim[s]
    BY <1>1, <1>2, <2>1, ClaimTypes DEF Dated
  <2>2. ASSUME NEW e \in Entries, On[e] = s, claim'[s] = [order |-> e, since |-> now]
        PROVE  On[claim'[s].order] = s /\ claim'[s].since <= now'
    BY <1>1, <2>2
  <2> QED
    BY <1>2, <2>1, <2>2, ClaimMoves
<1>3. ASSUME NEW p \in Procs, at'[p] # None PROVE at'[p] <= now'
  <2>1. CASE ReadVenue(p) /\ at'[p] # at[p]
    BY <1>1, <2>1 DEF ReadVenue, Typed, ProcsOK
  <2>2. CASE at'[p] = at[p]
    BY <1>1, <1>3, <2>2, ClaimTypes DEF Dated
  <2> QED
    BY <1>3, <2>1, <2>2, AllMove DEF Moves
<1> QED
  BY <1>2, <1>3 DEF Dated

\* A claim that is not older than FreshFor before t is kept as long as t is fresh, unless
\* its own order gives it back.
LEMMA ClaimKept ==
  ASSUME Typed, [Next]_vars, NEW e \in Entries, NEW t \in Int, Claimed(e, t), now < t + Ttl
  PROVE  Claimed(e, t)' \/ \E p \in Procs : pc[p] = "giveback" /\ job[p] = e /\ Release(p)
<1> DEFINE s == On[e]
<1>1. /\ s \in Symbols /\ claim[s] # None /\ claim[s].order = e /\ claim[s].since \in Nat
      /\ now \in Nat /\ Ttl \in Nat
  BY ClaimTypes, TimingAssumption DEF Claimed, Symbols
<1>2. InFlight(s)
  BY <1>1 DEF Claimed, InFlight
<1>3. ASSUME NEW p \in Procs, NEW f \in Entries, Claim(p, f), On[f] = s PROVE FALSE
  BY <1>2, <1>3 DEF Claim, Fits
<1>4. CASE claim'[s] = claim[s]
  BY <1>4 DEF Claimed
<1> HIDE DEF s
<1> QED
  BY <1>1, <1>3, <1>4, ClaimMoves
LEMMA FreshStays ==
  ASSUME Typed, [Next]_vars, NEW p \in Procs, at'[p] = at[p], Fresh(p)'
  PROVE  Fresh(p)
<1>1. now \in Nat /\ now' \in Nat /\ now <= now' /\ FreshFor \in Nat
  BY ClaimTypes, TimeMoves, TimingAssumption
<1>2. at[p] # None /\ at[p] \in Nat /\ now' - at[p] <= FreshFor
  BY ClaimTypes DEF Fresh
<1> QED
  BY <1>1, <1>2 DEF Fresh

\* Only its opener gives back the symbol of an entry in its hand.
LEMMA NotGivenBack ==
  ASSUME Jobs, NEW p \in Procs, pc[p] \in {"claimed", "ready"} \/ Opening(p),
         NEW q \in Procs, pc[q] = "giveback"
  PROVE  job[q] # job[p]
  BY DEF Jobs, Job, OwnJob, Opening

LEMMA FreshTimes ==
  ASSUME Typed, NEW p \in Procs, Fresh(p)
  PROVE  /\ now \in Nat /\ at[p] \in Nat /\ FreshFor \in Nat /\ Ttl \in Nat
         /\ now <= at[p] + FreshFor /\ 2 * FreshFor < Ttl /\ now < at[p] + Ttl
<1>1. now \in Nat /\ at[p] \in Nat /\ FreshFor \in Nat /\ Ttl \in Nat /\ 2 * FreshFor < Ttl
  BY ClaimTypes, TimingAssumption DEF Fresh
<1> QED
  BY <1>1 DEF Fresh

LEMMA OutlivesStep ==
  ASSUME Typed, VenueInv, Jobs, Dated, Outlives, [Next]_vars PROVE Outlives'
<1> USE DEF Typed, ProcsOK
<1>0. ASSUME NEW p \in Procs PROVE Moves(p)
  BY AllMove
<1>1. ASSUME NEW p \in Procs, pc'[p] \in {"claimed", "ready"}, Fresh(p)' PROVE Claimed(job[p], at[p])'
  <2>1. PICK e : e = job'[p]
    OBVIOUS
  <2>2. CASE pc[p] \in {"claimed", "ready"} /\ job'[p] = job[p] /\ at'[p] = at[p]
    <3>1. Fresh(p) /\ e \in Entries
      BY <1>1, <2>1, <2>2, FreshStays DEF Hands, HandOf
    <3>2. Claimed(e, at[p]) /\ at[p] \in Int /\ now < at[p] + Ttl
      BY <2>1, <2>2, <3>1, FreshTimes DEF Outlives
    <3>3. Claimed(e, at[p])'
      BY <2>1, <2>2, <3>1, <3>2, ClaimKept, NotGivenBack
    <3> QED
      BY <2>1, <2>2, <3>3 DEF Claimed
  <2>3. CASE e \in Entries /\ Claim(p, e)
    <3>1. claim'[On[e]] = [order |-> e, since |-> now] /\ at'[p] = at[p] /\ at[p] # None
      BY <2>3 DEF Claim, WorldOK, Symbols
    <3>2. at[p] <= now
      BY <3>1 DEF Dated
    <3>3. claim'[On[e]] # None
      <4>1. [order |-> e, since |-> now] \in [order : Entries, since : Nat]
        BY <2>3, ClaimTypes
      <4> QED
        BY <3>1, <4>1, NoneAssumption
    <3> QED
      BY <2>1, <3>1, <3>2, <3>3 DEF Claimed
  <2> QED
    BY <1>0, <1>1, <2>1, <2>2, <2>3 DEF Moves, CheckResting
<1>2. ASSUME NEW p \in Procs, Opening(p)' PROVE Claimed(job[p], at[p])' /\ now' < at'[p] + Ttl
  <2>1. /\ job'[p] = job[p] /\ at'[p] = at[p] /\ job[p] \in Entries
        /\ Opening(p) \/ Send(p)
        /\ Opening(p) \/ pc[p] = "ready"
    BY <1>0, <1>2 DEF Moves, Opening, Send, Hands, HandOf
  <2>2. PICK e \in Entries : e = job[p]
    BY <2>1
  <2>3. Claimed(e, at[p]) /\ now < at[p] + Ttl /\ at[p] \in Nat
    <3>1. CASE Opening(p)
      BY <2>2, <3>1, ClaimTypes DEF Outlives, Jobs, Job, OwnJob
    <3>2. CASE Send(p)
      BY <2>2, <3>2, FreshTimes DEF Outlives, Send
    <3> QED
      BY <2>1, <3>1, <3>2
  <2>4. Claimed(e, at[p])'
    BY <2>1, <2>2, <2>3, ClaimKept, NotGivenBack
  <2>5. now' < at[p] + Ttl
    <3>1. CASE now' = now
      BY <2>3, <3>1
    <3>2. CASE Tick
      <4>1. Opening(p) /\ p \in Doors
        BY <2>1, <3>2, TimeMoves DEF Tick, Send, Jobs, Job, OwnJob
      <4>2. why[p] \in {"entry", "naked"} /\ order[job[p]] # "none" /\ pc[p] # "watch"
        BY <4>1 DEF Opening, Hands, HandOf, Jobs, Job, OrderJob
      <4> QED
        BY <3>2, <4>1, <4>2 DEF Tick, Entering
    <3> QED
      BY <3>1, <3>2, TimeMoves
  <2> QED
    BY <2>1, <2>2, <2>4, <2>5 DEF Claimed
<1>3. ASSUME NEW e \in Entries, order'[e] \in {"wire", "part"} PROVE Claimed(e, now - FreshFor)'
  <2>1. now \in Nat /\ FreshFor \in Nat /\ Ttl \in Nat /\ FreshFor < Ttl
    BY ClaimTypes, TimingAssumption
  <2>2. Claimed(e, now - FreshFor)
    <3>1. ASSUME NEW p \in Procs, Send(p), job[p] = e PROVE Claimed(e, now - FreshFor)
      <4>1. Claimed(e, at[p]) /\ now <= at[p] + FreshFor /\ at[p] \in Nat
        BY <3>1, FreshTimes DEF Outlives, Send
      <4>2. On[e] \in Symbols
        BY DEF Symbols
      <4>3. claim[On[e]].since \in Nat
        BY <4>1, <4>2, ClaimTypes DEF Claimed
      <4> QED
        BY <2>1, <4>1, <4>3 DEF Claimed
    <3>2. CASE order[e] \in {"wire", "part"}
      BY <3>2 DEF Outlives
    <3> QED
      BY <1>3, <3>1, <3>2, OrderStays
  <2>3. now' = now
    BY <1>3, TimeMoves, OrderMoves DEF Tick, Land, venueVars
  <2>4. ASSUME NEW p \in Procs, pc[p] = "giveback", job[p] = e PROVE order'[e] \notin {"wire", "part"}
    <3>1. order[e] \in {"none", "dead", "full", "short"}
      BY <2>4 DEF Jobs, Job, FlatJob, Flat, Over
    <3>2. order[e] = "none" => Opener[e] = p
      BY <2>4 DEF Jobs, Job, OwnJob
    <3>3. ASSUME NEW q \in Procs, Send(q), job[q] = e PROVE FALSE
      <4>1. pc[q] = "ready" /\ Opener[e] = q
        BY <3>3 DEF Send, Jobs, Job, OwnJob
      <4> QED
        BY <2>4, <3>3, <4>1, NotGivenBack
    <3> QED
      BY <3>1, <3>3, OrderMoves DEF Land
  <2>5. Claimed(e, now - FreshFor)' \/ \E p \in Procs : pc[p] = "giveback" /\ job[p] = e
    <3> DEFINE t == now - FreshFor
    <3>1. t \in Int /\ now < t + Ttl
      BY <2>1
    <3>2. Claimed(e, t)
      BY <2>2
    <3>3. now' - FreshFor = t
      BY <2>3
    <3> HIDE DEF t
    <3>4. \/ claim'[On[e]] # None /\ claim'[On[e]].order = e /\ claim'[On[e]].since >= t
          \/ \E p \in Procs : pc[p] = "giveback" /\ job[p] = e
      BY <3>1, <3>2, ClaimKept DEF Claimed
    <3> QED
      BY <3>3, <3>4 DEF Claimed
  <2> QED
    BY <1>3, <2>4, <2>5
<1> QED
  BY <1>1, <1>2, <1>3 DEF Outlives

-----------------------------------------------------------------------------
(* What a decision knows of the venue.                                     *)

\* While the account a process read is fresh, what it did not show is booked or claimed.
Knows ==
  \A p \in Procs : pc[p] \in {"venue", "pass"} /\ Fresh(p) =>
    \A f \in Entries : seen[p][On[f]] = 0 /\ Live(f) => book[On[f]] = f \/ Claimed(f, at[p] - FreshFor)

\* Nothing is live on a symbol that a door holds on a fresh decision, nothing rests
\* where it may send, and nothing else is live while its entry is under way.
Alone ==
  /\ \A p \in Procs : pc[p] \in {"claimed", "ready"} /\ Fresh(p) => \A f \in EntriesOn(Sym(p)) : ~ Live(f)
  /\ \A p \in Procs : pc[p] = "ready" /\ Fresh(p) => \A f \in EntriesOn(Sym(p)) : resting[f] = {}
  /\ \A p \in Procs : Opening(p) => \A f \in EntriesOn(Sym(p)) : f # job[p] => ~ Live(f)
  /\ Apart

LEMMA HeldNothing ==
  ASSUME Typed, NEW e \in Entries, Held(On[e]) = 0 PROVE units[e] = 0
<1>1. {u \in EntriesOn(On[e]) \X (1 .. Full) : u[2] <= units[u[1]]} = {}
  BY HeldFinite, FS_EmptySet DEF Held
<1>2. units[e] \in 0 .. 2 /\ e \in EntriesOn(On[e])
  BY DEF Typed, WorldOK, EntriesOn, Full
<1>3. units[e] >= 1 => <<e, 1>> \in {u \in EntriesOn(On[e]) \X (1 .. Full) : u[2] <= units[u[1]]}
  BY <1>2 DEF Full
<1> QED
  BY <1>1, <1>2, <1>3

\* An entry that has just been sent is claimed, on a fresh decision.
LEMMA SentClaimed ==
  ASSUME Typed, Outlives, NEW p \in Procs, Send(p), NEW e \in Entries, job[p] = e
  PROVE  Claimed(e, now - FreshFor) /\ On[e] \in Symbols
<1>1. Claimed(e, at[p]) /\ now <= at[p] + FreshFor /\ at[p] \in Nat /\ now \in Nat /\ FreshFor \in Nat
  BY FreshTimes DEF Outlives, Send
<1>2. On[e] \in Symbols
  BY DEF Symbols
<1>3. claim[On[e]].since \in Nat
  BY <1>1, <1>2, ClaimTypes DEF Claimed
<1> QED
  BY <1>1, <1>2, <1>3 DEF Claimed

LEMMA LaterClaimed ==
  ASSUME Typed, NEW e \in Entries, NEW t \in Int, NEW u \in Int, u <= t, Claimed(e, t)
  PROVE  Claimed(e, u)
<1>1. claim[On[e]].since \in Nat
  BY ClaimTypes DEF Claimed, Symbols
<1> QED
  BY <1>1 DEF Claimed

\* In the book, or claimed since t.
Known(e, t) == book[On[e]] = e \/ Claimed(e, t)

\* What a fresh decision knows stays known, and so is what has been sent since.
LEMMA KnownStays ==
  ASSUME Typed, VenueInv, Jobs, Records, Dated, Outlives, [Next]_vars,
         NEW p \in Procs, at'[p] = at[p], Fresh(p)', NEW f \in Entries, Live(f)',
         Live(f) => Known(f, at[p] - FreshFor)
  PROVE  Known(f, at[p] - FreshFor)'
<1> USE DEF Typed, ProcsOK
<1>0. now \in Nat /\ FreshFor \in Nat /\ On[f] \in Symbols /\ at[p] # None
  BY ClaimTypes, TimingAssumption DEF Symbols, Fresh
<1>1. PICK t : t = at[p]
  OBVIOUS
<1>2. /\ Fresh(p) /\ t \in Nat /\ now <= t + FreshFor /\ 2 * FreshFor < Ttl /\ Ttl \in Nat
      /\ t <= now
  BY <1>1, FreshStays, FreshTimes DEF Dated, Fresh
<1>3. Known(f, t - FreshFor)
  <2>1. ASSUME NEW q \in Procs, Send(q), job[q] = f PROVE Claimed(f, t - FreshFor)
    <3>1. Claimed(f, now - FreshFor)
      BY <2>1, SentClaimed
    <3> QED
      BY <1>0, <1>2, <3>1, LaterClaimed
  <2> QED
    BY <1>1, <2>1, LiveMoves DEF Known
<1>4. ~ Flat(f)
  BY FlatStays DEF Live, Flat, Over
<1>5. CASE book[On[f]] = f
  BY <1>4, <1>5, BookStays DEF Known
<1>6. CASE book[On[f]] # f
  <2>1. t - FreshFor \in Int /\ now < (t - FreshFor) + Ttl
    BY <1>0, <1>2
  <2>2. Claimed(f, t - FreshFor)' \/ \E q \in Procs : pc[q] = "giveback" /\ job[q] = f /\ Release(q)
    BY <1>3, <1>6, <2>1, ClaimKept DEF Known
  <2>3. ASSUME NEW q \in Procs, pc[q] = "giveback", job[q] = f, Release(q) PROVE FALSE
    <3>1. UNCHANGED <<order, units>>
      BY <2>3 DEF Release, venueVars
    <3>2. order[f] \in {"none", "dead"} \/ Flat(f)
      BY <1>6, <2>3 DEF Jobs, Job, FlatJob, Sym
    <3> QED
      BY <1>4, <3>1, <3>2 DEF VenueInv, Live
  <2> QED
    BY <1>1, <2>2, <2>3 DEF Claimed, Known
<1> QED
  BY <1>5, <1>6

LEMMA KnowsStep ==
  ASSUME Typed, VenueInv, Jobs, Records, Dated, Outlives, Knows, [Next]_vars PROVE Knows'
<1> USE DEF Typed, ProcsOK
<1> SUFFICES ASSUME NEW p \in Procs, pc'[p] \in {"venue", "pass"}, Fresh(p)', NEW f \in Entries,
                    seen'[p][On[f]] = 0, Live(f)'
             PROVE  book'[On[f]] = f \/ Claimed(f, at[p] - FreshFor)'
  BY DEF Knows
<1>0. now \in Nat /\ FreshFor \in Nat /\ On[f] \in Symbols /\ at'[p] # None
  BY ClaimTypes, TimingAssumption DEF Symbols, Fresh
<1>1. PICK t : t = at'[p]
  OBVIOUS
<1>2. CASE ReadVenue(p)
  <2>0. seen'[p][On[f]] # Full
    BY DEF Full
  <2>1. t = now /\ Held(On[f]) = 0 /\ UNCHANGED <<now, order, units, book, claim>>
    BY <1>0, <1>1, <1>2, <2>0 DEF ReadVenue, venueVars, fileVars
  <2>2. order[f] \in {"wire", "part"}
    BY <2>1, HeldNothing DEF Live
  <2>3. Claimed(f, t - FreshFor)
    BY <2>1, <2>2 DEF Outlives
  <2> QED
    BY <1>1, <2>1, <2>3 DEF Claimed
<1>3. CASE pc[p] \in {"venue", "pass"} /\ at'[p] = at[p] /\ seen'[p] = seen[p]
  <2>1. Live(f) => Known(f, at[p] - FreshFor)
    BY <1>3, FreshStays DEF Knows, Known
  <2> QED
    BY <1>3, <2>1, KnownStays DEF Known
<1> QED
  BY <1>0, <1>2, <1>3, AllMove DEF Moves
\* Two entries with a claim on one symbol are one.
LEMMA OneClaim ==
  ASSUME NEW e, NEW f, On[e] = On[f], NEW t, NEW u, Claimed(e, t), Claimed(f, u)
  PROVE  e = f
  BY DEF Claimed

\* A door on a fresh decision, or with its entry under way, is alone with its claim.
LEMMA OneDoor ==
  ASSUME Typed, Jobs, Outlives, NEW p \in Procs, NEW q \in Procs,
         (pc[p] \in {"claimed", "ready"} /\ Fresh(p)) \/ Opening(p),
         (pc[q] \in {"claimed", "ready"} /\ Fresh(q)) \/ Opening(q), Sym(p) = Sym(q)
  PROVE  p = q
<1>1. Claimed(job[p], at[p]) /\ Claimed(job[q], at[q])
  BY DEF Outlives
<1>2. job[p] = job[q]
  BY <1>1, OneClaim DEF Sym
<1> QED
  BY <1>2 DEF Jobs, Job, OwnJob

\* Where nothing is known to be live, nothing is.
LEMMA NothingThere ==
  ASSUME Typed, Dated, Knows, NEW p \in Procs, pc[p] = "pass", Fresh(p), NEW f \in Entries,
         seen[p][On[f]] = 0, book[On[f]] = None, ~ InFlight(On[f])
  PROVE  ~ Live(f)
<1>1. now \in Nat /\ at[p] \in Nat /\ FreshFor \in Nat /\ Ttl \in Nat
      /\ now <= at[p] + FreshFor /\ 2 * FreshFor < Ttl
  BY FreshTimes
<1>2. ASSUME Claimed(f, at[p] - FreshFor) PROVE FALSE
  <2>1. claim[On[f]].since \in Nat
    BY <1>2, ClaimTypes DEF Claimed, Symbols
  <2> QED
    BY <1>1, <1>2, <2>1 DEF Claimed, InFlight
<1> QED
  BY <1>2, NoneAssumption DEF Knows

LEMMA AloneStep ==
  ASSUME Typed, VenueInv, Jobs, Dated, Outlives, Knows, Alone, [Next]_vars PROVE Alone'
<1> USE DEF Typed, ProcsOK
<1>0. ASSUME NEW p \in Procs PROVE Moves(p)
  BY AllMove
<1>1. ASSUME NEW f \in Entries, Live(f)' PROVE Live(f) \/ \E q \in Procs : Send(q) /\ job[q] = f
  BY <1>1, LiveMoves
<1>2. ASSUME NEW q \in Procs, Send(q) PROVE pc[q] = "ready" /\ Fresh(q) /\ job[q] \in Entries
  BY <1>2 DEF Send, Hands, HandOf
<1>3. ASSUME NEW p \in Procs, pc'[p] \in {"claimed", "ready"}, Fresh(p)', NEW f \in Entries, On[f] = On[job'[p]]
      PROVE  ~ Live(f)'
  <2>1. CASE pc[p] \in {"claimed", "ready"} /\ job'[p] = job[p] /\ at'[p] = at[p]
    <3>1. Fresh(p) /\ ~ Live(f)
      BY <1>3, <2>1, FreshStays DEF Alone, EntriesOn, Sym
    <3>2. ASSUME NEW q \in Procs, Send(q), job[q] = f PROVE FALSE
      <4>1. q = p
        BY <1>2, <1>3, <2>1, <3>1, <3>2, OneDoor DEF Sym
      <4>2. pc'[q] = "sent"
        BY <3>2, GoMoves DEF Send, Places
      <4> QED
        BY <1>3, <4>1, <4>2
    <3> QED
      BY <1>1, <3>1, <3>2
  <2>2. ASSUME NEW e \in Entries, Claim(p, e), job'[p] = e PROVE ~ Live(f)'
    <3>1. pc[p] = "pass" /\ at'[p] = at[p] /\ UNCHANGED <<order, units>>
      BY <2>2 DEF Claim, venueVars
    <3>2. seen[p][On[f]] = 0 /\ book[On[f]] = None /\ ~ InFlight(On[f])
      BY <1>3, <2>2 DEF Claim, Fits
    <3>3. ~ Live(f)
      BY <1>3, <3>1, <3>2, FreshStays, NothingThere
    <3> QED
      BY <3>1, <3>3 DEF Live
  <2> QED
    BY <1>0, <1>3, <2>1, <2>2 DEF Moves, CheckResting
<1>4. ASSUME NEW p \in Procs, pc'[p] = "ready", Fresh(p)', NEW f \in Entries, On[f] = On[job'[p]]
      PROVE  resting'[f] = {}
  <2>1. pc[p] = "ready" \/ CheckResting(p)
    BY <1>0, <1>4 DEF Moves
  <2>2. pc[p] \in {"claimed", "ready"} /\ job'[p] = job[p] /\ Fresh(p)
    BY <1>0, <1>4, <2>1, FreshStays DEF Moves, CheckResting
  <2>3. resting[f] = {}
    BY <1>4, <2>1, <2>2 DEF Alone, CheckResting, EntriesOn, Sym
  <2>4. ASSUME NEW q \in Procs, pc[q] \in {"stop", "target"}, job[q] = f PROVE FALSE
    BY <1>4, <2>2, <2>4, OneDoor DEF Sym, Opening
  <2> QED
    BY <2>3, <2>4, RestingMoves
<1>5. ASSUME NEW p \in Procs, Opening(p)', NEW f \in Entries, On[f] = On[job'[p]], f # job'[p]
      PROVE  ~ Live(f)'
  <2>1. job'[p] = job[p] /\ (Opening(p) \/ Send(p))
    BY <1>0, <1>5 DEF Moves
  <2>2. ~ Live(f)
    BY <1>2, <1>5, <2>1 DEF Alone, EntriesOn, Sym
  <2>3. ASSUME NEW q \in Procs, Send(q), job[q] = f PROVE FALSE
    BY <1>2, <1>5, <2>1, <2>3, OneDoor DEF Sym
  <2> QED
    BY <1>1, <2>2, <2>3
<1>6. ASSUME NEW e \in Entries, NEW f \in Entries, e # f, On[e] = On[f], Live(e)'
      PROVE  ~ Live(f)' /\ resting'[f] = {}
  <2>1. CASE Live(e)
    <3>1. ~ Live(f) /\ resting[f] = {}
      BY <1>6, <2>1 DEF Alone, Apart
    <3>2. ASSUME NEW q \in Procs, Send(q), job[q] = f PROVE FALSE
      BY <1>2, <1>6, <2>1, <3>2 DEF Alone, EntriesOn, Sym
    <3>3. ASSUME NEW q \in Procs, pc[q] \in {"stop", "target"}, job[q] = f PROVE FALSE
      BY <1>6, <2>1, <3>3 DEF Alone, EntriesOn, Sym, Opening
    <3> QED
      BY <1>1, <3>1, <3>2, <3>3, RestingMoves
  <2>2. ASSUME NEW p \in Procs, Send(p), job[p] = e PROVE ~ Live(f)' /\ resting'[f] = {}
    <3>1. ~ Live(f) /\ resting[f] = {}
      BY <1>2, <1>6, <2>2 DEF Alone, EntriesOn, Sym
    <3>2. ASSUME NEW q \in Procs, Send(q), job[q] = f PROVE FALSE
      BY <1>2, <1>6, <2>2, <3>2, OneDoor DEF Sym
    <3>3. ASSUME NEW q \in Procs, pc[q] \in {"stop", "target"}, job[q] = f PROVE FALSE
      BY <1>2, <1>6, <2>2, <3>3, OneDoor DEF Sym, Opening
    <3> QED
      BY <1>1, <3>1, <3>2, <3>3, RestingMoves
  <2> QED
    BY <1>1, <1>6, <2>1, <2>2
<1> QED
  BY <1>3, <1>4, <1>5, <1>6 DEF Alone, Apart, EntriesOn, Sym

-----------------------------------------------------------------------------
(* One position per symbol.                                                *)

Sound == Typed /\ VenueInv /\ Jobs /\ Records /\ Dated /\ Outlives /\ Knows /\ Alone

LEMMA InitSound == Init => Sound
<1> SUFFICES ASSUME Init PROVE Sound
  OBVIOUS
<1>1. Typed
  BY InitTyped
<1>2. VenueInv /\ Dated /\ Apart
  BY DEF Init, VenueInv, Dated, Apart, Live
<1>3. ASSUME NEW p \in Procs
      PROVE  pc[p] = "idle" /\ why[p] = "none" /\ at[p] = None /\ todo[p] = {}
  BY DEF Init
<1>4. Jobs
  BY <1>3 DEF Jobs, Job, OwnJob, OrderJob, FlatJob, Opening
<1>5. Records /\ Knows /\ Alone
  BY <1>2, <1>3 DEF Records, Unsaved, Opening, Knows, Alone
<1>6. Outlives
  BY <1>3 DEF Outlives, Opening, Init
<1> QED
  BY <1>1, <1>2, <1>4, <1>5, <1>6 DEF Sound

LEMMA SoundStep == Sound /\ [Next]_vars => Sound'
<1> SUFFICES ASSUME Sound, [Next]_vars PROVE Sound'
  OBVIOUS
<1>1. Typed /\ VenueInv /\ Jobs /\ Records /\ Dated /\ Outlives /\ Knows /\ Alone /\ Apart
  BY DEF Sound, Alone
<1>2. Typed'
  BY <1>1, TypedStep
<1>3. VenueInv' /\ Jobs' /\ Records'
  BY <1>1, VenueInvStep, JobsStep, RecordsStep
<1>4. Dated' /\ Outlives'
  BY <1>1, DatedStep, OutlivesStep
<1>5. Knows' /\ Alone'
  BY <1>1, KnowsStep, AloneStep
<1> QED
  BY <1>2, <1>3, <1>4, <1>5 DEF Sound

\* No two entries are live on one symbol, whatever two doors, a stale account, an expired
\* claim and a crash do.
THEOREM OneOnASymbol == Spec => []OnePerSymbol
<1>1. Sound => OnePerSymbol
  BY DEF Sound, Alone, Apart, OnePerSymbol
<1> QED
  BY <1>1, InitSound, SoundStep, PTL DEF Spec

\* No position is open while a leg of another one rests on its symbol.
THEOREM LegsAreOwn == Spec => []NoForeignLeg
<1>1. Sound => NoForeignLeg
  BY DEF Sound, Alone, Apart, NoForeignLeg, Live
<1> QED
  BY <1>1, InitSound, SoundStep, PTL DEF Spec

LEMMA CoverStep ==
  ASSUME Sound, [Next]_vars, NEW e \in Entries, Live(e)'
  PROVE  /\ ~ Live(e) => Covered(e)'
         /\ Covered(e) /\ ~ Covered(e)' => book[On[e]] # e /\ ~ InFlight(On[e])
<1> USE DEF Sound
<1>0. On[e] \in Symbols
  BY DEF Symbols
<1>1. ASSUME NEW p \in Procs, Send(p), job[p] = e PROVE Covered(e)'
  <2>1. Claimed(e, now - FreshFor) /\ claim' = claim
    BY <1>1, SentClaimed DEF Send, fileVars
  <2> QED
    BY <2>1 DEF Claimed, Covered
<1>2. CASE \E p \in Procs : Send(p) /\ job[p] = e
  BY <1>1, <1>2
<1>3. CASE Live(e) /\ Covered(e) /\ ~ Covered(e)'
  <2>1. ~ Flat(e)
    BY FlatStays DEF Live, Flat, Over
  <2>2. book[On[e]] # e
    BY <1>3, <2>1, BookStays DEF Covered
  <2>3. claim[On[e]] # None /\ claim[On[e]].order = e
    BY <1>3, <2>2 DEF Covered
  <2>4. claim'[On[e]] # claim[On[e]]
    BY <1>3, <2>3 DEF Covered
  <2>5. ASSUME NEW p \in Procs, pc[p] = "giveback", job[p] = e, Release(p) PROVE FALSE
    <3>1. order[e] \in {"none", "dead"} \/ Flat(e)
      BY <2>2, <2>5 DEF Jobs, Job, FlatJob, Sym
    <3> QED
      BY <1>3, <2>1, <3>1 DEF VenueInv, Live
  <2>6. ~ InFlight(On[e])
    BY <1>0, <2>3, <2>4, <2>5, ClaimMoves DEF Claim, Fits
  <2> QED
    BY <1>3, <2>2, <2>6
<1> QED
  BY <1>2, <1>3, LiveMoves

\* Every entry that reached the venue is in the book, in flight, or both, until the claim
\* of an entry nobody booked has expired.
THEOREM AllCovered == Spec => StaysCovered
<1>1. Sound /\ [Next]_vars =>
        [\A e \in Entries :
           /\ Live(e)' /\ ~Live(e) => Covered(e)'
           /\ Live(e)' /\ Covered(e) /\ ~Covered(e)' => book[On[e]] # e /\ ~InFlight(On[e])]_vars
  BY CoverStep
<1> QED
  BY <1>1, InitSound, SoundStep, PTL DEF Spec, StaysCovered

-----------------------------------------------------------------------------
(* The cap.                                                                *)

\* The symbols that the book and the claims account for.
Counting == {s \in Symbols : InFlight(s) \/ (book[s] # None /\ ~ Flat(book[s]))}

LEMMA SymbolsFinite == IsFiniteSet(Symbols)
<1> DEFINE f == [e \in Entries |-> On[e]]
<1>1. f \in Surjection(Entries, Symbols)
  BY DEF Surjection, Symbols
<1> QED
  BY <1>1, EntriesAssumption, FS_Surjection

\* Only a new claim makes another symbol count.
LEMMA CountingMoves ==
  ASSUME Sound, [Next]_vars, NEW s \in Symbols, s \in Counting', s \notin Counting
  PROVE  \E p \in Procs, e \in Entries : Claim(p, e) /\ On[e] = s
<1> USE DEF Sound
<1>1. now \in Nat /\ now' \in Nat /\ now <= now' /\ Ttl \in Nat
  BY ClaimTypes, TimeMoves, TimingAssumption
<1>2. CASE InFlight(s)'
  <2>1. claim'[s] # claim[s]
    <3>1. ASSUME claim'[s] = claim[s] PROVE FALSE
      <4>1. claim[s] # None /\ claim[s].since \in Nat /\ now' < claim[s].since + Ttl
        BY <1>2, <3>1, ClaimTypes DEF InFlight
      <4> QED
        BY <1>1, <4>1 DEF InFlight, Counting
    <3> QED
      BY <3>1
  <2> QED
    BY <1>2, <2>1, ClaimMoves DEF InFlight
<1>3. CASE book'[s] # None /\ ~ Flat(book[s])'
  <2>1. PICK b \in Entries : b = book'[s]
    BY <1>3, TypedStep DEF Typed, WorldOK
  <2>2. ~ Flat(b)'
    BY <1>3, <2>1 DEF Flat, Over
  <2>3. ~ Flat(b) /\ b # None
    BY <2>2, FlatStays, NoneAssumption
  <2>4. book'[s] # book[s]
    BY <2>1, <2>3 DEF Counting
  <2>5. PICK p \in Procs : /\ Save(p) \/ (SaveHolding /\ p = Leg)
                           /\ pc[p] \in {"book", "time"} /\ Sym(p) = s /\ b = job[p]
    BY <2>1, <2>3, <2>4, RecordMoves
  <2>6. CASE pc[p] = "time"
    BY <2>1, <2>3, <2>4, <2>5, <2>6, RecordMoves DEF Records
  <2>7. CASE pc[p] = "book"
    <3>1. Claimed(b, at[p]) /\ now < at[p] + Ttl /\ at[p] \in Nat /\ On[b] = s
      BY <2>5, <2>7, ClaimTypes DEF Outlives, Opening, Jobs, Job, OwnJob, Sym
    <3>2. claim[s].since \in Nat
      BY <3>1, ClaimTypes DEF Claimed
    <3> QED
      BY <1>1, <3>1, <3>2 DEF Claimed, InFlight, Counting
  <2> QED
    BY <2>5, <2>6, <2>7
<1> QED
  BY <1>2, <1>3 DEF Counting

\* What is booked, in flight elsewhere, or the symbol just judged, fits the cap.
LEMMA Room ==
  ASSUME NEW s \in Symbols, Fits(s), NEW S,
         \A t \in S : t # s => t \in Symbols /\ (t \in Booked \/ InFlight(t))
  PROVE  Cardinality(S) <= MaxPositions
<1> DEFINE others == {t \in Symbols \ {s} : InFlight(t) /\ book[t] = None}
<1>1. Cardinality(Booked) + Cardinality(others) + 1 <= MaxPositions
  BY DEF Fits
<1>2. IsFiniteSet(Booked) /\ IsFiniteSet(others)
  BY SymbolsFinite, FS_Subset DEF Booked
<1>3. S \subseteq (Booked \cup others) \cup {s}
  BY DEF Booked
<1> HIDE DEF others
<1>4. /\ IsFiniteSet(Booked \cup others)
      /\ Cardinality(Booked \cup others) <= Cardinality(Booked) + Cardinality(others)
  <2>1. /\ IsFiniteSet(Booked \cup others) /\ IsFiniteSet(Booked \cap others)
        /\ Cardinality(Booked \cup others) =
             Cardinality(Booked) + Cardinality(others) - Cardinality(Booked \cap others)
    BY <1>2, FS_Union, FS_Intersection
  <2>2. Cardinality(Booked \cap others) \in Nat /\ Cardinality(Booked) \in Nat /\ Cardinality(others) \in Nat
    BY <1>2, <2>1, FS_CardinalityType
  <2> QED
    BY <2>1, <2>2
<1> DEFINE C == Booked \cup others
<1>5. /\ IsFiniteSet(C \cup {s}) /\ Cardinality(C \cup {s}) <= Cardinality(C) + 1
      /\ Cardinality(C) \in Nat
  <2>1. IsFiniteSet(C)
    BY <1>4
  <2> HIDE DEF C
  <2>2. Cardinality(C) \in Nat
    BY <2>1, FS_CardinalityType
  <2>3. IsFiniteSet(C \cup {s})
    BY <2>1, FS_AddElement
  <2>4. Cardinality(C \cup {s}) = IF s \in C THEN Cardinality(C) ELSE Cardinality(C) + 1
    BY <2>1, FS_AddElement
  <2> QED
    BY <2>2, <2>3, <2>4
<1>6. Cardinality(S) <= Cardinality(C \cup {s}) /\ IsFiniteSet(S)
  BY <1>3, <1>5, FS_Subset
<1>7. /\ Cardinality(S) \in Nat /\ Cardinality(C \cup {s}) \in Nat
      /\ Cardinality(Booked) \in Nat /\ Cardinality(others) \in Nat
  BY <1>2, <1>5, <1>6, FS_CardinalityType
<1>8. Cardinality(C) <= Cardinality(Booked) + Cardinality(others)
  BY <1>4
<1> HIDE DEF C
<1> QED
  BY <1>1, <1>5, <1>6, <1>7, <1>8, TimingAssumption

LEMMA CountStep ==
  ASSUME Sound, Cardinality(Counting) <= MaxPositions, [Next]_vars
  PROVE  (Cardinality(Counting) <= MaxPositions)'
<1> USE DEF Sound
<1>1. IsFiniteSet(Counting) /\ Counting' \subseteq Symbols
  BY SymbolsFinite, FS_Subset DEF Counting
<1>2. CASE Counting' \subseteq Counting
  <2>1. Cardinality(Counting') <= Cardinality(Counting) /\ IsFiniteSet(Counting')
    BY <1>1, <1>2, FS_Subset
  <2> QED
    BY <1>1, <2>1, FS_CardinalityType, TimingAssumption
<1>3. ASSUME NEW p \in Procs, NEW e \in Entries, Claim(p, e) PROVE Cardinality(Counting') <= MaxPositions
  <2>1. Fits(On[e]) /\ On[e] \in Symbols
    BY <1>3 DEF Claim, Symbols
  <2>2. /\ UNCHANGED <<now, order, units, book>>
        /\ \A t \in Symbols : t # On[e] => claim'[t] = claim[t]
    BY <1>3 DEF Claim, venueVars, Typed, WorldOK
  <2>3. ASSUME NEW t \in Counting', t # On[e] PROVE t \in Symbols /\ (t \in Booked \/ InFlight(t))
    <3>1. t \in Symbols /\ (InFlight(t)' => InFlight(t))
      BY <1>1, <2>2, <2>3 DEF InFlight
    <3> QED
      BY <2>2, <2>3, <3>1 DEF Counting, Booked
  <2> QED
    BY <2>1, <2>3, Room
<1>4. CASE ~ (Counting' \subseteq Counting)
  <2>1. PICK s \in Symbols : s \in Counting' /\ s \notin Counting
    BY <1>1, <1>4
  <2>2. PICK p \in Procs, e \in Entries : Claim(p, e) /\ On[e] = s
    BY <2>1, CountingMoves
  <2> QED
    BY <1>3, <2>2
<1> QED
  BY <1>2, <1>4

\* In the book, or in flight.
Counted(e) == book[On[e]] = e \/ (InFlight(On[e]) /\ claim[On[e]].order = e)

LiveSymbols == {On[e] : e \in {f \in Entries : Live(f)}}

LEMMA InitCounts == Init => Cardinality(Counting) <= MaxPositions
<1> SUFFICES ASSUME Init PROVE Cardinality(Counting) <= MaxPositions
  OBVIOUS
<1>1. Counting = {}
  BY DEF Init, Counting, InFlight
<1> QED
  BY <1>1, FS_EmptySet, TimingAssumption

LEMMA CountedCaps ==
  ASSUME Sound, Cardinality(Counting) <= MaxPositions, \A e \in Entries : Live(e) => Counted(e)
  PROVE  CapsHold
<1>1. ASSUME NEW e \in Entries, Live(e) PROVE On[e] \in Counting
  <2>1. On[e] \in Symbols /\ Counted(e) /\ e # None
    BY <1>1, NoneAssumption DEF Symbols
  <2>2. ~ Flat(e)
    BY <1>1 DEF Live, Flat, Over
  <2> QED
    BY <2>1, <2>2 DEF Counted, Counting
<1>2. LiveSymbols \subseteq Counting
  BY <1>1 DEF LiveSymbols
<1>3. IsFiniteSet(Counting)
  BY SymbolsFinite, FS_Subset DEF Counting
<1>4. Cardinality(LiveSymbols) <= Cardinality(Counting) /\ IsFiniteSet(LiveSymbols)
  BY <1>2, <1>3, FS_Subset
<1>5. Cardinality(LiveSymbols) \in Nat /\ Cardinality(Counting) \in Nat
  BY <1>3, <1>4, FS_CardinalityType
<1>6. Cardinality(LiveSymbols) <= MaxPositions
  BY <1>4, <1>5, TimingAssumption
<1> QED
  BY <1>6 DEF LiveSymbols, CapsHold

\* The cap holds at the venue, for any number of positions, in every state in which every
\* live entry is in the book or in flight: what claim_caps_problem counts on.
THEOREM CapOfTheCounted == Spec => []((\A e \in Entries : Live(e) => Counted(e)) => CapsHold)
<1> DEFINE Inv == Sound /\ Cardinality(Counting) <= MaxPositions
<1>1. Init => Inv
  BY InitSound, InitCounts
<1>2. Inv /\ [Next]_vars => Inv'
  BY SoundStep, CountStep
<1>3. Inv => ((\A e \in Entries : Live(e) => Counted(e)) => CapsHold)
  BY CountedCaps
<1> HIDE DEF Inv
<1> QED
  BY <1>1, <1>2, <1>3, PTL DEF Spec

-----------------------------------------------------------------------------
(* The cap while no record is brought back.                                *)

\* SaveHolding writes a record that has left the book.
Revives == SaveHolding /\ book[Sym(Leg)] = None

\* A door that has taken its symbol and may still send.
Deciding(p) == pc[p] \in {"claimed", "ready"} /\ Fresh(p)

\* The record of a symbol is never that of another position than the one decided,
\* entered or live there.
BookedOwn ==
  /\ \A p \in Procs : Deciding(p) => book[Sym(p)] = None
  /\ \A p \in Procs : Opening(p) => book[Sym(p)] \in {None, job[p]}
  /\ \A f \in Entries : Live(f) => book[On[f]] \in {None, f}

\* A door that may enter finds everything that is live in the book or claimed.
Decided ==
  \A p \in Procs : pc[p] = "pass" /\ at[p] # None /\ Fresh(p) =>
    \A f \in Entries : Live(f) => Known(f, at[p] - FreshFor)

\* The symbols on which something is live or may be sent.
Acting == LiveSymbols \cup {Sym(p) : p \in {q \in Procs : Deciding(q)}}

\* A record is only ever that of an entry just made.
LEMMA NewRecord ==
  ASSUME Typed, [Next]_vars, ~ Revives, NEW s \in Symbols, book'[s] # book[s], book'[s] # None
  PROVE  /\ book[s] = None
         /\ \E p \in Procs : Save(p) /\ pc[p] = "book" /\ Sym(p) = s /\ book'[s] = job[p]
<1>1. PICK p \in Procs : /\ Save(p) \/ (SaveHolding /\ p = Leg)
                         /\ book[s] = None /\ Sym(p) = s /\ book'[s] = job[p]
  BY RecordMoves
<1>2. Save(p) /\ pc[p] = "book"
  BY <1>1 DEF Revives, Save
<1> QED
  BY <1>1, <1>2

LEMMA BookedOwnStep ==
  ASSUME Sound, BookedOwn, [Next]_vars, ~ Revives PROVE BookedOwn'
<1> USE DEF Sound
<1>0. ASSUME NEW p \in Procs PROVE Moves(p)
  BY AllMove
<1>1. ASSUME NEW p \in Procs, pc[p] \in {"claimed", "ready", "sent", "stop", "target", "book"}
      PROVE  job[p] \in Entries /\ Sym(p) \in Symbols
  BY <1>1, SymType DEF Typed, Hands, HandOf
<1>2. ASSUME NEW p \in Procs, Deciding(p)' PROVE book'[Sym(p)'] = None
  <2>1. CASE Deciding(p) /\ job'[p] = job[p]
    <3>1. book[Sym(p)] = None /\ Sym(p)' = Sym(p) /\ Sym(p) \in Symbols
      BY <1>1, <2>1 DEF BookedOwn, Deciding, Sym
    <3>2. ASSUME NEW q \in Procs, pc[q] = "book", Sym(q) = Sym(p) PROVE FALSE
      BY <2>1, <3>2, OneDoor DEF Deciding, Opening
    <3> QED
      BY <3>1, <3>2, NewRecord
  <2>2. ASSUME NEW e \in Entries, Claim(p, e), job'[p] = e PROVE book'[Sym(p)'] = None
    BY <2>2 DEF Claim, Fits, Sym
  <2>3. \/ (pc[p] \in {"claimed", "ready"} /\ job'[p] = job[p] /\ at'[p] = at[p])
        \/ \E e \in Entries : Claim(p, e) /\ job'[p] = e
    BY <1>0, <1>2 DEF Moves, Deciding, CheckResting
  <2>4. CASE pc[p] \in {"claimed", "ready"} /\ job'[p] = job[p] /\ at'[p] = at[p]
    BY <1>2, <2>1, <2>4, FreshStays DEF Deciding
  <2> QED
    BY <2>2, <2>3, <2>4
<1>3. ASSUME NEW p \in Procs, Opening(p)' PROVE book'[Sym(p)'] \in {None, job'[p]}
  <2>1. job'[p] = job[p] /\ (Opening(p) \/ Send(p))
    BY <1>0, <1>3 DEF Moves
  <2>2. Opening(p) \/ Deciding(p)
    BY <2>1 DEF Send, Deciding
  <2>3. /\ book[Sym(p)] \in {None, job[p]} /\ Sym(p)' = Sym(p) /\ Sym(p) \in Symbols
    BY <1>1, <2>1, <2>2 DEF BookedOwn, Sym, Opening, Deciding
  <2>4. ASSUME NEW q \in Procs, pc[q] = "book", Sym(q) = Sym(p) PROVE q = p
    BY <2>2, <2>4, OneDoor DEF Deciding, Opening
  <2> QED
    BY <2>1, <2>3, <2>4, NewRecord
<1>4. ASSUME NEW f \in Entries, Live(f)' PROVE book'[On[f]] \in {None, f}
  <2>1. On[f] \in Symbols
    BY DEF Symbols
  <2>2. CASE Live(f)
    <3>1. ASSUME NEW q \in Procs, pc[q] = "book", Sym(q) = On[f] PROVE job[q] = f
      BY <2>2, <3>1 DEF Alone, Opening, EntriesOn
    <3> QED
      BY <2>1, <2>2, <3>1, NewRecord DEF BookedOwn
  <2>3. ASSUME NEW q \in Procs, Send(q), job[q] = f PROVE book'[On[f]] \in {None, f}
    <3>1. Deciding(q) /\ UNCHANGED book
      BY <2>3 DEF Send, Deciding, fileVars
    <3> QED
      BY <2>3, <3>1 DEF BookedOwn, Sym
  <2> QED
    BY <1>4, <2>2, <2>3, LiveMoves
<1> QED
  BY <1>2, <1>3, <1>4 DEF BookedOwn

LEMMA DecidedStep ==
  ASSUME Sound, BookedOwn, Decided, [Next]_vars PROVE Decided'
<1> USE DEF Sound
<1> SUFFICES ASSUME NEW p \in Procs, pc'[p] = "pass", at'[p] # None, Fresh(p)', NEW f \in Entries, Live(f)'
             PROVE  Known(f, at[p] - FreshFor)'
  BY DEF Decided
<1>1. ReadBook(p) \/ (pc[p] = "pass" /\ at'[p] = at[p])
  BY AllMove DEF Moves
<1>2. CASE pc[p] = "pass" /\ at'[p] = at[p]
  <2>1. Live(f) => Known(f, at[p] - FreshFor)
    BY <1>2, FreshStays DEF Decided
  <2> QED
    BY <1>2, <2>1, KnownStays
<1>3. CASE ReadBook(p)
  <2>1. /\ pc[p] = "venue" /\ at'[p] = at[p] /\ MayEnter(p) /\ UNCHANGED <<now, order, units, book, claim>>
    BY <1>3 DEF ReadBook, venueVars, fileVars, Typed, ProcsOK
  <2>2. Fresh(p) /\ Live(f) /\ On[f] \in Symbols
    BY <2>1, FreshStays DEF Live, Symbols
  <2>3. CASE seen[p][On[f]] = 0
    BY <2>1, <2>2, <2>3 DEF Knows, Known, Claimed
  <2>4. CASE seen[p][On[f]] # 0
    <3>1. book[On[f]] # None
      BY <2>1, <2>2, <2>4 DEF MayEnter
    <3> QED
      BY <2>1, <2>2, <3>1 DEF BookedOwn, Known
  <2> QED
    BY <2>3, <2>4
<1> QED
  BY <1>1, <1>2, <1>3

\* What is known at a fresh decision is in the book or in flight.
LEMMA KnownCounts ==
  ASSUME Typed, NEW f \in Entries, NEW t \in Int, Known(f, t), now < t + Ttl
  PROVE  On[f] \in Symbols /\ (On[f] \in Booked \/ InFlight(On[f]))
<1>1. On[f] \in Symbols /\ f # None
  BY NoneAssumption DEF Symbols
<1>2. CASE book[On[f]] = f
  BY <1>1, <1>2 DEF Booked
<1>3. CASE Claimed(f, t)
  <2>1. claim[On[f]].since \in Nat /\ now \in Nat /\ Ttl \in Nat
    BY <1>1, <1>3, ClaimTypes, TimingAssumption DEF Claimed
  <2> QED
    BY <1>1, <1>3, <2>1 DEF Claimed, InFlight
<1> QED
  BY <1>2, <1>3 DEF Known

LEMMA ActingStep ==
  ASSUME Sound, Decided, Cardinality(Acting) <= MaxPositions, [Next]_vars
  PROVE  (Cardinality(Acting) <= MaxPositions)'
<1> USE DEF Sound
<1>1. ASSUME NEW p \in Procs, Deciding(p) PROVE job[p] \in Entries /\ Sym(p) \in Symbols
  BY <1>1, SymType DEF Typed, Hands, HandOf, Deciding
<1>2. IsFiniteSet(Acting) /\ Acting \subseteq Symbols
  <2>1. Acting \subseteq Symbols
    BY <1>1 DEF Acting, LiveSymbols, Symbols
  <2> QED
    BY <2>1, SymbolsFinite, FS_Subset
<1>3. ASSUME NEW f \in Entries, Live(f)' PROVE On[f] \in Acting
  <2>1. ASSUME NEW q \in Procs, Send(q), job[q] = f PROVE On[f] \in Acting
    <3>1. Deciding(q) /\ Sym(q) = On[f]
      BY <2>1 DEF Send, Deciding, Sym
    <3> QED
      BY <3>1 DEF Acting
  <2> QED
    BY <1>3, <2>1, LiveMoves DEF Acting, LiveSymbols
<1>4. ASSUME NEW p \in Procs, Deciding(p)', ~ \E e \in Entries : Claim(p, e) PROVE Sym(p)' \in Acting
  <2>1. pc[p] \in {"claimed", "ready"} /\ job'[p] = job[p] /\ at'[p] = at[p]
    BY <1>4, AllMove DEF Moves, Deciding, CheckResting
  <2>2. Deciding(p) /\ Sym(p)' = Sym(p)
    BY <1>4, <2>1, FreshStays DEF Deciding, Sym
  <2> QED
    BY <2>2 DEF Acting
<1>5. CASE \A p \in Procs, e \in Entries : Claim(p, e) => ~ Fresh(p)'
  <2>1. Acting' \subseteq Acting
    BY <1>3, <1>4, <1>5 DEF Acting, LiveSymbols, Deciding
  <2>2. Cardinality(Acting') <= Cardinality(Acting) /\ IsFiniteSet(Acting')
    BY <1>2, <2>1, FS_Subset
  <2> QED
    BY <1>2, <2>2, FS_CardinalityType, TimingAssumption
<1>6. ASSUME NEW p \in Procs, NEW e \in Entries, Claim(p, e), Fresh(p)'
      PROVE  Cardinality(Acting') <= MaxPositions
  <2>0. /\ pc[p] = "pass" /\ at[p] # None /\ Fits(On[e]) /\ On[e] \in Symbols
        /\ job'[p] = e /\ UNCHANGED <<now, at, order, units>>
        /\ \A q \in Procs : q # p => pc'[q] = pc[q] /\ job'[q] = job[q]
    BY <1>6 DEF Claim, Take, Typed, ProcsOK, Symbols, venueVars
  <2>1. /\ Fresh(p) /\ at[p] \in Nat /\ now \in Nat /\ FreshFor \in Nat /\ Ttl \in Nat
        /\ now < (at[p] - FreshFor) + Ttl
    <3>1. Fresh(p)
      BY <1>6, <2>0, FreshStays
    <3> QED
      BY <3>1, FreshTimes
  <2>2. ASSUME NEW f \in Entries, Live(f) PROVE On[f] \in Symbols /\ (On[f] \in Booked \/ InFlight(On[f]))
    <3>1. Known(f, at[p] - FreshFor)
      BY <2>0, <2>1, <2>2 DEF Decided
    <3> QED
      BY <2>1, <3>1, KnownCounts
  <2>3. ASSUME NEW q \in Procs, Deciding(q) PROVE Sym(q) \in Symbols /\ InFlight(Sym(q))
    <3>1. job[q] \in Entries /\ Sym(q) \in Symbols /\ Claimed(job[q], at[q])
      BY <1>1, <2>3 DEF Outlives, Deciding
    <3>2. now < at[q] + Ttl /\ at[q] \in Nat /\ now \in Nat /\ Ttl \in Nat
      BY <2>3, FreshTimes DEF Deciding
    <3>3. claim[Sym(q)].since \in Nat
      BY <3>1, ClaimTypes DEF Claimed, Sym
    <3> QED
      BY <3>1, <3>2, <3>3 DEF Claimed, InFlight, Sym
  <2>4. ASSUME NEW s \in Acting', s # On[e] PROVE s \in Symbols /\ (s \in Booked \/ InFlight(s))
    <3>1. CASE s \in LiveSymbols'
      <4>1. PICK f \in Entries : s = On[f] /\ Live(f)'
        BY <3>1 DEF LiveSymbols
      <4>2. Live(f)
        BY <2>0, <4>1 DEF Live
      <4> QED
        BY <2>2, <4>1, <4>2
    <3>2. ASSUME NEW q \in Procs, Deciding(q)', s = Sym(q)' PROVE s \in Symbols /\ InFlight(s)
      <4>1. q # p
        BY <2>0, <2>4, <3>2 DEF Sym
      <4>2. Deciding(q) /\ s = Sym(q)
        BY <2>0, <3>2, <4>1 DEF Deciding, Fresh, Sym
      <4> QED
        BY <2>3, <4>2
    <3> QED
      BY <2>4, <3>1, <3>2 DEF Acting
  <2> QED
    BY <2>0, <2>4, Room
<1> QED
  BY <1>5, <1>6

\* As long as no pass brings back a record that has left the book, the cap holds at the
\* venue, for any number of positions, doors and symbols, over expired claims, deaths,
\* unknown answers and stale decisions.
THEOREM CapUnlessRevived == Spec /\ [][~ Revives]_vars => []CapsHold
<1> DEFINE Inv == Sound /\ BookedOwn /\ Decided /\ Cardinality(Acting) <= MaxPositions
<1>1. Init => Inv
  <2> SUFFICES ASSUME Init PROVE Inv
    OBVIOUS
  <2>1. (\A p \in Procs : pc[p] = "idle") /\ \A e \in Entries : ~ Live(e)
    BY DEF Init, Live
  <2>2. BookedOwn /\ Decided
    BY <2>1 DEF BookedOwn, Decided, Deciding, Opening
  <2>3. Acting = {}
    BY <2>1 DEF Acting, LiveSymbols, Deciding
  <2>4. Cardinality(Acting) <= MaxPositions
    BY <2>3, FS_EmptySet, TimingAssumption
  <2> QED
    BY <2>2, <2>4, InitSound
<1>2. Inv /\ [Next]_vars /\ [~ Revives]_vars => Inv'
  <2> SUFFICES ASSUME Inv, [Next]_vars, [~ Revives]_vars PROVE Inv'
    OBVIOUS
  <2>1. Sound' /\ Decided' /\ (Cardinality(Acting) <= MaxPositions)'
    BY SoundStep, DecidedStep, ActingStep
  <2>2. CASE ~ Revives
    BY <2>1, <2>2, BookedOwnStep
  <2>3. CASE UNCHANGED vars
    BY <2>1, <2>3 DEF BookedOwn, Deciding, Fresh, Opening, Live, Sym, vars, venueVars, fileVars, procVars
  <2> QED
    BY <2>2, <2>3
<1>3. Inv => CapsHold
  <2> SUFFICES ASSUME Inv PROVE CapsHold
    OBVIOUS
  <2>1. ASSUME NEW p \in Procs, Deciding(p) PROVE Sym(p) \in Symbols
    BY <2>1, SymType DEF Sound, Typed, Hands, HandOf, Deciding
  <2>2. LiveSymbols \subseteq Acting /\ Acting \subseteq Symbols
    BY <2>1 DEF Acting, LiveSymbols, Symbols
  <2>3. IsFiniteSet(Acting)
    BY <2>2, SymbolsFinite, FS_Subset
  <2>4. Cardinality(LiveSymbols) <= Cardinality(Acting) /\ IsFiniteSet(LiveSymbols)
    BY <2>2, <2>3, FS_Subset
  <2>5. Cardinality(LiveSymbols) \in Nat /\ Cardinality(Acting) \in Nat
    BY <2>3, <2>4, FS_CardinalityType
  <2>6. Cardinality(LiveSymbols) <= MaxPositions
    BY <2>4, <2>5, TimingAssumption
  <2> QED
    BY <2>6 DEF LiveSymbols, CapsHold
<1> HIDE DEF Inv
<1> QED
  BY <1>1, <1>2, <1>3, PTL DEF Spec
=============================================================================
