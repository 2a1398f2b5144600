------------------------------ MODULE MCLiveCaps ------------------------------
(* The cap of two positions, along one order of the processes' steps: the      *)
(* leg and two probes take the turns below, and TLC is left with what each     *)
(* turn may do and with the venue.                                             *)
EXTENDS LiveBook, TLC

CONSTANTS leg, p1, p2, e1, e2, e3, e4, x, y, z

Symbol == [e \in Entries |-> CASE e = e3 -> y [] e = e4 -> z [] OTHER -> x]
Sender == [e \in Entries |-> IF e = e4 THEN p2 ELSE p1]

VARIABLE turn

\* A process and the places it goes to, one a turn.
Walk(p, places) == [i \in 1 .. Len(places) |-> <<p, places[i]>>]

\* The claim on x expires.
Expiry == <<"clock", "later">>

Entry == <<"venue", "pass", "claimed", "ready", "sent">>

Turns ==
  \* The first probe opens e1, protects it and books it.
  Walk(p1, Entry \o <<"stop", "book", "giveback", "watch">>)
  \* A pass of the leg reads the record of e1 and finds it time to count it.
  \o Walk(leg, <<"venue", "pass", "time">>)
  \* The probe closes e1, its time being up, clears the record, and opens e2.
  \o Walk(p1, <<"close", "cancel", "append", "clear", "idle">>)
  \o Walk(p1, Entry \o <<"stop", "book">>)
  \* The leg saves the record it read; the probe cannot book e2 over it.
  \o Walk(leg, <<"pass", "idle">>) \o Walk(p1, <<"idle">>) \o <<Expiry>>
  \* The next pass closes e1 again: the venue knows the order and has it filled.
  \o Walk(leg, <<"venue", "pass", "time", "close", "cancel", "append", "clear">>)
  \* Two entries are decided on that book, before the record of e1 is cleared.
  \o Walk(p1, <<"venue", "pass">>) \o Walk(p2, <<"venue", "pass">>)
  \o Walk(leg, <<"pass">>)
  \o Walk(p1, <<"claimed", "ready", "sent">>) \o Walk(p2, <<"claimed", "ready", "sent">>)

InTurn ==
  /\ turn < Len(Turns) /\ turn' = turn + 1
  /\ IF Turns[turn'] = Expiry
       THEN Tick
       ELSE LET p == Turns[turn'][1] IN
              /\ \/ DoorStep(p) \/ ExitStep(p)
                 \/ p = Leg /\ ((\E e \in Entries : Look(e)) \/ SaveHolding)
              /\ pc'[p] = Turns[turn'][2]

Free == Venue /\ UNCHANGED turn

ScheduledSpec == Init /\ turn = 0 /\ [][InTurn \/ Free]_<<vars, turn>>
=============================================================================
