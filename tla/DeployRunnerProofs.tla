-------------------------- MODULE DeployRunnerProofs --------------------------
(***************************************************************************)
(* The deploy runner keeps DeployRunner's IInv, and with it its promises,   *)
(* for any number of handlers, requests, approvals, deaths and failed       *)
(* writes.  A handler's step touches its own record and the one request it  *)
(* works on, so every step is proved from those two (OneRequest).           *)
(***************************************************************************)
EXTENDS DeployRunner, TLAPS

Works    == [at : Steps, request : Requests \cup {Nobody}, approval : Approvals \cup {Nobody},
             verdict : {"none", "found", "absent", "measured", "partial", "unknown"}]
Claims   == [state : RequestStates, approval : Approvals \cup {Nobody}]
Lives    == [at : Phases, latched : BOOLEAN, doubt : BOOLEAN, todo : SUBSET Requests]

(* At the start there is no request, and no process.                        *)
LEMMA InitInv == Init => IInv
  <1> SUFFICES ASSUME Init PROVE IInv
    OBVIOUS
  <1> USE Names DEF Init
  <1>1. TypeOK
    BY DEF TypeOK, Idle, Down, Steps, Phases, RequestStates, Logs, Events
  <1>2. StartInv
    BY DEF StartInv, Down
  <1>3. \A h \in Handlers : HandlerInv(h)
    BY DEF HandlerInv, Owns, Admission, Idle, BeforeTag
  <1>4. \A r \in Requests : RequestInv(r)
    BY DEF RequestInv
  <1> QED
    BY <1>1, <1>2, <1>3, <1>4 DEF IInv
-----------------------------------------------------------------------------
(* What the helpers do, point by point.                                     *)

(* Handler h is now at a step with a verdict; nobody else moved.            *)
Moved(h, step, verdict) ==
  /\ work' \in [Handlers -> Works]
  /\ work'[h].at = step
  /\ work'[h].verdict = verdict
  /\ work'[h].request = work[h].request
  /\ work'[h].approval = work[h].approval
  /\ \A g \in Handlers : g # h => work'[g] = work[g]

(* Handler h is done; nobody else moved.                                    *)
Left(h) ==
  /\ work' \in [Handlers -> Works]
  /\ work'[h] = Idle
  /\ \A g \in Handlers : g # h => work'[g] = work[g]

LEMMA Moves ==
  ASSUME TypeOK, NEW h \in Handlers, NEW step \in Steps,
         NEW verdict \in {"none", "found", "absent", "measured", "partial", "unknown"},
         work' = [work EXCEPT ![h].at = step, ![h].verdict = verdict]
  PROVE  Moved(h, step, verdict)
  <1>1. work \in [Handlers -> Works]
    BY DEF TypeOK, Works
  <1>2. [work[h] EXCEPT !.at = step, !.verdict = verdict] \in Works
    BY <1>1 DEF Works
  <1> QED
    BY <1>1, <1>2 DEF Moved, Works

LEMMA GoMoves ==
  ASSUME TypeOK, NEW h \in Handlers, NEW step \in Steps,
         work' = [work EXCEPT ![h].at = step]
  PROVE  Moved(h, step, work[h].verdict)
  <1>1. work \in [Handlers -> Works]
    BY DEF TypeOK, Works
  <1>2. [work[h] EXCEPT !.at = step] \in Works
    BY <1>1 DEF Works
  <1> QED
    BY <1>1, <1>2 DEF Moved, Works

LEMMA EndLeaves ==
  ASSUME TypeOK, NEW h \in Handlers, End(h)
  PROVE  Left(h) /\ opLock' \in Handlers \cup {Nobody}
  <1>1. work \in [Handlers -> Works]
    BY DEF TypeOK, Works
  <1>2. Idle \in Works
    BY DEF Works, Idle, Steps
  <1> QED
    BY <1>1, <1>2 DEF Left, End, TypeOK

LEMMA WriteTypes ==
  ASSUME TypeOK, NEW log \in Logs, NEW o \in Outcomes, Write(log, o)
  PROVE  torn' \subseteq Logs /\ faults' \in Nat
  <1>1. torn \subseteq Logs /\ torn \cup {log} \subseteq Logs /\ faults \in Nat
    BY DEF TypeOK
  <1>2. torn' = torn \/ torn' = torn \cup {log}
    BY DEF Write
  <1>3. faults' = faults \/ faults' = faults + 1
    BY DEF Write
  <1> QED
    BY <1>1, <1>2, <1>3

(* A row enters the audit of one request, or none.                          *)
LEMMA LogRows ==
  ASSUME TypeOK, NEW r \in Requests, NEW event \in Events, NEW o \in Outcomes,
         LogRow(event, r, o)
  PROVE  /\ torn' \subseteq Logs /\ faults' \in Nat
         /\ audit' \in [Requests -> SUBSET Events]
         /\ audit'[r] = IF Landed(o) THEN audit[r] \cup {event} ELSE audit[r]
         /\ \A q \in Requests : q # r => audit'[q] = audit[q]
  <1>1. torn' \subseteq Logs /\ faults' \in Nat
    BY WriteTypes DEF LogRow, Logs
  <1>2. audit \in [Requests -> SUBSET Events]
    BY DEF TypeOK
  <1> QED
    BY <1>1, <1>2 DEF LogRow

(* The state of one request changes, or none.                               *)
LEMMA StatesSet ==
  ASSUME TypeOK, NEW r \in Requests, NEW state \in RequestStates, NEW o \in Outcomes,
         SetState(r, state, o)
  PROVE  /\ torn' \subseteq Logs /\ faults' \in Nat
         /\ request' \in [Requests -> Claims]
         /\ request'[r].approval = request[r].approval
         /\ request'[r].state = IF Landed(o) THEN state ELSE request[r].state
         /\ \A q \in Requests : q # r => request'[q] = request[q]
  <1>1. torn' \subseteq Logs /\ faults' \in Nat
    BY WriteTypes DEF SetState, Logs
  <1>2. request \in [Requests -> Claims]
    BY DEF TypeOK, Claims
  <1>3. [request[r] EXCEPT !.state = state] \in Claims
    BY <1>2 DEF Claims
  <1> QED
    BY <1>1, <1>2, <1>3 DEF SetState, Claims
-----------------------------------------------------------------------------
(* A step of handler h about request r leaves every other request and every *)
(* other handler's facts as they were.                                      *)
Alone(h, r) == \A g \in Handlers : g # h /\ Owns(g) => work[g].request # r

Apart(h, r) ==
  /\ \A g \in Handlers : g # h => work'[g] = work[g]
  /\ \A q \in Requests : q # r => /\ request'[q] = request[q]
                                  /\ audit'[q] = audit[q]
                                  /\ begun'[q] = begun[q]
                                  /\ q \in built => q \in built'
  /\ \A a \in Approvals : spent'[a] = spent[a] \/ (spent[a] = Nobody /\ spent'[a] = r)
  /\ actor.at = "up" /\ actor'.at = "up" /\ (actor.latched => actor'.latched)
  /\ slips \subseteq slips' /\ (latch' = "absent" => latch = "absent")

LEMMA OneRequest ==
  ASSUME IInv, TypeOK', NEW h \in Handlers, NEW r \in Requests,
         work[h].at # "idle" => work[h].request = r,
         work'[h].at # "idle" => work'[h].request = r,
         Alone(h, r), Apart(h, r), HandlerInv(h)', RequestInv(r)'
  PROVE  IInv'
  <1> USE DEF Apart, Alone
  <1>1. StartInv'
    BY DEF IInv, StartInv
  <1>2. ASSUME NEW g \in Handlers, g # h PROVE HandlerInv(g)'
    <2>1. HandlerInv(g)
      BY DEF IInv
    <2>2. work'[g] = work[g]
      BY <1>2
    <2>3. CASE Owns(g)
      <3>1. work[g].request \in Requests /\ work[g].request # r
        BY <1>2, <2>1, <2>3 DEF HandlerInv, Owns, Admission
      <3>2. work[g].approval \in Approvals
        BY <2>1, <2>3 DEF HandlerInv, Owns, Admission
      <3>3. \A f \in Handlers : Owns(f)' /\ work'[f].request = work[g].request => f = g
        BY <1>2, <2>1, <2>2, <2>3, <3>1 DEF HandlerInv, Owns, Admission
      <3>4. spent[work[g].approval] = work[g].request => spent'[work[g].approval] = work[g].request
        BY <3>1, <3>2, Names
      <3> QED
        BY <2>1, <2>2, <2>3, <3>1, <3>2, <3>3, <3>4 DEF HandlerInv, Owns, Admission
    <2>4. CASE ~ Owns(g)
      BY <2>1, <2>2, <2>4 DEF HandlerInv, Owns, Admission, BeforeTag
    <2> QED
      BY <2>3, <2>4
  <1>3. ASSUME NEW q \in Requests, q # r PROVE RequestInv(q)'
    <2>1. RequestInv(q)
      BY DEF IInv
    <2>2. (InHand(q) => InHand(q)') /\ (Ending(q) => Ending(q)')
      BY <1>3 DEF InHand, Ending
    <2> QED
      BY <1>3, <2>1, <2>2, Names DEF RequestInv, OnFile
  <1> QED
    BY <1>1, <1>2, <1>3 DEF IInv
-----------------------------------------------------------------------------
(* What a handler past its claim knows.                                     *)
LEMMA Owner ==
  ASSUME IInv, NEW h \in Handlers, Owns(h)
  PROVE  \E r \in Requests :
         /\ r = work[h].request /\ work[h].approval \in Approvals
         /\ request[r].state = "claimed" /\ request[r].approval = work[h].approval
         /\ actor.at = "up"
         /\ Alone(h, r)
         /\ TypeOK /\ HandlerInv(h) /\ RequestInv(r)
  BY DEF IInv, HandlerInv, Owns, Admission, Alone

(* A step of a handler that has claimed nothing changes nothing about any   *)
(* request; it may latch the actor, or put FALSE over a latch and be noted. *)
LEMMA Unowned ==
  ASSUME IInv, TypeOK', NEW h \in Handlers, ~ Owns(h), ~ Owns(h)',
         \A g \in Handlers : g # h => work'[g] = work[g],
         UNCHANGED <<request, spent, audit, latch, begun, built>>,
         actor.at = "up", actor'.at = "up", slips \subseteq slips',
         actor.latched => actor'.latched \/ "overwritten" \in slips',
         HandlerInv(h)'
  PROVE  IInv'
  <1>1. StartInv'
    BY DEF IInv, StartInv
  <1>2. ASSUME NEW g \in Handlers, g # h PROVE HandlerInv(g)'
    <2>1. HandlerInv(g) /\ work'[g] = work[g]
      BY <1>2 DEF IInv
    <2>2. \A f \in Handlers : Owns(f)' => Owns(f) /\ work'[f] = work[f]
      BY DEF Owns, Admission
    <2> QED
      BY <2>1, <2>2 DEF HandlerInv, Owns, Admission
  <1>3. ASSUME NEW r \in Requests PROVE RequestInv(r)'
    <2>1. RequestInv(r)
      BY DEF IInv
    <2>2. (InHand(r) => InHand(r)') /\ (Ending(r) => Ending(r)')
      BY DEF InHand, Ending, Owns, Admission
    <2> QED
      BY <2>1, <2>2 DEF RequestInv, OnFile
  <1> QED
    BY <1>1, <1>2, <1>3 DEF IInv

(* Before the first docker command a handler may go on to any step that     *)
(* asks for no more than that, or stop.                                     *)
LEMMA BeforeEffects ==
  ASSUME IInv, TypeOK', NEW h \in Handlers, work[h].at \in BeforeTag,
         UNCHANGED <<request, spent, audit, latch, actor, begun, built, slips>>,
         \/ Left(h)
         \/ \E step \in {"verify", "lock", "measure", "consume", "refuse", "finishRefused",
                        "remeasure"},
               verdict \in {"none", "found", "absent", "measured", "partial", "unknown"} :
              Moved(h, step, verdict) /\ (step # "remeasure" => verdict = work[h].verdict)
  PROVE  IInv'
  <1>1. Owns(h)
    BY DEF Owns, Admission, BeforeTag
  <1>2. PICK r \in Requests :
          /\ r = work[h].request /\ work[h].approval \in Approvals
          /\ request[r].state = "claimed" /\ actor.at = "up" /\ Alone(h, r)
          /\ HandlerInv(h) /\ RequestInv(r) /\ TypeOK
    BY <1>1, Owner
  <1>3. begun[r] = 0 /\ \A event \in Terminal : event \notin audit[r]
    BY <1>2 DEF HandlerInv
  <1>4. /\ \A g \in Handlers : g # h => work'[g] = work[g]
        /\ work'[h].at # "idle" => work'[h].request = r /\ work'[h].approval = work[h].approval
    <2>1. CASE Left(h)
      BY <2>1 DEF Left, Idle
    <2>2. CASE ~ Left(h)
      BY <1>2, <2>2 DEF Moved
    <2> QED
      BY <2>1, <2>2
  <1>5. Apart(h, r)
    BY <1>2, <1>4 DEF Apart
  <1>6. HandlerInv(h)'
    <2>1. CASE Left(h)
      BY <2>1 DEF Left, Idle, HandlerInv, Owns, Admission, BeforeTag
    <2>2. ASSUME NEW step \in {"verify", "lock", "measure", "consume", "refuse",
                               "finishRefused", "remeasure"},
                 NEW verdict \in {"none", "found", "absent", "measured", "partial", "unknown"},
                 Moved(h, step, verdict), step # "remeasure" => verdict = work[h].verdict
          PROVE  HandlerInv(h)'
      <3>1. \A g \in Handlers : Owns(g)' /\ work'[g].request = r => g = h
        BY <1>2, <1>4 DEF Alone, Owns, Admission
      <3> QED
        BY <1>1, <1>2, <1>3, <1>4, <2>2, <3>1 DEF HandlerInv, Moved, Owns, Admission, BeforeTag
    <2> QED
      BY <2>1, <2>2
  <1>7. RequestInv(r)'
    BY <1>2, <1>3 DEF RequestInv
  <1> QED
    BY <1>2, <1>4, <1>5, <1>6, <1>7, OneRequest
-----------------------------------------------------------------------------
(* One lemma per operation.                                                 *)

LEMMA ArriveKeeps ==
  ASSUME IInv, NEW h \in Handlers, NEW r \in Requests, NEW a \in Approvals, Arrive(h, r, a)
  PROVE  IInv'
  <1> DEFINE w == [at |-> "look", request |-> r, approval |-> a, verdict |-> "none"]
  <1>1. work \in [Handlers -> Works] /\ w \in Works
    BY DEF IInv, TypeOK, Works, Steps
  <1>2. /\ work' \in [Handlers -> Works]
        /\ work'[h] = w
        /\ \A g \in Handlers : g # h => work'[g] = work[g]
    BY <1>1 DEF Arrive
  <1>3. work[h].at = "idle" /\ actor.at = "up"
    BY DEF Arrive, At
  <1>4. UNCHANGED <<files, actor, opLock, counts, history>>
    BY DEF Arrive
  <1>5. TypeOK'
    BY <1>2, <1>4 DEF IInv, TypeOK, Works, files, counts, history
  <1>6. /\ work'[h].at = "look" /\ work'[h].verdict = "none"
        /\ work'[h].request = r /\ work'[h].approval = a
    BY <1>2
  <1>7. HandlerInv(h)'
    BY <1>3, <1>4, <1>6 DEF HandlerInv, Owns, Admission, BeforeTag
  <1> HIDE DEF w
  <1>8. ~ Owns(h) /\ ~ Owns(h)'
    BY <1>3, <1>6 DEF Owns, Admission
  <1> QED
    BY <1>2, <1>3, <1>4, <1>5, <1>7, <1>8, Unowned DEF files, history

(* A handler in admission that goes on, with a verdict its step may have.   *)
LEMMA StillOutside ==
  ASSUME IInv, TypeOK', NEW h \in Handlers, work[h].at \in Admission, actor.at = "up",
         NEW step \in Admission, NEW verdict \in {"none", "found"},
         Moved(h, step, verdict), step # "assign" => verdict = "none",
         UNCHANGED <<request, spent, audit, latch, begun, built>>,
         actor'.at = "up", slips \subseteq slips',
         actor.latched => actor'.latched \/ "overwritten" \in slips'
  PROVE  IInv'
  <1>1. HandlerInv(h) /\ ~ Owns(h)
    BY DEF IInv, Owns, Admission
  <1>2. work[h].request \in Requests /\ work[h].approval \in Approvals
    BY <1>1 DEF HandlerInv, Admission
  <1>3. HandlerInv(h)' /\ ~ Owns(h)'
    BY <1>2 DEF HandlerInv, Owns, Admission, BeforeTag, Moved
  <1> QED
    BY <1>1, <1>3, Unowned DEF Moved

LEMMA LookForLatchKeeps ==
  ASSUME IInv, NEW h \in Handlers, LookForLatch(h)
  PROVE  IInv'
  <1>1. TypeOK /\ work[h].at = "look" /\ actor.at = "up"
    BY DEF IInv, LookForLatch, At
  <1>2. UNCHANGED <<files, actor, opLock, counts, history>>
    BY DEF LookForLatch
  <1>3. PICK verdict \in {"none", "found"} :
          work' = [work EXCEPT ![h].at = "assign", ![h].verdict = verdict]
    BY DEF LookForLatch
  <1>4. Moved(h, "assign", verdict)
    BY <1>1, <1>3, Moves DEF Steps
  <1>5. TypeOK'
    BY <1>1, <1>2, <1>4 DEF TypeOK, Moved, Works, files, counts, history
  <1> QED
    BY <1>1, <1>2, <1>4, <1>5, StillOutside DEF Admission, files, history

LEMMA AssignLatchedKeeps ==
  ASSUME IInv, NEW h \in Handlers, AssignLatched(h)
  PROVE  IInv'
  <1> DEFINE found == work[h].verdict = "found"
  <1>1. TypeOK /\ work[h].at = "assign" /\ actor.at = "up"
    BY DEF IInv, AssignLatched, At
  <1>2. UNCHANGED <<files, opLock, counts, begun, built>>
    BY DEF AssignLatched
  <1>3. Moved(h, "recheck", "none")
    BY <1>1, Moves DEF AssignLatched, Steps
  <1>4. found \in BOOLEAN
    OBVIOUS
  <1> HIDE DEF found
  <1>5. /\ actor' \in Lives /\ actor'.at = "up" /\ actor'.latched = found
        /\ slips' = IF actor.latched /\ ~ found THEN slips \cup {"overwritten"} ELSE slips
        /\ stopped' = (stopped \/ found)
    <2>1. actor' = [actor EXCEPT !.latched = found]
      BY DEF AssignLatched, found
    <2>2. actor \in Lives
      BY <1>1 DEF TypeOK, Lives
    <2>3. /\ slips' = IF actor.latched /\ ~ found THEN slips \cup {"overwritten"} ELSE slips
          /\ stopped' = (stopped \/ found)
      BY DEF AssignLatched, found
    <2> QED
      BY <1>1, <1>4, <2>1, <2>2, <2>3 DEF Lives
  <1>6. TypeOK'
    BY <1>1, <1>2, <1>3, <1>4, <1>5 DEF TypeOK, Moved, Works, Lives, files, counts
  <1> QED
    BY <1>1, <1>2, <1>3, <1>5, <1>6, StillOutside DEF Admission, files

LEMMA RecheckKeeps ==
  ASSUME IInv, NEW h \in Handlers, Recheck(h)
  PROVE  IInv'
  <1>1. TypeOK /\ HandlerInv(h) /\ work[h].at = "recheck" /\ actor.at = "up" /\ ~ Owns(h)
    BY DEF IInv, Recheck, At, Owns, Admission
  <1>2. UNCHANGED <<files, actor, counts, history>>
    BY DEF Recheck
  <1>3. work[h].verdict = "none"
    BY <1>1 DEF HandlerInv
  <1>4. CASE End(h)
    <2>1. Left(h) /\ opLock' \in Handlers \cup {Nobody}
      BY <1>1, <1>4, EndLeaves
    <2>2. work'[h].at = "idle"
      BY <2>1 DEF Left, Idle
    <2>3. TypeOK'
      BY <1>1, <1>2, <2>1 DEF TypeOK, Left, Works, files, counts, history
    <2>4. HandlerInv(h)' /\ ~ Owns(h)'
      BY <2>2 DEF HandlerInv, Owns, Admission, BeforeTag
    <2> QED
      BY <1>1, <1>2, <2>1, <2>3, <2>4, Unowned DEF files, history, Left
  <1>5. CASE Go(h, "begin")
    <2>1. Moved(h, "begin", "none") /\ UNCHANGED opLock
      BY <1>1, <1>3, <1>5, GoMoves DEF Go, Steps
    <2>2. TypeOK'
      BY <1>1, <1>2, <2>1 DEF TypeOK, Moved, Works, files, counts, history
    <2> QED
      BY <1>1, <1>2, <2>1, <2>2, StillOutside DEF Admission, files, history
  <1> QED
    BY <1>4, <1>5 DEF Recheck

LEMMA BeginKeeps ==
  ASSUME IInv, NEW h \in Handlers, Begin(h)
  PROVE  IInv'
  <1>1. TypeOK /\ HandlerInv(h) /\ work[h].at = "begin" /\ actor.at = "up" /\ ~ Owns(h)
    BY DEF IInv, Begin, At, Owns, Admission
  <1>2. PICK r \in Requests : r = work[h].request
    BY <1>1 DEF HandlerInv
  <1>3. work[h].approval \in Approvals
    BY <1>1 DEF HandlerInv
  <1>4. UNCHANGED <<spent, audit, latch, actor, deaths, deletions, history>>
    BY DEF Begin, files
  <1>5. CASE request[r].state # "none"
    <2>1. End(h) /\ UNCHANGED <<files, faults>>
      BY <1>2, <1>5 DEF Begin
    <2>2. Left(h) /\ opLock' \in Handlers \cup {Nobody}
      BY <1>1, <2>1, EndLeaves
    <2>3. work'[h].at = "idle"
      BY <2>2 DEF Left, Idle
    <2>4. TypeOK'
      BY <1>1, <1>4, <2>1, <2>2 DEF TypeOK, Left, Works, files, history
    <2>5. HandlerInv(h)' /\ ~ Owns(h)'
      BY <2>3 DEF HandlerInv, Owns, Admission, BeforeTag
    <2> QED
      BY <1>1, <1>4, <2>1, <2>2, <2>4, <2>5, Unowned DEF files, history, Left
  <1>6. CASE request[r].state = "none"
    <2>1. PICK o \in Outcomes :
            /\ Write("requests", o)
            /\ request' = IF Landed(o)
                 THEN [request EXCEPT ![r] = [state |-> "claimed", approval |-> work[h].approval]]
                 ELSE request
            /\ IF o = "ok" THEN Go(h, "received") ELSE End(h)
      BY <1>2, <1>6 DEF Begin
    <2>2. torn' \subseteq Logs /\ faults' \in Nat
      BY <1>1, <2>1, WriteTypes DEF Logs
    <2>3. /\ request' \in [Requests -> Claims]
          /\ \A q \in Requests : q # r => request'[q] = request[q]
          /\ request'[r] = IF Landed(o)
               THEN [state |-> "claimed", approval |-> work[h].approval] ELSE request[r]
      <3>1. request \in [Requests -> Claims]
        BY <1>1 DEF TypeOK, Claims
      <3>2. [state |-> "claimed", approval |-> work[h].approval] \in Claims
        BY <1>3 DEF Claims, RequestStates
      <3> QED
        BY <2>1, <3>1, <3>2
    <2>4. RequestInv(r) /\ begun[r] = 0 /\ audit[r] = {}
      BY <1>6 DEF IInv, RequestInv
    <2>5. RequestInv(r)'
      BY <1>4, <1>6, <2>3, <2>4 DEF RequestInv, history
    <2>6. Alone(h, r)
      <3>1. ASSUME NEW g \in Handlers, Owns(g), work[g].request = r PROVE FALSE
        BY <1>6, <3>1, Owner
      <3> QED
        BY <3>1 DEF Alone
    <2>7. CASE o = "ok"
      <3>1. Moved(h, "received", work[h].verdict) /\ UNCHANGED opLock
        BY <1>1, <2>1, <2>7, GoMoves DEF Go, Steps
      <3>2. TypeOK'
        BY <1>1, <1>4, <2>2, <2>3, <3>1 DEF TypeOK, Moved, Works, Claims, history
      <3>3. Apart(h, r)
        BY <1>1, <1>4, <2>3, <3>1 DEF Apart, Moved, history
      <3>4. request'[r] = [state |-> "claimed", approval |-> work[h].approval]
        BY <2>3, <2>7 DEF Landed
      <3>5. \A g \in Handlers : Owns(g)' /\ work'[g].request = r => g = h
        BY <2>6, <3>1 DEF Alone, Owns, Admission, Moved
      <3>6. HandlerInv(h)'
        BY <1>1, <1>2, <1>3, <1>4, <2>4, <3>1, <3>4, <3>5
           DEF HandlerInv, Moved, Owns, Admission, BeforeTag, Terminal, history
      <3>7. work'[h].request = r
        BY <1>2, <3>1 DEF Moved
      <3> QED
        BY <1>2, <2>5, <2>6, <3>2, <3>3, <3>6, <3>7, OneRequest
    <2>8. CASE o # "ok"
      <3>1. Left(h) /\ opLock' \in Handlers \cup {Nobody}
        BY <1>1, <2>1, <2>8, EndLeaves
      <3>2. work'[h].at = "idle"
        BY <3>1 DEF Left, Idle
      <3>3. TypeOK'
        BY <1>1, <1>4, <2>2, <2>3, <3>1 DEF TypeOK, Left, Works, Claims, history
      <3>4. Apart(h, r)
        BY <1>1, <1>4, <2>3, <3>1 DEF Apart, Left, history
      <3>5. HandlerInv(h)'
        BY <3>2 DEF HandlerInv, Owns, Admission, BeforeTag
      <3> QED
        BY <1>2, <2>5, <2>6, <3>2, <3>3, <3>4, <3>5, OneRequest
    <2> QED
      BY <2>7, <2>8
  <1> QED
    BY <1>5, <1>6

(* A row that ends the handler's work when it cannot be written.            *)
LEMMA RowOrEnd ==
  ASSUME IInv, NEW h \in Handlers, work[h].at \in {"received", "refuse"},
         UNCHANGED <<request, spent, audit, latch, actor, deaths, deletions, history>>,
         NEW o \in Outcomes, NEW step \in {"verify", "finishRefused"},
         Write("audit", o) /\ (IF o = "ok" THEN Go(h, step) ELSE End(h))
  PROVE  IInv'
  <1>1. TypeOK
    BY DEF IInv
  <1>2. torn' \subseteq Logs /\ faults' \in Nat
    BY <1>1, WriteTypes DEF Logs
  <1>3. work[h].verdict \in {"none", "found", "absent", "measured", "partial", "unknown"}
    BY <1>1 DEF TypeOK
  <1>4. CASE o = "ok"
    <2>1. Moved(h, step, work[h].verdict) /\ UNCHANGED opLock
      BY <1>1, <1>4, GoMoves DEF Go, Steps
    <2>2. TypeOK'
      BY <1>1, <1>2, <2>1 DEF TypeOK, Moved, Works, history
    <2> QED
      BY <1>3, <2>1, <2>2, BeforeEffects DEF BeforeTag, history
  <1>5. CASE o # "ok"
    <2>1. Left(h) /\ opLock' \in Handlers \cup {Nobody}
      BY <1>1, <1>5, EndLeaves
    <2>2. TypeOK'
      BY <1>1, <1>2, <2>1 DEF TypeOK, Left, Works, history
    <2> QED
      BY <2>1, <2>2, BeforeEffects DEF BeforeTag, history
  <1> QED
    BY <1>4, <1>5

LEMMA ReceivedKeeps ==
  ASSUME IInv, NEW h \in Handlers, Received(h)
  PROVE  IInv'
  BY RowOrEnd DEF Received, At

LEMMA RefuseKeeps ==
  ASSUME IInv, NEW h \in Handlers, Refuse(h)
  PROVE  IInv'
  BY RowOrEnd DEF Refuse, At

(* The checks before the spend: each goes on or refuses.                    *)
LEMMA ChecksKeep ==
  ASSUME IInv, NEW h \in Handlers, Verify(h) \/ TakeLock(h) \/ Measure(h)
  PROVE  IInv'
  <1>1. TypeOK /\ work[h].at \in {"verify", "lock", "measure"}
    BY DEF IInv, Verify, TakeLock, Measure, At
  <1>2. UNCHANGED <<files, actor, counts, history>>
    BY DEF Verify, TakeLock, Measure
  <1>3. PICK step \in {"lock", "measure", "consume", "refuse"} :
          work' = [work EXCEPT ![h].at = step]
    BY DEF Verify, TakeLock, Measure, Go
  <1>4. opLock' \in {opLock, h}
    BY DEF Verify, TakeLock, Measure, Go
  <1>5. Moved(h, step, work[h].verdict)
    BY <1>1, <1>3, GoMoves DEF Steps
  <1>6. TypeOK'
    BY <1>1, <1>2, <1>4, <1>5 DEF TypeOK, Moved, Works, files, counts, history
  <1>7. work[h].verdict \in {"none", "found", "absent", "measured", "partial", "unknown"}
    BY <1>1 DEF TypeOK
  <1> QED
    BY <1>1, <1>2, <1>5, <1>6, <1>7, BeforeEffects DEF BeforeTag, files, history

LEMMA ConsumeKeeps ==
  ASSUME IInv, NEW h \in Handlers, Consume(h)
  PROVE  IInv'
  <1> DEFINE a == work[h].approval
  <1>1. TypeOK /\ work[h].at = "consume" /\ Owns(h)
    BY DEF IInv, Consume, At, Owns, Admission
  <1>2. UNCHANGED <<request, audit, latch, actor, deaths, deletions, history>>
    BY DEF Consume
  <1>3. work[h].verdict \in {"none", "found", "absent", "measured", "partial", "unknown"}
    BY <1>1 DEF TypeOK
  <1>4. CASE spent[a] # Nobody
    <2>1. Go(h, "refuse") /\ UNCHANGED <<spent, torn, faults>>
      BY <1>4 DEF Consume
    <2>2. Moved(h, "refuse", work[h].verdict)
      BY <1>1, <2>1, GoMoves DEF Go, Steps
    <2>3. TypeOK'
      BY <1>1, <1>2, <2>1, <2>2 DEF TypeOK, Moved, Works, Go, history
    <2> QED
      BY <1>1, <1>2, <1>3, <2>1, <2>2, <2>3, BeforeEffects DEF BeforeTag, history
  <1>5. CASE spent[a] = Nobody
    <2>1. PICK o \in Outcomes :
            /\ Write("store", o)
            /\ spent' = IF Landed(o) THEN [spent EXCEPT ![a] = work[h].request] ELSE spent
            /\ After(h, o, "consumed", "refuse")
      BY <1>5 DEF Consume
    <2>2. PICK r \in Requests :
            /\ r = work[h].request /\ work[h].approval \in Approvals
            /\ request[r].state = "claimed" /\ request[r].approval = work[h].approval
            /\ actor.at = "up" /\ Alone(h, r)
            /\ HandlerInv(h) /\ RequestInv(r)
      BY <1>1, Owner
    <2>3. torn' \subseteq Logs /\ faults' \in Nat
      BY <1>1, <2>1, WriteTypes DEF Logs
    <2>4. /\ spent' \in [Approvals -> Requests \cup {Nobody}]
          /\ \A b \in Approvals : \/ spent'[b] = spent[b]
                                  \/ b = a /\ spent[b] = Nobody /\ spent'[b] = r
          /\ Landed(o) => spent'[a] = r
      BY <1>1, <1>5, <2>1, <2>2 DEF TypeOK
    <2>5. PICK step \in {"consumed", "refuse"} :
            /\ Moved(h, step, work[h].verdict) /\ UNCHANGED opLock
            /\ step = "consumed" => o = "ok"
      BY <1>1, <2>1, GoMoves DEF After, Go, Steps
    <2>6. TypeOK'
      BY <1>1, <1>2, <2>3, <2>4, <2>5 DEF TypeOK, Moved, Works, history
    <2>7. Apart(h, r)
      BY <1>2, <2>2, <2>4, <2>5 DEF Apart, Moved, history
    <2>8. begun[r] = 0 /\ \A event \in Terminal : event \notin audit[r]
      BY <1>1, <2>2 DEF HandlerInv, BeforeTag
    <2>9. HandlerInv(h)'
      <3>1. \A g \in Handlers : Owns(g)' /\ work'[g].request = r => g = h
        BY <2>2, <2>5 DEF Alone, Owns, Admission, Moved
      <3>2. step = "consumed" => spent'[a] = r
        BY <2>4, <2>5 DEF Landed
      <3> QED
        BY <1>1, <1>2, <2>2, <2>5, <2>8, <3>1, <3>2 DEF HandlerInv, Moved, Owns, Admission, BeforeTag, history
    <2>10. RequestInv(r)'
      BY <1>2, <2>2, <2>4, <2>8, Names DEF RequestInv, history
    <2>11. work'[h].request = r
      BY <2>2, <2>5 DEF Moved
    <2> QED
      BY <2>2, <2>6, <2>7, <2>9, <2>10, <2>11, OneRequest
  <1> QED
    BY <1>4, <1>5

LEMMA ConsumedKeeps ==
  ASSUME IInv, NEW h \in Handlers, Consumed(h)
  PROVE  IInv'
  <1>1. TypeOK /\ work[h].at = "consumed" /\ Owns(h)
    BY DEF IInv, Consumed, At, Owns, Admission
  <1>2. UNCHANGED <<request, spent, latch, actor, deaths, deletions, history>>
    BY DEF Consumed
  <1>3. PICK r \in Requests :
          /\ r = work[h].request /\ work[h].approval \in Approvals
          /\ request[r].state = "claimed" /\ request[r].approval = work[h].approval
          /\ actor.at = "up" /\ Alone(h, r)
          /\ HandlerInv(h) /\ RequestInv(r)
    BY <1>1, Owner
  <1>4. PICK o \in Outcomes :
          /\ LogRow("CONSUMED", r, o)
          /\ IF o = "ok" THEN Go(h, "executing") ELSE Verdict(h, "absent")
    BY <1>3 DEF Consumed
  <1>5. /\ torn' \subseteq Logs /\ faults' \in Nat
        /\ audit' \in [Requests -> SUBSET Events]
        /\ audit'[r] = IF Landed(o) THEN audit[r] \cup {"CONSUMED"} ELSE audit[r]
        /\ \A q \in Requests : q # r => audit'[q] = audit[q]
    BY <1>1, <1>4, LogRows DEF Events, Terminal
  <1>6. PICK step \in {"executing", "remeasure"},
             verdict \in {"none", "found", "absent", "measured", "partial", "unknown"} :
          /\ Moved(h, step, verdict) /\ UNCHANGED opLock
          /\ step = "executing" => o = "ok" /\ verdict = work[h].verdict
          /\ step = "remeasure" => verdict = "absent"
    <2>1. CASE o = "ok"
      <3>1. Moved(h, "executing", work[h].verdict) /\ UNCHANGED opLock
        BY <1>1, <1>4, <2>1, GoMoves DEF Go, Steps
      <3> QED
        BY <1>1, <2>1, <3>1 DEF TypeOK
    <2>2. CASE o # "ok"
      <3>1. Moved(h, "remeasure", "absent") /\ UNCHANGED opLock
        BY <1>1, <1>4, <2>2, Moves DEF Verdict, Steps
      <3> QED
        BY <3>1
    <2> QED
      BY <2>1, <2>2
  <1>7. TypeOK'
    BY <1>1, <1>2, <1>5, <1>6 DEF TypeOK, Moved, Works, history
  <1>8. Apart(h, r)
    BY <1>2, <1>3, <1>5, <1>6 DEF Apart, Moved, history
  <1>9. \A g \in Handlers : Owns(g)' /\ work'[g].request = r => g = h
    BY <1>3, <1>6 DEF Alone, Owns, Admission, Moved
  <1>10. begun[r] = 0 /\ \A event \in Terminal : event \notin audit[r]
    BY <1>1, <1>3 DEF HandlerInv, BeforeTag, Terminal
  <1>11. HandlerInv(h)'
    BY <1>1, <1>2, <1>3, <1>5, <1>6, <1>9, <1>10
       DEF HandlerInv, Moved, Owns, Admission, BeforeTag, Terminal, Landed, history
  <1>12. work'[h].request = r
    BY <1>3, <1>6 DEF Moved
  <1>13. RequestInv(r)'
    BY <1>1, <1>2, <1>3, <1>5, <1>6, <1>10, <1>12
       DEF RequestInv, InHand, OnFile, Ending, Moved, Landed, history
  <1> QED
    BY <1>3, <1>7, <1>8, <1>9, <1>11, <1>12, <1>13, OneRequest

LEMMA ExecutingKeeps ==
  ASSUME IInv, NEW h \in Handlers, Executing(h)
  PROVE  IInv'
  <1>1. TypeOK /\ work[h].at = "executing" /\ Owns(h)
    BY DEF IInv, Executing, At, Owns, Admission
  <1>2. UNCHANGED <<request, spent, latch, actor, deaths, deletions, history>>
    BY DEF Executing
  <1>3. PICK r \in Requests :
          /\ r = work[h].request /\ work[h].approval \in Approvals
          /\ request[r].state = "claimed" /\ request[r].approval = work[h].approval
          /\ actor.at = "up" /\ Alone(h, r)
          /\ HandlerInv(h) /\ RequestInv(r)
    BY <1>1, Owner
  <1>4. PICK o \in Outcomes :
          /\ LogRow("EXECUTING", r, o)
          /\ IF o = "ok" THEN Go(h, "tag") ELSE Verdict(h, "absent")
    BY <1>3 DEF Executing
  <1>5. /\ torn' \subseteq Logs /\ faults' \in Nat
        /\ audit' \in [Requests -> SUBSET Events]
        /\ audit'[r] = IF Landed(o) THEN audit[r] \cup {"EXECUTING"} ELSE audit[r]
        /\ \A q \in Requests : q # r => audit'[q] = audit[q]
    BY <1>1, <1>4, LogRows DEF Events, Terminal
  <1>6. PICK step \in {"tag", "remeasure"},
             verdict \in {"none", "found", "absent", "measured", "partial", "unknown"} :
          /\ Moved(h, step, verdict) /\ UNCHANGED opLock
          /\ step = "tag" => o = "ok" /\ verdict = work[h].verdict
          /\ step = "remeasure" => verdict = "absent"
    <2>1. CASE o = "ok"
      <3>1. Moved(h, "tag", work[h].verdict) /\ UNCHANGED opLock
        BY <1>1, <1>4, <2>1, GoMoves DEF Go, Steps
      <3> QED
        BY <1>1, <2>1, <3>1 DEF TypeOK
    <2>2. CASE o # "ok"
      <3>1. Moved(h, "remeasure", "absent") /\ UNCHANGED opLock
        BY <1>1, <1>4, <2>2, Moves DEF Verdict, Steps
      <3> QED
        BY <3>1
    <2> QED
      BY <2>1, <2>2
  <1>7. TypeOK'
    BY <1>1, <1>2, <1>5, <1>6 DEF TypeOK, Moved, Works, history
  <1>8. Apart(h, r)
    BY <1>2, <1>3, <1>5, <1>6 DEF Apart, Moved, history
  <1>9. \A g \in Handlers : Owns(g)' /\ work'[g].request = r => g = h
    BY <1>3, <1>6 DEF Alone, Owns, Admission, Moved
  <1>10. begun[r] = 0 /\ \A event \in Terminal : event \notin audit[r]
    BY <1>1, <1>3 DEF HandlerInv, BeforeTag, Terminal
  <1>11. HandlerInv(h)'
    BY <1>1, <1>2, <1>3, <1>5, <1>6, <1>9, <1>10
       DEF HandlerInv, Moved, Owns, Admission, BeforeTag, Terminal, Landed, history
  <1>12. work'[h].request = r
    BY <1>3, <1>6 DEF Moved
  <1>13. RequestInv(r)'
    BY <1>1, <1>2, <1>3, <1>5, <1>6, <1>10, <1>12
       DEF RequestInv, InHand, OnFile, Ending, Moved, Landed, history
  <1> QED
    BY <1>3, <1>7, <1>8, <1>9, <1>11, <1>12, <1>13, OneRequest

LEMMA CompletedKeeps ==
  ASSUME IInv, NEW h \in Handlers, Completed(h)
  PROVE  IInv'
  <1>1. TypeOK /\ work[h].at = "completed" /\ Owns(h)
    BY DEF IInv, Completed, At, Owns, Admission
  <1>2. UNCHANGED <<request, spent, latch, actor, deaths, deletions, history>>
    BY DEF Completed
  <1>3. PICK r \in Requests :
          /\ r = work[h].request /\ work[h].approval \in Approvals
          /\ request[r].state = "claimed" /\ request[r].approval = work[h].approval
          /\ actor.at = "up" /\ Alone(h, r)
          /\ HandlerInv(h) /\ RequestInv(r)
    BY <1>1, Owner
  <1>4. PICK o \in Outcomes :
          /\ LogRow("COMPLETED", r, o)
          /\ IF o = "ok" THEN Go(h, "finish") ELSE Verdict(h, "measured")
    BY <1>3 DEF Completed
  <1>5. /\ torn' \subseteq Logs /\ faults' \in Nat
        /\ audit' \in [Requests -> SUBSET Events]
        /\ audit'[r] = IF Landed(o) THEN audit[r] \cup {"COMPLETED"} ELSE audit[r]
        /\ \A q \in Requests : q # r => audit'[q] = audit[q]
    BY <1>1, <1>4, LogRows DEF Events, Terminal
  <1>6. PICK step \in {"finish", "remeasure"},
             verdict \in {"none", "found", "absent", "measured", "partial", "unknown"} :
          /\ Moved(h, step, verdict) /\ UNCHANGED opLock
          /\ step = "finish" => o = "ok" /\ verdict = work[h].verdict
          /\ step = "remeasure" => verdict = "measured"
    <2>1. CASE o = "ok"
      <3>1. Moved(h, "finish", work[h].verdict) /\ UNCHANGED opLock
        BY <1>1, <1>4, <2>1, GoMoves DEF Go, Steps
      <3> QED
        BY <1>1, <2>1, <3>1 DEF TypeOK
    <2>2. CASE o # "ok"
      <3>1. Moved(h, "remeasure", "measured") /\ UNCHANGED opLock
        BY <1>1, <1>4, <2>2, Moves DEF Verdict, Steps
      <3> QED
        BY <3>1
    <2> QED
      BY <2>1, <2>2
  <1>7. TypeOK'
    BY <1>1, <1>2, <1>5, <1>6 DEF TypeOK, Moved, Works, history
  <1>8. Apart(h, r)
    BY <1>2, <1>3, <1>5, <1>6 DEF Apart, Moved, history
  <1>9. \A g \in Handlers : Owns(g)' /\ work'[g].request = r => g = h
    BY <1>3, <1>6 DEF Alone, Owns, Admission, Moved
  <1>10. begun[r] > 0 /\ r \in built
    BY <1>1, <1>3 DEF HandlerInv, BeforeTag, Terminal
  <1>11. HandlerInv(h)'
    BY <1>1, <1>2, <1>3, <1>5, <1>6, <1>9, <1>10
       DEF HandlerInv, Moved, Owns, Admission, BeforeTag, Terminal, Landed, history
  <1>12. work'[h].request = r
    BY <1>3, <1>6 DEF Moved
  <1>13. RequestInv(r)'
    BY <1>1, <1>2, <1>3, <1>5, <1>6, <1>10, <1>12
       DEF RequestInv, InHand, OnFile, Ending, Moved, Landed, history
  <1> QED
    BY <1>3, <1>7, <1>8, <1>9, <1>11, <1>12, <1>13, OneRequest

(* The last row of a request, true whether it lands or not.                 *)
LEMMA EndingKeeps ==
  ASSUME IInv, NEW h \in Handlers, Owns(h), End(h),
         UNCHANGED <<spent, audit, latch, actor, deaths, deletions, history>>,
         NEW o \in Outcomes, NEW state \in {"completed", "refused", "partial", "unknown"},
         NEW r \in Requests, r = work[h].request, SetState(r, state, o),
         state = "completed" => begun[r] > 0 /\ r \in built /\ "COMPLETED" \in audit[r],
         state = "refused" => begun[r] = 0,
         \/ begun[r] = 0 \/ "COMPLETED" \in audit[r]
         \/ /\ actor.latched \/ "overwritten" \in slips
            /\ latch = "absent" => "lost" \in slips
  PROVE  IInv'
  <1>1. /\ request[r].state = "claimed" /\ request[r].approval = work[h].approval
        /\ actor.at = "up" /\ Alone(h, r) /\ RequestInv(r) /\ TypeOK
    BY Owner
  <1>2. /\ torn' \subseteq Logs /\ faults' \in Nat
        /\ request' \in [Requests -> Claims]
        /\ request'[r].approval = request[r].approval
        /\ request'[r].state = IF Landed(o) THEN state ELSE request[r].state
        /\ \A q \in Requests : q # r => request'[q] = request[q]
    BY <1>1, StatesSet DEF RequestStates
  <1>3. Left(h) /\ opLock' \in Handlers \cup {Nobody}
    BY <1>1, EndLeaves
  <1>4. work'[h].at = "idle"
    BY <1>3 DEF Left, Idle
  <1>5. TypeOK'
    BY <1>1, <1>2, <1>3 DEF TypeOK, Left, Works, Claims, history
  <1>6. Apart(h, r)
    BY <1>1, <1>2, <1>3 DEF Apart, Left, history
  <1>7. HandlerInv(h)'
    BY <1>4 DEF HandlerInv, Owns, Admission, BeforeTag
  <1>8. RequestInv(r)'
    BY <1>1, <1>2 DEF RequestInv, OnFile, history
  <1> QED
    BY <1>1, <1>4, <1>5, <1>6, <1>7, <1>8, OneRequest

LEMMA FinishKeeps ==
  ASSUME IInv, NEW h \in Handlers, Finish(h)
  PROVE  IInv'
  <1>1. Owns(h) /\ work[h].at = "finish"
    BY DEF Finish, At, Owns, Admission
  <1>2. PICK r \in Requests : r = work[h].request /\ HandlerInv(h)
    BY <1>1, Owner
  <1>3. begun[r] > 0 /\ r \in built /\ "COMPLETED" \in audit[r]
    BY <1>1, <1>2 DEF HandlerInv
  <1> QED
    BY <1>1, <1>2, <1>3, EndingKeeps DEF Finish

LEMMA FinishRefusedKeeps ==
  ASSUME IInv, NEW h \in Handlers, FinishRefused(h)
  PROVE  IInv'
  <1>1. Owns(h) /\ work[h].at = "finishRefused"
    BY DEF FinishRefused, At, Owns, Admission
  <1>2. PICK r \in Requests : r = work[h].request /\ HandlerInv(h)
    BY <1>1, Owner
  <1>3. begun[r] = 0
    BY <1>1, <1>2 DEF HandlerInv, BeforeTag
  <1> QED
    BY <1>1, <1>2, <1>3, EndingKeeps DEF FinishRefused

LEMMA FinishFailedKeeps ==
  ASSUME IInv, NEW h \in Handlers, FinishFailed(h)
  PROVE  IInv'
  <1>1. Owns(h) /\ work[h].at = "finishFailed"
    BY DEF FinishFailed, At, Owns, Admission
  <1>2. PICK r \in Requests : r = work[h].request /\ HandlerInv(h)
    BY <1>1, Owner
  <1>3. /\ actor.latched \/ "overwritten" \in slips
        /\ latch = "absent" => "lost" \in slips
    BY <1>1, <1>2 DEF HandlerInv
  <1> QED
    BY <1>1, <1>2, <1>3, EndingKeeps DEF FinishFailed

LEMMA TagKeeps ==
  ASSUME IInv, NEW h \in Handlers, Tag(h)
  PROVE  IInv'
  <1>1. TypeOK /\ work[h].at = "tag" /\ Owns(h)
    BY DEF IInv, Tag, At, Owns, Admission
  <1>2. UNCHANGED <<files, actor, counts, built, stopped, slips>>
    BY DEF Tag
  <1>3. PICK r \in Requests :
          /\ r = work[h].request /\ work[h].approval \in Approvals
          /\ request[r].state = "claimed" /\ request[r].approval = work[h].approval
          /\ actor.at = "up" /\ Alone(h, r)
          /\ HandlerInv(h) /\ RequestInv(r)
    BY <1>1, Owner
  <1>4. begun[r] = 0 /\ \A event \in Terminal : event \notin audit[r]
    BY <1>1, <1>3 DEF HandlerInv, BeforeTag
  <1>5. CASE Verdict(h, "measured") /\ UNCHANGED begun
    <2>1. Moved(h, "remeasure", "measured") /\ UNCHANGED opLock
      BY <1>1, <1>5, Moves DEF Verdict, Steps
    <2>2. TypeOK'
      BY <1>1, <1>2, <1>5, <2>1 DEF TypeOK, Moved, Works, files, counts
    <2> QED
      BY <1>1, <1>2, <1>5, <2>1, <2>2, BeforeEffects DEF BeforeTag, files
  <1>6. CASE /\ begun' = [begun EXCEPT ![work[h].request] = @ + 1]
             /\ Go(h, "build") \/ Verdict(h, "measured")
    <2>1. /\ begun' \in [Requests -> Nat] /\ begun'[r] = 1
          /\ \A q \in Requests : q # r => begun'[q] = begun[q]
      BY <1>1, <1>3, <1>4, <1>6 DEF TypeOK
    <2>2. PICK step \in {"build", "remeasure"},
               verdict \in {"none", "found", "absent", "measured", "partial", "unknown"} :
            /\ Moved(h, step, verdict) /\ UNCHANGED opLock
            /\ verdict \in {work[h].verdict, "measured"}
      <3>1. CASE Go(h, "build")
        <4>1. Moved(h, "build", work[h].verdict) /\ UNCHANGED opLock
          BY <1>1, <3>1, GoMoves DEF Go, Steps
        <4> QED
          BY <1>1, <4>1 DEF TypeOK
      <3>2. CASE Verdict(h, "measured")
        BY <1>1, <3>2, Moves DEF Verdict, Steps
      <3> QED
        BY <1>6, <3>1, <3>2
    <2>3. TypeOK'
      BY <1>1, <1>2, <2>1, <2>2 DEF TypeOK, Moved, Works, files, counts
    <2>4. Apart(h, r)
      BY <1>2, <1>3, <2>1, <2>2 DEF Apart, Moved, files
    <2>5. \A g \in Handlers : Owns(g)' /\ work'[g].request = r => g = h
      BY <1>3, <2>2 DEF Alone, Owns, Admission, Moved
    <2>6. HandlerInv(h)'
      BY <1>1, <1>2, <1>3, <2>1, <2>2, <2>5 DEF HandlerInv, Moved, Owns, Admission, BeforeTag, files
    <2>7. work'[h].request = r
      BY <1>3, <2>2 DEF Moved
    <2>8. RequestInv(r)'
      <3>1. /\ spent[request[r].approval] = r /\ "CONSUMED" \in audit[r] /\ "EXECUTING" \in audit[r]
        BY <1>1, <1>3 DEF HandlerInv
      <3>2. InHand(r)'
        BY <2>2, <2>7 DEF InHand, Moved
      <3> QED
        BY <1>2, <1>3, <1>4, <2>1, <3>1, <3>2 DEF RequestInv, Terminal, files
    <2> QED
      BY <1>3, <2>3, <2>4, <2>6, <2>7, <2>8, OneRequest
  <1> QED
    BY <1>5, <1>6 DEF Tag

LEMMA BuildKeeps ==
  ASSUME IInv, NEW h \in Handlers, Build(h)
  PROVE  IInv'
  <1>1. TypeOK /\ work[h].at = "build" /\ Owns(h)
    BY DEF IInv, Build, At, Owns, Admission
  <1>2. UNCHANGED <<files, actor, counts, begun, stopped, slips>>
    BY DEF Build
  <1>3. PICK r \in Requests :
          /\ r = work[h].request /\ work[h].approval \in Approvals
          /\ request[r].state = "claimed" /\ request[r].approval = work[h].approval
          /\ actor.at = "up" /\ Alone(h, r)
          /\ HandlerInv(h) /\ RequestInv(r)
    BY <1>1, Owner
  <1>4. built' \in {built, built \cup {r}}
    BY <1>3 DEF Build
  <1>5. PICK step \in {"completed", "remeasure"},
             verdict \in {"none", "found", "absent", "measured", "partial", "unknown"} :
          /\ Moved(h, step, verdict) /\ UNCHANGED opLock
          /\ verdict \in {work[h].verdict, "measured"}
          /\ step = "completed" => r \in built'
    <2>1. CASE built' = built \cup {r} /\ Go(h, "completed")
      <3>1. Moved(h, "completed", work[h].verdict) /\ UNCHANGED opLock
        BY <1>1, <2>1, GoMoves DEF Go, Steps
      <3> QED
        BY <1>1, <2>1, <3>1 DEF TypeOK
    <2>2. CASE Verdict(h, "measured")
      BY <1>1, <2>2, Moves DEF Verdict, Steps
    <2> QED
      BY <1>3, <2>1, <2>2 DEF Build
  <1>6. begun[r] > 0
    BY <1>1, <1>3 DEF HandlerInv
  <1>7. TypeOK'
    BY <1>1, <1>2, <1>4, <1>5 DEF TypeOK, Moved, Works, files, counts
  <1>8. work'[h].request = r
    BY <1>3, <1>5 DEF Moved
  <1>9. Apart(h, r)
    BY <1>2, <1>3, <1>4, <1>5 DEF Apart, Moved, TypeOK, files, history
  <1>10. HandlerInv(h)'
    <2>1. \A g \in Handlers : Owns(g)' /\ work'[g].request = r => g = h
      BY <1>3, <1>5 DEF Alone, Owns, Admission, Moved
    <2> QED
      BY <1>1, <1>2, <1>3, <1>4, <1>5, <1>6, <2>1
         DEF HandlerInv, Moved, Owns, Admission, BeforeTag, files, history
  <1>11. RequestInv(r)'
    BY <1>1, <1>2, <1>3, <1>4, <1>5, <1>6, <1>8
       DEF RequestInv, InHand, OnFile, Ending, Moved, files, history
  <1> QED
    BY <1>3, <1>7, <1>8, <1>9, <1>10, <1>11, OneRequest

LEMMA RemeasureKeeps ==
  ASSUME IInv, NEW h \in Handlers, Remeasure(h)
  PROVE  IInv'
  <1>1. TypeOK /\ work[h].at = "remeasure" /\ Owns(h)
    BY DEF IInv, Remeasure, At, Owns, Admission
  <1>2. UNCHANGED <<files, opLock, counts, begun, built, slips>> /\ stopped' = TRUE
    BY DEF Remeasure
  <1>3. PICK r \in Requests :
          /\ r = work[h].request /\ work[h].approval \in Approvals
          /\ request[r].state = "claimed" /\ request[r].approval = work[h].approval
          /\ actor.at = "up" /\ Alone(h, r)
          /\ HandlerInv(h) /\ RequestInv(r)
    BY <1>1, Owner
  <1>4. /\ actor' \in Lives /\ actor'.at = "up" /\ actor'.latched = TRUE
    BY <1>1, <1>3 DEF Remeasure, TypeOK, Lives
  <1>5. PICK verdict \in {"absent", "partial", "unknown"} :
          Moved(h, "failed", verdict) /\ (verdict = "absent" => work[h].verdict = "absent")
    BY <1>1, Moves DEF Remeasure, Steps
  <1>6. work[h].verdict = "absent" => begun[r] = 0
    BY <1>1, <1>3 DEF HandlerInv
  <1>7. TypeOK'
    BY <1>1, <1>2, <1>4, <1>5 DEF TypeOK, Moved, Works, Lives, files, counts
  <1>8. work'[h].request = r
    BY <1>3, <1>5 DEF Moved
  <1>9. Apart(h, r)
    BY <1>2, <1>3, <1>4, <1>5 DEF Apart, Moved, TypeOK, files, history
  <1>10. HandlerInv(h)'
    <2>1. \A g \in Handlers : Owns(g)' /\ work'[g].request = r => g = h
      BY <1>3, <1>5 DEF Alone, Owns, Admission, Moved
    <2> QED
      BY <1>1, <1>2, <1>3, <1>4, <1>5, <1>6, <2>1
         DEF HandlerInv, Moved, Owns, Admission, BeforeTag, files, history
  <1>11. RequestInv(r)'
    BY <1>1, <1>2, <1>3, <1>4, <1>5, <1>6, <1>8
       DEF RequestInv, InHand, OnFile, Ending, Moved, files, history
  <1> QED
    BY <1>3, <1>7, <1>8, <1>9, <1>10, <1>11, OneRequest

LEMMA FailedKeeps ==
  ASSUME IInv, NEW h \in Handlers, Failed(h)
  PROVE  IInv'
  <1>1. TypeOK /\ work[h].at = "failed" /\ Owns(h)
    BY DEF IInv, Failed, At, Owns, Admission
  <1>2. UNCHANGED <<request, spent, latch, actor, opLock, deaths, deletions, history>>
    BY DEF Failed
  <1>3. PICK r \in Requests :
          /\ r = work[h].request /\ work[h].approval \in Approvals
          /\ request[r].state = "claimed" /\ request[r].approval = work[h].approval
          /\ actor.at = "up" /\ Alone(h, r)
          /\ HandlerInv(h) /\ RequestInv(r)
    BY <1>1, Owner
  <1>4. PICK o \in Outcomes :
          /\ torn' \subseteq Logs /\ faults' \in Nat
          /\ audit' \in [Requests -> SUBSET Events]
          /\ audit'[r] \in {audit[r], audit[r] \cup {FailureRow(work[h].verdict)}}
          /\ \A q \in Requests : q # r => audit'[q] = audit[q]
          /\ work' = [work EXCEPT ![h].at = "setLatch",
                                  ![h].verdict = IF o = "ok" THEN @ ELSE "unknown"]
    <2>1. PICK o \in Outcomes :
            /\ LogRow(FailureRow(work[h].verdict), r, o)
            /\ work' = [work EXCEPT ![h].at = "setLatch",
                                    ![h].verdict = IF o = "ok" THEN @ ELSE "unknown"]
      BY <1>3 DEF Failed
    <2>2. FailureRow(work[h].verdict) \in Events
      BY DEF FailureRow, Events, Terminal
    <2> HIDE DEF FailureRow
    <2> QED
      BY <1>1, <2>1, <2>2, LogRows
  <1>5. PICK verdict \in {"none", "found", "absent", "measured", "partial", "unknown"} :
          /\ Moved(h, "setLatch", verdict)
          /\ verdict \in {work[h].verdict, "unknown"}
    <2>1. work[h].verdict \in {"none", "found", "absent", "measured", "partial", "unknown"}
      BY <1>1 DEF TypeOK
    <2>2. CASE o = "ok"
      BY <1>1, <1>4, <2>1, <2>2, Moves DEF Steps
    <2>3. CASE o # "ok"
      BY <1>1, <1>4, <2>3, Moves DEF Steps
    <2> QED
      BY <2>2, <2>3
  <1>6. /\ actor.latched \/ "overwritten" \in slips
        /\ "FAILED_NOT_STARTED" \in audit'[r] => "FAILED_NOT_STARTED" \in audit[r] \/ begun[r] = 0
    BY <1>1, <1>3, <1>4 DEF HandlerInv, FailureRow
  <1>7. TypeOK'
    BY <1>1, <1>2, <1>4, <1>5 DEF TypeOK, Moved, Works, history
  <1>8. work'[h].request = r
    BY <1>3, <1>5 DEF Moved
  <1>9. Apart(h, r)
    BY <1>2, <1>3, <1>4, <1>5 DEF Apart, Moved, TypeOK, files, history
  <1>10. HandlerInv(h)'
    <2>1. \A g \in Handlers : Owns(g)' /\ work'[g].request = r => g = h
      BY <1>3, <1>5 DEF Alone, Owns, Admission, Moved
    <2> QED
      BY <1>1, <1>2, <1>3, <1>4, <1>5, <1>6, <2>1
         DEF HandlerInv, Moved, Owns, Admission, BeforeTag, files, history
  <1>11. RequestInv(r)'
    BY <1>1, <1>2, <1>3, <1>4, <1>5, <1>6, <1>8
       DEF RequestInv, InHand, OnFile, Ending, Moved, files, history
  <1> QED
    BY <1>3, <1>7, <1>8, <1>9, <1>10, <1>11, OneRequest

LEMMA SetLatchKeeps ==
  ASSUME IInv, NEW h \in Handlers, SetLatch(h)
  PROVE  IInv'
  <1>1. TypeOK /\ work[h].at = "setLatch" /\ Owns(h)
    BY DEF IInv, SetLatch, At, Owns, Admission
  <1>2. UNCHANGED <<request, spent, audit, actor, deaths, deletions, begun, built, stopped>>
    BY DEF SetLatch
  <1>3. PICK r \in Requests :
          /\ r = work[h].request /\ work[h].approval \in Approvals
          /\ request[r].state = "claimed" /\ request[r].approval = work[h].approval
          /\ actor.at = "up" /\ Alone(h, r)
          /\ HandlerInv(h) /\ RequestInv(r)
    BY <1>1, Owner
  <1>4. /\ latch' \in {"absent", "set", "unreadable"}
        /\ torn' \subseteq Logs /\ faults' \in Nat
        /\ slips' \in {slips, slips \cup {"lost"}}
        /\ latch' = "absent" => latch = "absent" /\ "lost" \in slips'
    <2>1. CASE LatchFails
      BY <1>1, <2>1 DEF LatchFails, TypeOK
    <2>2. CASE latch = "unreadable" /\ UNCHANGED <<latch, torn, faults, slips>>
      BY <1>1, <2>2 DEF TypeOK
    <2>3. CASE latch' = "set" /\ (\E o \in Outcomes : Write("audit", o)) /\ UNCHANGED slips
      BY <1>1, <2>3, WriteTypes DEF Logs
    <2> QED
      BY <2>1, <2>2, <2>3 DEF SetLatch
  <1>5. Moved(h, "finishFailed", work[h].verdict) /\ UNCHANGED opLock
    BY <1>1, GoMoves DEF SetLatch, Go, Steps
  <1>6. actor.latched \/ "overwritten" \in slips
    BY <1>1, <1>3 DEF HandlerInv
  <1>7. TypeOK'
    BY <1>1, <1>2, <1>4, <1>5 DEF TypeOK, Moved, Works, history
  <1>8. work'[h].request = r
    BY <1>3, <1>5 DEF Moved
  <1>9. Apart(h, r)
    BY <1>2, <1>3, <1>4, <1>5, <1>6 DEF Apart, Moved, TypeOK, history
  <1>10. HandlerInv(h)'
    <2>1. \A g \in Handlers : Owns(g)' /\ work'[g].request = r => g = h
      BY <1>3, <1>5 DEF Alone, Owns, Admission, Moved
    <2> QED
      BY <1>1, <1>2, <1>3, <1>4, <1>5, <1>6, <2>1
         DEF HandlerInv, Moved, Owns, Admission, BeforeTag, files, history
  <1>11. RequestInv(r)'
    BY <1>1, <1>2, <1>3, <1>4, <1>5, <1>6, <1>8
       DEF RequestInv, InHand, OnFile, Ending, Moved, files, history
  <1> QED
    BY <1>3, <1>7, <1>8, <1>9, <1>10, <1>11, OneRequest
-----------------------------------------------------------------------------
(* The process.  No handler has anything in hand unless the door is open.   *)
LEMMA BootingIsQuiet ==
  ASSUME IInv, Booting, actor.at # "up"
  PROVE  /\ TypeOK /\ \A h \in Handlers : work[h].at = "idle"
         /\ \A h \in Handlers : HandlerInv(h)'
         /\ \A r \in Requests : RequestInv(r)
         /\ UNCHANGED <<opLock, work, deaths, deletions>>
  <1>1. \A h \in Handlers : work[h].at = "idle"
    BY DEF IInv, HandlerInv
  <1>2. \A h \in Handlers : work'[h].at = "idle"
    BY <1>1 DEF Booting
  <1>3. \A h \in Handlers : HandlerInv(h)'
    BY <1>2 DEF HandlerInv, Owns, Admission, BeforeTag
  <1> QED
    BY <1>1, <1>3 DEF Booting, IInv

LEMMA DieKeeps == IInv /\ Die => IInv'
  <1> SUFFICES ASSUME IInv, Die PROVE IInv'
    OBVIOUS
  <1>1. /\ UNCHANGED <<request, spent, audit, faults, deletions, history>>
        /\ actor' = Down /\ deaths' = deaths + 1 /\ opLock' = Nobody
        /\ work' = [h \in Handlers |-> Idle]
    BY DEF Die
  <1>2. latch' \in {latch, "unreadable"} /\ torn' \subseteq Logs
    <2>1. torn \subseteq Logs
      BY DEF IInv, TypeOK
    <2>2. latch' = latch \/ latch' = "unreadable"
      BY DEF Die
    <2>3. torn' = torn \/ \E log \in Logs : torn' = torn \cup {log}
      BY DEF Die
    <2> QED
      BY <2>1, <2>2, <2>3
  <1>3. TypeOK'
    BY <1>1, <1>2 DEF IInv, TypeOK, Idle, Down, Steps, Phases, history
  <1>4. \A h \in Handlers : work'[h].at = "idle"
    BY <1>1 DEF Idle
  <1>5. \A h \in Handlers : HandlerInv(h)'
    BY <1>4 DEF HandlerInv, Owns, Admission, BeforeTag
  <1>6. actor'.at = "down"
    BY <1>1 DEF Down
  <1>7. \A r \in Requests : RequestInv(r)'
    BY <1>1, <1>6 DEF IInv, RequestInv, history
  <1> QED
    BY <1>3, <1>5, <1>6, <1>7 DEF IInv, StartInv

LEMMA DeleteLatchKeeps == IInv /\ DeleteLatch => IInv'
  <1> SUFFICES ASSUME IInv, DeleteLatch PROVE IInv'
    OBVIOUS
  <1>1. /\ UNCHANGED <<request, spent, audit, torn, actor, opLock, work, deaths, faults,
                       begun, built, stopped>>
        /\ latch' = "absent" /\ deletions' = deletions + 1
        /\ slips' = slips \cup {"lost"}
    BY DEF DeleteLatch
  <1>2. TypeOK'
    BY <1>1 DEF IInv, TypeOK
  <1>3. StartInv'
    BY <1>1 DEF IInv, StartInv, Unfinished
  <1>4. \A h \in Handlers : HandlerInv(h)'
    BY <1>1 DEF IInv, HandlerInv, Owns, Admission
  <1>5. \A r \in Requests : RequestInv(r)'
    BY <1>1 DEF IInv, RequestInv, InHand, OnFile
  <1> QED
    BY <1>2, <1>3, <1>4, <1>5 DEF IInv

LEMMA StartKeeps == IInv /\ Start => IInv'
  <1> SUFFICES ASSUME IInv, Start PROVE IInv'
    OBVIOUS
  <1>1. /\ actor.at = "down" /\ Booting /\ slips' = {}
        /\ UNCHANGED <<files, faults, begun, built, stopped>>
    BY DEF Start
  <1>2. /\ TypeOK
        /\ \A h \in Handlers : HandlerInv(h)'
        /\ \A r \in Requests : RequestInv(r)
        /\ UNCHANGED <<opLock, work, deaths, deletions>>
    BY <1>1, BootingIsQuiet
  <1>3. /\ actor' \in Lives /\ actor'.at \in {"judge", "mark"}
        /\ actor'.at = "judge" => actor'.doubt
        /\ actor'.at = "mark" => actor'.todo = Unfinished /\ "audit" \notin torn
    <2>1. CASE "audit" \in torn
      BY <2>1 DEF Start, Down, Lives, Phases
    <2>2. CASE "audit" \notin torn
      <3>1. actor' = [Down EXCEPT !.at = "mark", !.doubt = ~ CrossChecked, !.todo = Unfinished]
        BY <2>2 DEF Start
      <3>2. (~ CrossChecked) \in BOOLEAN /\ Unfinished \in SUBSET Requests
        BY DEF CrossChecked, Unfinished
      <3> QED
        BY <2>2, <3>1, <3>2 DEF Down, Lives, Phases
    <2> QED
      BY <2>1, <2>2
  <1>4. TypeOK'
    BY <1>1, <1>2, <1>3 DEF TypeOK, Lives, files
  <1>5. StartInv'
    <2>1. Unfinished' = Unfinished
      BY <1>1 DEF Unfinished, files
    <2>2. \A r \in Unfinished : request[r].state # "none"
      BY <1>2 DEF RequestInv, Unfinished
    <2> QED
      BY <1>1, <1>3, <2>1, <2>2 DEF StartInv, files
  <1>6. \A r \in Requests : RequestInv(r)'
    BY <1>1, <1>2, <1>3 DEF RequestInv, files
  <1> QED
    BY <1>2, <1>4, <1>5, <1>6 DEF IInv

LEMMA MarkUnknownKeeps ==
  ASSUME IInv, NEW r \in Requests, MarkUnknown(r)
  PROVE  IInv'
  <1>1. /\ actor.at = "mark" /\ r \in Claimed /\ Booting
        /\ UNCHANGED <<spent, audit, latch, history>>
    BY DEF MarkUnknown
  <1>2. /\ TypeOK
        /\ \A h \in Handlers : HandlerInv(h)'
        /\ \A q \in Requests : RequestInv(q)
        /\ UNCHANGED <<opLock, work, deaths, deletions>>
    BY <1>1, BootingIsQuiet
  <1>3. PICK o \in Outcomes :
          /\ SetState(r, "unknown", o)
          /\ actor' = IF o = "ok" THEN [actor EXCEPT !.todo = @ \cup {r}] ELSE Down
    BY DEF MarkUnknown
  <1>4. /\ torn' \subseteq Logs /\ faults' \in Nat
        /\ request' \in [Requests -> Claims]
        /\ request'[r].approval = request[r].approval
        /\ request'[r].state = IF Landed(o) THEN "unknown" ELSE request[r].state
        /\ \A q \in Requests : q # r => request'[q] = request[q]
    BY <1>2, <1>3, StatesSet DEF RequestStates
  <1>5. /\ actor' \in Lives /\ actor'.at \in {"mark", "down"}
        /\ actor'.at = "mark" => o = "ok" /\ actor'.todo = actor.todo \cup {r}
    BY <1>1, <1>2, <1>3 DEF TypeOK, Lives, Down, Phases
  <1>6. TypeOK'
    BY <1>1, <1>2, <1>4, <1>5 DEF TypeOK, Claims, Lives, history
  <1>7. StartInv'
    <2>1. SUFFICES ASSUME actor'.at = "mark"
          PROVE  /\ Unfinished' \subseteq actor'.todo
                 /\ \A q \in actor'.todo : request'[q].state # "none"
                 /\ "audit" \notin torn'
      BY <1>5 DEF StartInv
    <2>2. o = "ok" /\ actor'.todo = actor.todo \cup {r}
      BY <1>5, <2>1
    <2>3. /\ Unfinished \subseteq actor.todo /\ "audit" \notin torn
          /\ \A q \in actor.todo : request[q].state # "none"
      BY <1>1 DEF IInv, StartInv
    <2>4. Unfinished' = Unfinished
      BY <1>1 DEF Unfinished
    <2>5. torn' = torn
      BY <1>3, <2>2 DEF SetState, Write
    <2>6. request'[r].state = "unknown"
      BY <1>4, <2>2 DEF Landed
    <2>7. actor.todo \subseteq Requests
      BY <1>2 DEF TypeOK
    <2> QED
      BY <1>4, <2>2, <2>3, <2>4, <2>5, <2>6, <2>7
  <1>8. \A q \in Requests : RequestInv(q)'
    <2>1. RequestInv(r)'
      BY <1>1, <1>2, <1>4, <1>5 DEF RequestInv, Claimed, history
    <2>2. ASSUME NEW q \in Requests, q # r PROVE RequestInv(q)'
      BY <1>1, <1>2, <1>4, <1>5, <2>2 DEF RequestInv, history
    <2> QED
      BY <2>1, <2>2
  <1> QED
    BY <1>2, <1>6, <1>7, <1>8 DEF IInv

LEMMA RecordUnknownKeeps ==
  ASSUME IInv, NEW r \in Requests, RecordUnknown(r)
  PROVE  IInv'
  <1>1. /\ actor.at = "mark" /\ r \in actor.todo /\ Booting
        /\ UNCHANGED <<request, spent, latch, history>>
    BY DEF RecordUnknown
  <1>2. /\ TypeOK
        /\ \A h \in Handlers : HandlerInv(h)'
        /\ \A q \in Requests : RequestInv(q)
        /\ UNCHANGED <<opLock, work, deaths, deletions>>
    BY <1>1, BootingIsQuiet
  <1>3. PICK o \in Outcomes :
          /\ LogRow("RECONCILED_UNKNOWN", r, o)
          /\ actor' = IF o = "ok" THEN [actor EXCEPT !.todo = @ \ {r}] ELSE Down
    BY DEF RecordUnknown
  <1>4. /\ torn' \subseteq Logs /\ faults' \in Nat
        /\ audit' \in [Requests -> SUBSET Events]
        /\ audit'[r] = IF Landed(o) THEN audit[r] \cup {"RECONCILED_UNKNOWN"} ELSE audit[r]
        /\ \A q \in Requests : q # r => audit'[q] = audit[q]
    BY <1>2, <1>3, LogRows DEF Events, Terminal
  <1>5. /\ actor' \in Lives /\ actor'.at \in {"mark", "down"}
        /\ actor'.at = "mark" => o = "ok" /\ actor'.todo = actor.todo \ {r}
    BY <1>1, <1>2, <1>3 DEF TypeOK, Lives, Down, Phases
  <1>6. TypeOK'
    BY <1>1, <1>2, <1>4, <1>5 DEF TypeOK, Lives, history
  <1>7. /\ Unfinished \subseteq actor.todo /\ "audit" \notin torn
        /\ \A q \in actor.todo : request[q].state # "none"
    BY <1>1 DEF IInv, StartInv
  <1>8. StartInv'
    <2>1. SUFFICES ASSUME actor'.at = "mark"
          PROVE  /\ Unfinished' \subseteq actor'.todo
                 /\ \A q \in actor'.todo : request'[q].state # "none"
                 /\ "audit" \notin torn'
      BY <1>5 DEF StartInv
    <2>2. o = "ok" /\ actor'.todo = actor.todo \ {r}
      BY <1>5, <2>1
    <2>3. torn' = torn
      BY <1>3, <2>2 DEF LogRow, Write
    <2>4. "RECONCILED_UNKNOWN" \in audit'[r]
      BY <1>4, <2>2 DEF Landed
    <2>5. \A q \in Unfinished' : q # r /\ q \in Unfinished
      BY <1>4, <2>4 DEF Unfinished, Terminal
    <2> QED
      BY <1>1, <1>7, <2>2, <2>3, <2>5
  <1>9. \A q \in Requests : RequestInv(q)'
    <2>1. RequestInv(r)'
      BY <1>1, <1>2, <1>4, <1>5, <1>7 DEF RequestInv, history
    <2>2. ASSUME NEW q \in Requests, q # r PROVE RequestInv(q)'
      BY <1>1, <1>2, <1>4, <1>5, <2>2 DEF RequestInv, history
    <2> QED
      BY <2>1, <2>2
  <1> QED
    BY <1>2, <1>6, <1>8, <1>9 DEF IInv

LEMMA JudgeKeeps == IInv /\ Judge => IInv'
  <1> SUFFICES ASSUME IInv, Judge PROVE IInv'
    OBVIOUS
  <1> DEFINE doubt == actor.doubt \/ ("audit" \notin torn /\ Uncertain)
  <1>1. actor.at \in {"judge", "mark"} /\ Booting /\ UNCHANGED <<files, faults, history>>
    BY DEF Judge
  <1>2. /\ TypeOK
        /\ \A h \in Handlers : HandlerInv(h)'
        /\ \A r \in Requests : RequestInv(r)
        /\ UNCHANGED <<opLock, work, deaths, deletions>>
    BY <1>1, BootingIsQuiet
  <1>3. doubt \in BOOLEAN
    BY <1>2 DEF TypeOK, Lives, Uncertain
  <1>4. /\ actor' \in Lives /\ actor'.at \in {"down", "setLatch", "open"}
        /\ actor'.at = "setLatch" => actor'.latched
        /\ actor'.at = "open" => ~ doubt \/ (actor'.latched /\ latch # "absent")
    <2>1. CASE latch = "unreadable"
      BY <2>1 DEF Judge, Down, Lives, Phases
    <2>2. CASE latch # "unreadable"
      <3>1. actor' = [actor EXCEPT !.at = IF doubt /\ latch = "absent" THEN "setLatch" ELSE "open",
                                   !.latched = doubt \/ latch = "set"]
        BY <2>2 DEF Judge
      <3>2. actor \in Lives /\ latch \in {"absent", "set"}
        BY <1>2, <2>2 DEF TypeOK, Lives
      <3> HIDE DEF doubt
      <3> QED
        BY <1>3, <3>1, <3>2 DEF Lives, Phases
    <2> QED
      BY <2>1, <2>2
  <1>5. TypeOK'
    BY <1>1, <1>2, <1>4 DEF TypeOK, Lives, files, history
  <1>6. StartInv'
    BY <1>1, <1>4 DEF StartInv, files
  <1>7. ASSUME NEW r \in Requests, ~ doubt, begun[r] > 0 PROVE "COMPLETED" \in audit[r]
    <2>1. actor.at = "mark" /\ actor.todo = {}
      BY <1>1, <1>7 DEF IInv, StartInv, Judge
    <2>2. "audit" \notin torn /\ Unfinished = {}
      BY <2>1 DEF IInv, StartInv
    <2>3. "CONSUMED" \in audit[r] /\ "FAILED_NOT_STARTED" \notin audit[r]
      BY <1>2, <1>7 DEF RequestInv
    <2>4. PICK event \in Terminal : event \in audit[r]
      BY <2>2, <2>3 DEF Unfinished
    <2>5. event \notin Unresolved
      BY <1>7, <2>2, <2>4 DEF Uncertain
    <2> QED
      BY <2>3, <2>4, <2>5 DEF Terminal, Unresolved
  <1>8. \A r \in Requests : RequestInv(r)'
    <2> HIDE DEF doubt
    <2> QED
      BY <1>1, <1>2, <1>4, <1>7 DEF RequestInv, OnFile, files, history
  <1> QED
    BY <1>2, <1>5, <1>6, <1>8 DEF IInv

LEMMA StartLatchKeeps == IInv /\ StartLatch => IInv'
  <1> SUFFICES ASSUME IInv, StartLatch PROVE IInv'
    OBVIOUS
  <1>1. /\ actor.at = "setLatch" /\ Booting
        /\ UNCHANGED <<request, spent, audit, begun, built, stopped>>
    BY DEF StartLatch
  <1>2. /\ TypeOK
        /\ \A h \in Handlers : HandlerInv(h)'
        /\ \A r \in Requests : RequestInv(r)
        /\ UNCHANGED <<opLock, work, deaths, deletions>>
    BY <1>1, BootingIsQuiet
  <1>3. actor' = Down \/ (actor' = [actor EXCEPT !.at = "open"] /\ latch' = "set")
    BY DEF StartLatch
  <1>4. actor.latched
    BY <1>1 DEF IInv, StartInv
  <1>5. /\ actor' \in Lives /\ actor'.at \in {"down", "open"}
        /\ actor'.at = "open" => actor'.latched /\ latch' = "set"
    <2>1. CASE actor' = Down
      BY <2>1 DEF Lives, Down, Phases
    <2>2. CASE actor' = [actor EXCEPT !.at = "open"] /\ latch' = "set"
      BY <1>2, <1>4, <2>2 DEF TypeOK, Lives, Phases
    <2> QED
      BY <1>3, <2>1, <2>2
  <1>6. /\ latch' \in {"absent", "set", "unreadable"}
        /\ torn' \subseteq Logs /\ faults' \in Nat
        /\ slips' \in {slips, slips \cup {"lost"}}
    <2>1. CASE LatchFails
      BY <1>2, <2>1 DEF LatchFails, TypeOK
    <2>2. CASE latch' = "set" /\ UNCHANGED <<torn, faults, slips>>
      BY <1>2, <2>2 DEF TypeOK
    <2>3. CASE latch' = "set" /\ (\E o \in Outcomes : Write("audit", o)) /\ UNCHANGED slips
      BY <1>2, <2>3, WriteTypes DEF Logs
    <2> QED
      BY <2>1, <2>2, <2>3 DEF StartLatch
  <1>7. TypeOK'
    BY <1>1, <1>2, <1>5, <1>6 DEF TypeOK, Lives
  <1>8. StartInv' /\ \A r \in Requests : RequestInv(r)'
    BY <1>1, <1>2, <1>5 DEF StartInv, RequestInv, OnFile
  <1> QED
    BY <1>2, <1>7, <1>8 DEF IInv

LEMMA OpenKeeps == IInv /\ Open => IInv'
  <1> SUFFICES ASSUME IInv, Open PROVE IInv'
    OBVIOUS
  <1>1. /\ actor.at = "open" /\ Booting
        /\ UNCHANGED <<request, spent, audit, latch, begun, built, slips>>
        /\ stopped' = (stopped \/ actor.latched)
    BY DEF Open
  <1>2. /\ TypeOK
        /\ \A h \in Handlers : HandlerInv(h)'
        /\ \A r \in Requests : RequestInv(r)
        /\ UNCHANGED <<opLock, work, deaths, deletions>>
    BY <1>1, BootingIsQuiet
  <1>3. PICK o \in Outcomes :
          /\ Write("audit", o)
          /\ actor' = Down \/ actor' = [actor EXCEPT !.at = "up"]
    BY DEF Open
  <1>4. /\ actor' \in Lives /\ actor'.at \in {"down", "up"}
        /\ actor'.at = "up" => actor'.latched = actor.latched
    <2>1. CASE actor' = Down
      BY <2>1 DEF Lives, Down, Phases
    <2>2. CASE actor' = [actor EXCEPT !.at = "up"]
      BY <1>2, <2>2 DEF TypeOK, Lives, Phases
    <2> QED
      BY <1>3, <2>1, <2>2
  <1>5. torn' \subseteq Logs /\ faults' \in Nat
    BY <1>2, <1>3, WriteTypes DEF Logs
  <1>6. TypeOK'
    BY <1>1, <1>2, <1>4, <1>5 DEF TypeOK, Lives
  <1>7. \A r \in Requests : (InHand(r)' <=> InHand(r)) /\ (Ending(r)' <=> Ending(r))
    BY <1>2 DEF InHand, Ending
  <1>8. StartInv' /\ \A r \in Requests : RequestInv(r)'
    BY <1>1, <1>2, <1>4, <1>7 DEF IInv, StartInv, RequestInv, OnFile
  <1> QED
    BY <1>2, <1>6, <1>8 DEF IInv
-----------------------------------------------------------------------------
LEMMA HandlersKeep ==
  ASSUME IInv, NEW h \in Handlers, Handle(h)
  PROVE  IInv'
  BY ArriveKeeps, LookForLatchKeeps, AssignLatchedKeeps, RecheckKeeps, BeginKeeps,
     ReceivedKeeps, ChecksKeep, ConsumeKeeps, ConsumedKeeps,
     ExecutingKeeps, TagKeeps, BuildKeeps, CompletedKeeps, FinishKeeps, RefuseKeeps,
     FinishRefusedKeeps, RemeasureKeeps, FailedKeeps, SetLatchKeeps, FinishFailedKeeps
  DEF Handle

LEMMA NothingMoves == IInv /\ UNCHANGED vars => IInv'
  <1> SUFFICES ASSUME IInv, UNCHANGED vars PROVE IInv'
    OBVIOUS
  <1> USE DEF IInv, vars, files, counts, history
  <1>1. TypeOK'
    BY DEF TypeOK
  <1>2. StartInv'
    BY DEF StartInv, Unfinished
  <1>3. \A h \in Handlers : HandlerInv(h)'
    BY DEF HandlerInv, Owns, Admission
  <1>4. \A r \in Requests : RequestInv(r)'
    BY DEF RequestInv, InHand, OnFile, Ending
  <1> QED
    BY <1>1, <1>2, <1>3, <1>4

LEMMA StepKeeps == IInv /\ [Next]_vars => IInv'
  <1> SUFFICES ASSUME IInv, [Next]_vars PROVE IInv'
    OBVIOUS
  <1>1. ASSUME Boot PROVE IInv'
    BY <1>1, StartKeeps, JudgeKeeps, StartLatchKeeps, OpenKeeps, MarkUnknownKeeps, RecordUnknownKeeps
    DEF Boot
  <1> QED
    BY <1>1, DieKeeps, DeleteLatchKeeps, HandlersKeep, NothingMoves DEF Next

(* Handlers own their requests, the records tell what was done, and the     *)
(* start misses nothing, in every state the runner reaches (actor.py,       *)
(* startup.py).                                                             *)
THEOREM RunnerInvariant == Spec => []IInv
  BY InitInv, StepKeeps, PTL DEF Spec

(* Files, lock, handlers and process stay within their types.               *)
THEOREM RunnerTypes == Spec => []TypeOK
  <1>1. IInv => TypeOK
    BY DEF IInv
  <1> QED
    BY <1>1, RunnerInvariant, PTL

(* However often it dies and whatever fails to be written, an actor that    *)
(* serves unlatched has no uncertain effect behind it, also when somebody   *)
(* deleted the LATCH file (startup.py, step 6), unless an admission that    *)
(* found no LATCH overwrote the memory of one (actor.py, _handle): then the *)
(* file is there or still being written, or was lost.                       *)
THEOREM LatchedWhenUncertain == Spec => []UncertainMeansLatched
  <1>1. IInv => UncertainMeansLatched
    BY DEF IInv, RequestInv, Overwritten, UncertainMeansLatched
  <1> QED
    BY <1>1, RunnerInvariant, PTL

(* A resend answered from the records is told what happened                 *)
(* (request_state.py).                                                      *)
THEOREM TrueReplies == Spec => []RepliesAreTrue
  <1>1. IInv => RepliesAreTrue
    <2> SUFFICES ASSUME IInv, NEW r \in Requests
                 PROVE  /\ request[r].state = "completed" =>
                             r \in built /\ begun[r] = 1 /\ "COMPLETED" \in audit[r]
                        /\ request[r].state = "refused" => begun[r] = 0
      BY DEF RepliesAreTrue
    <2>1. begun[r] \in Nat
      BY DEF IInv, TypeOK
    <2> QED
      BY <2>1 DEF IInv, RequestInv
  <1> QED
    BY <1>1, RunnerInvariant, PTL

(* No docker command runs before both audit rows are on disk (actor.py).    *)
THEOREM RecordsComeFirst == Spec => []RecordedFirst
  <1>1. IInv => RecordedFirst
    BY DEF IInv, RequestInv, RecordedFirst
  <1> QED
    BY <1>1, RunnerInvariant, PTL
-----------------------------------------------------------------------------
(* The approvals and the docker commands implement SingleUseGrant.          *)
GrantState(a) == IF spent[a] = Nobody THEN "APPROVED" ELSE "CONSUMED"
GrantUsed(a)  == IF spent[a] = Nobody THEN 0 ELSE begun[spent[a]]

LEMMA QuietRefines == UNCHANGED <<spent, begun>> => UNCHANGED Grant!grantVars
  BY DEF Grant!grantVars

(* The spend: the request has not started anything.                         *)
LEMMA SpendRefines ==
  ASSUME IInv, NEW h \in Handlers, Consume(h)
  PROVE  [Grant!GrantNext]_(Grant!grantVars)
  <1>1. begun' = begun /\ work[h].at = "consume" /\ Owns(h)
    BY DEF Consume, history, At, Owns, Admission
  <1>2. PICK r \in Requests :
          r = work[h].request /\ work[h].approval \in Approvals /\ HandlerInv(h) /\ TypeOK
    BY <1>1, Owner
  <1>3. PICK a \in Approvals : a = work[h].approval
    BY <1>2
  <1>4. begun[r] = 0
    BY <1>1, <1>2 DEF HandlerInv, BeforeTag
  <1>5. CASE spent' = spent
    BY <1>1, <1>5, QuietRefines
  <1>6. CASE spent[a] = Nobody /\ spent' = [spent EXCEPT ![a] = r]
    <2>1. /\ spent'[a] = r /\ r # Nobody
          /\ \A b \in Approvals : b # a => spent'[b] = spent[b]
      BY <1>2, <1>6, Names DEF TypeOK
    <2>2. [b \in Approvals |-> GrantState(b)']
            = [[b \in Approvals |-> GrantState(b)] EXCEPT ![a] = "CONSUMED"]
      BY <2>1 DEF GrantState
    <2>3. \A b \in Approvals : GrantUsed(b)' = GrantUsed(b)
      BY <1>1, <1>4, <1>6, <2>1 DEF GrantUsed
    <2>4. [b \in Approvals |-> GrantUsed(b)'] = [b \in Approvals |-> GrantUsed(b)]
      BY <2>3
    <2>5. Grant!Move(a, "APPROVED", "CONSUMED")
      BY <1>6, <2>2, <2>4 DEF Grant!Move, GrantState, GrantUsed
    <2> QED
      BY <2>5 DEF Grant!GrantNext, Grant!Spend
  <1> QED
    BY <1>2, <1>3, <1>5, <1>6 DEF Consume

(* The first docker command: one approval, spent by this request, is used.  *)
LEMMA ActRefines ==
  ASSUME IInv, NEW h \in Handlers, Tag(h)
  PROVE  [Grant!GrantNext]_(Grant!grantVars)
  <1>1. spent' = spent /\ work[h].at = "tag" /\ Owns(h)
    BY DEF Tag, files, At, Owns, Admission
  <1>2. PICK r \in Requests :
          /\ r = work[h].request /\ work[h].approval \in Approvals
          /\ request[r].approval = work[h].approval
          /\ HandlerInv(h) /\ RequestInv(r) /\ TypeOK
    BY <1>1, Owner
  <1>3. PICK a \in Approvals : a = work[h].approval
    BY <1>2
  <1>4. begun[r] = 0 /\ spent[a] = r
    BY <1>1, <1>2, <1>3 DEF HandlerInv, BeforeTag
  <1>5. CASE begun' = begun
    BY <1>1, <1>5, QuietRefines
  <1>6. CASE begun' = [begun EXCEPT ![r] = @ + 1]
    <2>1. begun'[r] = 1 /\ \A q \in Requests : q # r => begun'[q] = begun[q]
      BY <1>2, <1>4, <1>6 DEF TypeOK
    <2>2. \A b \in Approvals : b # a => spent[b] # r
      BY <1>2, <1>3 DEF RequestInv
    <2>3. \A b \in Approvals : spent[b] # Nobody => spent[b] \in Requests
      BY <1>2 DEF TypeOK
    <2>4. \A b \in Approvals : GrantUsed(b)' = IF b = a THEN 1 ELSE GrantUsed(b)
      BY <1>1, <1>4, <2>1, <2>2, <2>3, Names DEF GrantUsed
    <2>5. [b \in Approvals |-> GrantUsed(b)']
            = [[b \in Approvals |-> GrantUsed(b)] EXCEPT ![a] = 1]
      BY <2>4
    <2>6. GrantState(a) = "CONSUMED" /\ GrantUsed(a) = 0
      BY <1>4, Names DEF GrantState, GrantUsed
    <2>7. [b \in Approvals |-> GrantState(b)'] = [b \in Approvals |-> GrantState(b)]
      BY <1>1 DEF GrantState
    <2>8. Grant!Use(a)
      BY <2>5, <2>6, <2>7 DEF Grant!Use, GrantState, GrantUsed
    <2> QED
      BY <2>8 DEF Grant!GrantNext
  <1> QED
    BY <1>2, <1>5, <1>6 DEF Tag

LEMMA StepRefines == IInv /\ [Next]_vars => [Grant!GrantNext]_(Grant!grantVars)
  <1> SUFFICES ASSUME IInv, [Next]_vars PROVE [Grant!GrantNext]_(Grant!grantVars)
    OBVIOUS
  <1>1. CASE Die \/ DeleteLatch \/ Boot \/ UNCHANGED vars
    <2>1. UNCHANGED <<spent, begun>>
      BY <1>1 DEF Die, DeleteLatch, Boot, Start, Judge, StartLatch, Open, MarkUnknown, RecordUnknown,
                  vars, files, history
    <2> QED
      BY <2>1, QuietRefines
  <1>2. ASSUME NEW h \in Handlers, Handle(h) PROVE [Grant!GrantNext]_(Grant!grantVars)
    <2>1. CASE Consume(h)
      BY <2>1, SpendRefines
    <2>2. CASE Tag(h)
      BY <2>2, ActRefines
    <2>3. CASE ~ Consume(h) /\ ~ Tag(h)
      <3>1. UNCHANGED <<spent, begun>>
        BY <1>2, <2>3 DEF Handle, Arrive, LookForLatch, AssignLatched, Recheck, Begin, Received, Verify,
                          TakeLock, Measure, Consumed,
                          Executing, Build, Completed, Finish, Refuse, FinishRefused, Remeasure,
                          Failed, SetLatch, FinishFailed, files, history
      <3> QED
        BY <3>1, QuietRefines
    <2> QED
      BY <2>1, <2>2, <2>3
  <1> QED
    BY <1>1, <1>2 DEF Next

(* The runner spends a signed approval once and acts on it once, after the  *)
(* spend, whatever dies, fails or is resent (consumption.py).               *)
THEOREM RunnerKeepsItsPromise == Spec => Promise
  <1>1. Init => Grant!GrantInit
    BY DEF Init, Grant!GrantInit
  <1> QED
    BY <1>1, StepRefines, RunnerInvariant, PTL DEF Spec, Promise, Grant!GrantSpec
=============================================================================
