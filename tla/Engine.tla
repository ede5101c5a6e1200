------------------------------- MODULE Engine -------------------------------
(***************************************************************************)
(* The simulation engine (app/simulation.py): threads that tick through    *)
(* recoveries, faults, arrivals and the lots that are due.  The threads    *)
(* are the Clients of ShopFloor, whose handlers they call.  Timers live in *)
(* memory; whether a timer is due is left open, since time passes between  *)
(* any two steps.                                                          *)
(***************************************************************************)
EXTENDS ShopFloor

CONSTANTS
  MaxWip,         \* SimulationConfig.max_wip
  ReworkStep,     \* where the engine sends a lot for rework (CMP)
  Faulty,         \* bound: the tools random() picks
  MaxFailures,    \* bound: crashes, and calls that fail for no reason of the program's
  MaxStops        \* bound: calls of stop()

ASSUME EngineAssumption ==
  /\ Faulty \subseteq Tools
  /\ ReworkStep \in Steps /\ ReworkStep < LastStep
  /\ {MaxWip, MaxFailures, MaxStops} \subseteq Nat
  /\ Lots \cap Tools = {}       \* lost keeps both

VARIABLES
  running,     \* _running
  loop,        \* where each thread's tick is
  sched,       \* the keys of _next_action
  recov,       \* the keys of _next_equipment_recovery
  lost,        \* history: lots and tools whose timer a failure or crash took
  failures, stops

timers == <<sched, recov>>
history == <<lost, failures, stops>>
engineVars == <<running, loop, timers, history>>
allVars == <<vars, engineVars>>

At(pc, todo) == [pc |-> pc, todo |-> todo]
Off == At("off", {})
Sleeping == At("sleep", {})

EngineInit ==
  /\ Init
  /\ running = FALSE
  /\ loop = [c \in Clients |-> Off]
  /\ sched = {} /\ recov = {} /\ lost = {}
  /\ failures = 0 /\ stops = 0

Goes(c, pc, todo) == loop' = [loop EXCEPT ![c] = At(pc, todo)]

\* Loop c is in this part of its tick, between two calls.
In(c, pc) == loop[c].pc = pc /\ req[c] = Idle

-----------------------------------------------------------------------------
(* start() and stop().  A loop looks at _running between ticks only, so    *)
(* stop() and start() in one second leave two of them running.             *)

Start(c) ==
  /\ ~running
  /\ loop[c] = Off
  /\ running' = TRUE
  /\ loop' = [loop EXCEPT ![c] = Sleeping]
  /\ UNCHANGED <<vars, timers, history>>

Stop ==
  /\ running
  /\ stops < MaxStops
  /\ stops' = stops + 1
  /\ running' = FALSE
  /\ UNCHANGED <<vars, loop, timers, lost, failures>>

LoopExits(c) ==
  /\ loop[c] = Sleeping
  /\ ~running
  /\ loop' = [loop EXCEPT ![c] = Off]
  /\ UNCHANGED <<vars, running, timers, history>>

-----------------------------------------------------------------------------
(* _tick_once: recoveries, faults, arrivals, lots.  The check that ends it *)
(* is the subject of Checks.                                               *)

BeginTick(c, due) ==
  /\ loop[c] = Sleeping
  /\ running
  /\ Goes(c, "recover", due)
  /\ UNCHANGED <<vars, running, timers, history>>

\* The timer goes first, then the tool is set IDLE if it is still down.
Recover(c, t) ==
  /\ In(c, "recover")
  /\ t \in loop[c].todo
  /\ Goes(c, "recover", loop[c].todo \ {t})
  /\ recov' = recov \ {t}
  /\ IF tool[t].status = "DOWN" THEN ReceiveStatus(c, t, "IDLE") ELSE UNCHANGED vars
  /\ UNCHANGED <<running, sched, history>>

ListTools(c) ==
  /\ In(c, "recover") /\ loop[c].todo = {}
  /\ Goes(c, "trip", {t \in Faulty : tool[t].status # "DOWN"})
  /\ UNCHANGED <<vars, running, timers, history>>

\* random() picks the tools that fail.
Trip(c, t) ==
  /\ In(c, "trip")
  /\ t \in loop[c].todo
  /\ Goes(c, "trip", loop[c].todo \ {t})
  /\ ReceiveStatus(c, t, "DOWN")
  /\ UNCHANGED <<running, timers, history>>

Active == {l \in Created : lot[l].status \notin Terminal}

\* The other tools are spared; an arrival is due, and there is room for it.
CountWip(c) ==
  /\ In(c, "trip")
  /\ Cardinality(Active) < MaxWip /\ Created # Lots
  /\ Goes(c, "create", {})
  /\ UNCHANGED <<vars, running, timers, history>>

Spawn(c, l, q) ==
  /\ In(c, "create")
  /\ CreateLot(c, l, q)
  /\ sched' = sched \cup {l}
  /\ Goes(c, "list", {})
  /\ UNCHANGED <<running, recov, history>>

\* Bound: the other loop has taken the last lot id.
NoLotLeft(c) ==
  /\ In(c, "create") /\ Created = Lots
  /\ Goes(c, "list", {})
  /\ UNCHANGED <<vars, running, timers, history>>

\* After the arrival, or, when none is due or there is no room, without one.
ListLots(c, due) ==
  /\ In(c, "trip") \/ In(c, "list")
  /\ Goes(c, "lots", due)
  /\ UNCHANGED <<vars, running, timers, history>>

EndTick(c) ==
  /\ In(c, "lots") /\ loop[c].todo = {}
  /\ loop' = [loop EXCEPT ![c] = Sleeping]
  /\ UNCHANGED <<vars, running, timers, history>>

-----------------------------------------------------------------------------
(* _act_on_lot and _do_inspection.  The engine's own look at the           *)
(* inspections belongs to its read of the lot: had another loop inspected  *)
(* in between, the handler would find the lot's updated_at changed.        *)

Verdict(l) == IF Reworks(l) = {} THEN "REWORK" ELSE "SCRAP"

CallsHandler(c, l) ==
  \/ ReceiveAdvance(c, l)
  \/ /\ NoneUndecided(l)
     /\ \E result \in InspectionResult : ReceiveInspection(c, l, result)
  \/ /\ ~NoneUndecided(l)
     /\ ReceiveDisposition(c, l, Verdict(l))
  \/ ReceiveReworkRelease(c, l, ReworkStep)

Act(c, l) ==
  /\ In(c, "lots")
  /\ l \in loop[c].todo
  /\ Goes(c, "lots", loop[c].todo \ {l})
  /\ IF lot[l].status \in Terminal
       THEN UNCHANGED vars /\ sched' = sched \ {l}
       ELSE CallsHandler(c, l) /\ UNCHANGED sched
  /\ UNCHANGED <<running, recov, history>>

-----------------------------------------------------------------------------
(* The handlers go on, and the timers are set from their answers.          *)

HandlerStep(c) ==
  \/ PickTool(c) \/ CommitHold(c) \/ CommitDispatch(c)
  \/ ReadPending(c) \/ ReadLastProcess(c) \/ ReadAttempts(c) \/ CommitInspection(c)
  \/ ReadFailure(c) \/ CountReworks(c) \/ CommitDisposition(c)
  \/ CommitReworkRelease(c)
  \/ FindOutage(c) \/ CommitStatus(c)

\* Mutant: a lot whose handler wrote nothing is not tried again.
DroppedIfUnchanged(l) == IF lot'[l] = lot[l] THEN sched \ {l} ELSE sched \cup {l}

\* Finished by this call: the timer goes.  Otherwise there is a next attempt,
\* also after a refusal (HTTPException) and for a lot on HOLD.
TimerAfter(l) ==
  IF lot'[l] # lot[l] /\ lot'[l].status \in Terminal THEN sched \ {l} ELSE sched \cup {l}

RecoveryAfter(r) == IF r.status = "DOWN" THEN recov \cup {r.tool} ELSE recov

Handles(c) ==
  LET r == req[c] IN
  /\ HandlerStep(c)
  /\ IF req'[c] # Idle
       THEN UNCHANGED <<timers, lost>>
       ELSE IF loop[c].pc = "lots"
         THEN sched' = TimerAfter(r.lot) /\ UNCHANGED <<recov, lost>>
         ELSE recov' = RecoveryAfter(r) /\ lost' = lost \ recov' /\ UNCHANGED sched
  /\ UNCHANGED <<running, loop, failures, stops>>

\* The write of r finds its row changed (409), or, a bound, no room for one
\* more downtime row.
WriteRefused(r) ==
  \/ r.pc \in {"hold", "dispatch"} /\ ~StillWhereItWas(r.lot, r.seen)
  \/ r.pc \in {"inspect", "dispose", "release"} /\ ~StillAsRead(r.lot, r.seen)
  \/ r.pc = "inspect" /\ r.attempt \in AttemptsOf(r.lot)
  \/ r.pc = "status" /\ EntersDown(r.toolSeen, r.status) /\ Len(outages[r.tool]) = MaxOutages

Refused(c) ==
  /\ req[c] # Idle /\ WriteRefused(req[c])
  /\ Abandon(c)
  /\ IF loop[c].pc = "lots" THEN sched' = TimerAfter(req[c].lot) ELSE UNCHANGED sched
  /\ UNCHANGED <<running, loop, recov, history>>

\* Any other exception.  Outside _act_on_lot it ends the tick; in it the lot is
\* tried again later, and the lots behind it are too when the session, which
\* nobody rolled back, refuses to serve them.  A recovery's timer is gone.
Fails(c) ==
  /\ failures < MaxFailures
  /\ failures' = failures + 1
  /\ req[c] # Idle
  /\ Abandon(c)
  /\ IF loop[c].pc = "lots"
       THEN /\ sched' = TimerAfter(req[c].lot)
            /\ loop' = [loop EXCEPT ![c].todo = {}] \/ UNCHANGED loop
            /\ UNCHANGED lost
       ELSE /\ loop' = [loop EXCEPT ![c] = Sleeping]
            /\ lost' = IF req[c].status = "IDLE" /\ req[c].tool \notin recov
                         THEN lost \cup {req[c].tool} ELSE lost
            /\ UNCHANGED sched
  /\ UNCHANGED <<running, recov, stops>>

\* The write of a fault is committed, but reading the row back fails: the tick
\* ends before a recovery is planned.
FailsAfterFault(c) ==
  /\ failures < MaxFailures
  /\ failures' = failures + 1
  /\ loop[c].pc = "trip" /\ CommitStatus(c)
  /\ loop' = [loop EXCEPT ![c] = Sleeping]
  /\ lost' = lost \cup ({req[c].tool} \ recov)
  /\ UNCHANGED <<running, timers, stops>>

\* The new lot is committed, but reading it back fails: the tick ends before
\* the lot has a timer.
FailsAfterArrival(c, l, q) ==
  /\ failures < MaxFailures
  /\ failures' = failures + 1
  /\ In(c, "create")
  /\ CreateLot(c, l, q)
  /\ loop' = [loop EXCEPT ![c] = Sleeping]
  /\ lost' = lost \cup {l}
  /\ UNCHANGED <<running, timers, stops>>

\* The server dies: the tables remain, requests, loops and timers do not.
Crash ==
  /\ failures < MaxFailures
  /\ failures' = failures + 1
  /\ req' = [c \in Clients |-> Idle]
  /\ loop' = [c \in Clients |-> Off]
  /\ running' = FALSE
  /\ sched' = {} /\ recov' = {}
  /\ lost' = Active \cup {t \in Tools : tool[t].status = "DOWN"}
  /\ UNCHANGED <<lotTables, toolTables, orderTables, stops>>

\* A person repairs a tool that is down, here in one step (ShopFloor has the
\* races of that request), and its recovery stays planned.
Repair(t) ==
  /\ tool[t].status = "DOWN"
  /\ tool' = [tool EXCEPT ![t].status = "IDLE"]
  /\ IF OpenOutages(t) = {}
       THEN UNCHANGED outages
       ELSE \E row \in OpenOutages(t) : outages' = [outages EXCEPT ![t][row] = FALSE]
  /\ UNCHANGED <<lotTables, orderTables, req, engineVars>>

LoopStep(c) ==
  \/ LoopExits(c)
  \/ \E due \in SUBSET recov : BeginTick(c, due)
  \/ \E t \in Tools : Recover(c, t) \/ Trip(c, t)
  \/ ListTools(c)
  \/ CountWip(c) \/ NoLotLeft(c)
  \/ \E l \in Lots, q \in Quantities : Spawn(c, l, q)
  \/ \E due \in SUBSET sched : ListLots(c, due)
  \/ \E l \in Lots : Act(c, l)
  \/ EndTick(c)
  \/ Handles(c)
  \/ Refused(c)

EngineNext ==
  \/ Stop
  \/ Crash
  \/ \E c \in Clients : Start(c) \/ LoopStep(c) \/ Fails(c) \/ FailsAfterFault(c)
  \/ \E c \in Clients, l \in Lots, q \in Quantities : FailsAfterArrival(c, l, q)
  \/ \E t \in Tools : Repair(t)

\* A thread goes on with its tick, and a timer that stays set is due some day.
Fairness ==
  /\ \A c \in Clients : WF_allVars(LoopStep(c))
  /\ \A t \in Faulty :
       SF_allVars(\E c \in Clients, due \in SUBSET recov : t \in due /\ BeginTick(c, due))
  /\ \A l \in Lots :
       SF_allVars(\E c \in Clients, due \in SUBSET sched : l \in due /\ ListLots(c, due))

EngineSpec == EngineInit /\ [][EngineNext]_allVars /\ Fairness

-----------------------------------------------------------------------------

\* The tables have their types, and a loop has a call in flight only in a part
\* of the tick that makes calls, about a row it has listed.
EngineTypeOK ==
  /\ TypeOK
  /\ running \in BOOLEAN
  /\ sched \subseteq Created /\ recov \subseteq Tools
  /\ lost \subseteq Lots \cup Tools
  /\ \A c \in Clients :
       /\ loop[c].pc \in {"off", "sleep", "recover", "trip", "create", "list", "lots"}
       /\ loop[c].todo \subseteq IF loop[c].pc = "lots" THEN Lots
                                 ELSE IF loop[c].pc \in {"recover", "trip"} THEN Tools
                                 ELSE {}
       /\ req[c] # Idle => loop[c].pc \in {"recover", "trip", "lots"}

\* Loop c is about to set the tool IDLE.
Recovering(c, t) ==
  req[c].pc \in {"outage", "status"} /\ req[c].tool = t /\ req[c].status = "IDLE"

\* However many loops stop() and start() leave running, no unfinished lot and
\* no tool that is down is without a timer, unless a crash or a failed call took
\* it: what one loop drops the other never needed.
OnlyAFailureForgets ==
  /\ Active \subseteq sched \cup lost
  /\ \A t \in Tools :
       tool[t].status = "DOWN" =>
         t \in recov \cup lost \/ \E c \in Clients : Recovering(c, t)

\* While the engine is left running, every lot it has scheduled is finished -
\* through refusals, HOLD, rework and tools that are down - unless a crash or a
\* failed call has taken its timer, or that of a tool it waits for.
SpawnedLotsFinish ==
  \A l \in Lots :
    l \in sched ~> \/ ~running
                  \/ lot[l].status \in Terminal
                  \/ l \in lost
                  \/ \E t \in Tools \cap lost : tool[t].status = "DOWN"
=============================================================================
