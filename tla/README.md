# A TLA+ model of the MES load simulator

This directory specifies the manufacturing execution system (MES) in `app/`, checks it
with TLC on small instances and proves its central invariants with TLAPS. The modules
are written from the code; line numbers refer to the repository's files.

## 1. The system

The program is a FastAPI server over one SQLite file. Requests run in a thread pool, one
database session each; the simulation engine runs in a background thread of the same
process and calls the same handler functions; a dashboard, a C# operator UI, a load test
and an MCP gateway are clients of the HTTP API.

| component | state it keeps | operations | called by |
|---|---|---|---|
| lots and journal (`main.py` 91-123, 327-367, 691-844) | `lots`, `lot_events` | create, advance | clients, engine, work orders |
| quality (`main.py` 859-1085) | `quality_inspections` | inspect, disposition, rework release | clients, engine |
| equipment (`main.py` 632-688, 749-791) | `equipment`, `equipment_downtime_events` | report a status, be dispatched to | clients, engine, advance |
| work orders (`main.py` 370-389, 437-555) | `work_orders`, `work_order_lots` | create, release, add a lot, count a finished lot | clients, inspect |
| state machine (`state_machine.py`) | a constant table | `ensure_lot_transition` | lot commands |
| approval queue (`approvals.py`) | `approval_requests` | upsert, decide, expire | clients, control tower |
| control tower (`control_tower.py`) | `control_tower_decisions` | plan, process | engine |
| LLM agents (`llm_agent.py`) | `llm_agent_runs` | propose, advise | engine |
| rule agents (`equipment_agent.py`, `production_agent.py`) | none | threshold proposals | engine |
| investigations (`a2a.py`) | `investigation_tasks` | investigate, list | engine, clients |
| simulation engine (`simulation.py`) | in-memory schedules, `_running` | start, stop, tick, fault injection | clients |
| anomaly detection (`main.py` 1134-1214) | `anomaly_logs` | detect, log | engine, clients |
| reports, audit, gateway, UI, scripts | append-only or none | reads | - |

**How components meet.** All coordination is through the database. A handler reads with
plain SELECTs, each of which sees what is committed at that moment, decides, and writes
in one transaction: the first UPDATE or INSERT takes SQLite's write lock and the commit
releases it. Sessions do not autoflush. Three ways of writing coexist, and most of the
hazards come from the difference:

1. *compare-and-set*: the lot commands update the row only if status and step (and, except
   in `advance_lot`, `updated_at`) are still what was read;
2. *conditional or relative UPDATE*: the work-order handlers decide inside the UPDATE;
3. *ORM write-back*: equipment and downtime rows are written from the object that was read,
   changed columns only, whatever the row holds by then.

The engine's thread is the one that composes the rest: a tick calls the handlers for the
timers that are due and then, now and again, runs a check cycle, in which the rule agents
propose, an investigation is attached to each proposal, a language model may add a
hypothesis, the control tower merges and gates, a second model may raise the risk, and
what remains is folded into the approval queue, where people decide.

**What is hard.** Two requests between each other's reads and writes; a stale snapshot
written back; counts read before the transaction that relies on them; requests that die
after their reads; legal command sequences that end in a dead end; a crash between two
commits of one cycle; timers that live in memory and are popped before the call they are
for; two engine loops after a quick stop and start; a model that may answer anything.
`PROJECT.json` lists each at its line.

**What makes each component right.** Lots: the journal replays the row, the row follows the
state machine, no step is run twice, and no lot is stuck. Quality: attempts are contiguous,
one failure is undecided at a time, reworks are bounded, a finished lot never changes, the
blamed tool is the one that last ran INSPECT. Equipment: dispatches are counted and spread
evenly, an outage is one row, open exactly while the tool is down. Work orders: counters are
the quantities of the lots, completion means the plan is built. Approvals: one PENDING row per
key (as `models.py` promises; section 5), one decision per request, no request overdue for
ever, the risk never sinks. Control tower: nothing disallowed reaches a person, every risk a
request shows has a decision on record, a model adds at most one level. Investigations: one
per subject and suppression window, and a failure costs the subject it strikes its
investigation, no other. Engine: no unfinished lot and no tool that is down is forgotten,
every scheduled lot is finished. Anomalies: the tool named is the worst of its step (of up to
five) and a clear outlier is never missed. Time accounting: no second is counted twice, and
the outages add up to the tool's total.

## 2. The modules

| module | models | how |
|---|---|---|
| `LotStates` | `state_machine.py`, the enumerations | constants and the table of moves |
| `Tables` | the database rows, sessions | `lot`, `events`, `inspections`, `tool`, `outages`, `order`, `membership`: the committed tables; `req[c]`: the handler client `c` is running, with what it has read |
| `WorkOrders` | creation of lots, work orders | one action per handler, since each decides inside its transaction |
| `LotHandlers` | advance, inspect, disposition, rework release | one action for the request, one per read, one for the write transaction |
| `EquipmentHandlers` | `set_equipment_status` | read, look for the open outage, write back |
| `ShopFloor` | the MES core | the union of the above for every client, and all its properties |
| `Overlaps` | `ShopFloor` with one history variable | remembers whether two requests have been under way at once, for what the equipment promises until then |
| `LotProtocol` | what the lot commands promise | the same commands as single steps on the current state, with no snapshots |
| `Engine` | `simulation.py`: start, stop, the loop, the tick, the timers | the threads are clients of `ShopFloor` and call its handlers; `loop[c]` is where a thread's tick stands, `sched` and `recov` are the keys of the two timer tables |
| `Approvals` | `approvals.py` and its endpoints | `request`: the table; `job[c]`: what client `c`'s handler has read; one action for the read and one for the write transaction of a proposal, a decision and a listing; all its properties |
| `ApprovalPromise` | what the queue promises | per dedupe key, the risk of the open request and the earlier requests, by their tickets, each with how it was settled |
| `RuleAgents` | the three rule agents, `plan`, the one-level escalation | operators: what a cycle computes from what the database shows it |
| `ControlTower` | a check cycle from the proposals to the decision log: `control_tower.py`, `llm_agent.py`, `_propose_actions` | on top of `Approvals`, whose proposer it is: one action per model and per commit; `cycle` is what the cycle holds, `analyzed` and `advised` the calls on record, `decision` the log |
| `Checks` | the investigations of a check cycle: `a2a.py`, `_maybe_check_anomalies` | `log` and `task` are the tables, `check` what the cycle holds; one action per commit of a task, and one for each way a failure is dealt with |
| `Downtime` | `run_seconds`, `down_seconds`, the lengths of the outages | one action per status report and dispatch, with the clock |
| `Anomalies` | `_detect_quality_anomalies` | operators over the number of inspections and failures of each tool, in exact arithmetic |
| `Reports` | what the report endpoints read | the two together |
| `MCShopFloor`, `MCOverlaps`, `MCEngine`, `MCApprovals`, `MCTower`, `MCChecks`, `MCReports` | instances for TLC | constants, tool layouts, observations, symmetry |
| `ShopFloorTypes`, `ShopFloorLots`, `ShopFloorCounters` | proofs about `ShopFloor` | types and steps; the lots' quality, journal and atomicity; the tools and the orders (section 4) |
| `EngineProofs`, `ApprovalsProofs`, `TowerProofs`, `ChecksProofs`, `ReportsProofs` | proofs about the module each is named for (`ReportsProofs`: the clocks of `Downtime` and the statistics of `Anomalies`) | section 4 |

**Handlers.** A handler is followed call by call. `advance_lot`, for instance, is
`ReceiveAdvance` (read the lot, check its status), `PickTool` (read the candidates, take one
with the fewest dispatches, ask the state machine) and then `CommitHold` or
`CommitDispatch`; `req[c].seen` and `req[c].toolSeen` are the ORM objects it holds in
between. `Abandon` is a request that ends without a write: a compare-and-set that matched
nothing and was rolled back, a violated UNIQUE constraint, a lock that stayed busy past 15
seconds, a lost connection or a server crash. So for the MES core, which keeps nothing
outside the database, a crash is every client abandoning at once.

**The engine** does keep something outside the database. Its tick is `BeginTick` (the
recoveries that are due), `Recover`, `ListTools`, `Trip` (the faults), `CountWip`, `Spawn`
(the arrival), `ListLots` (the lots that are due), `Act` (one lot) and `EndTick`, with the
handlers' own steps in between: `Handles` is any step of a handler the engine called,
and sets the timer from the answer when it is the last. A refusal (`Refused`, an
`HTTPException`) is told apart from any other exception (`Fails`), because the code is: the
first plans the next attempt, the second ends the tick unless it is raised inside
`_act_on_lot`. `FailsAfterFault` is the commit of a fault whose row cannot be read back,
before its recovery is planned, `FailsAfterArrival` that of a new lot, before it has its
timer. `Crash` empties the memory and leaves the tables. `Stop` and
`Start` only set `_running`: a loop looks at it between ticks, so both threads may run.

**The check cycle** is in two modules because its two halves share nothing but the order
they run in: `Checks` has the investigations with their tasks, `ControlTower` the proposals,
the models and the queue. `Gather` is the rules and the root-cause model, `Advise` the
second model, and then each decision of the plan is `FindRequest`, `CommitRequest`,
`RecordRequest`, or `RecordOnly` when nobody is to be asked; `CutShort` ends the cycle
anywhere, keeping what was committed.

In `Checks` a failure has three outcomes, because the code has. Each investigation's
exception is caught on its own (`simulation.py` 332, 400, 435): after a failed read, say the
refresh of the new task (`a2a.py` 198), the session is still usable and the next subject has
its turn (`GiveUp`); so it has after a failed search for a recent task (`LookFails`), which
the equipment and production agents guard and the quality agent does not. After a failed
commit, which is caught but not rolled back, the session refuses its next statement, and then,
as when the server dies or an exception is caught by nobody, the cycle is over (`CutShort`).
`hit` is the history of the subjects that were in hand.

Abstractions, all of data:

* `updated_at` is a microsecond timestamp compared only for equality; `stamp` is a value
  no earlier commit gave the row. Two commits of one row in the same microsecond are
  excluded.
* The dispatch breaks ties by run time and id; the model takes any tool with the fewest
  dispatches.
* With several open outages "the latest started" may be any of them in `ShopFloor`, since
  `started_at` is taken before the row is written.
* `is_scrap`, `completed_at`, reasons, defect codes, names and the audit rows are left out:
  no modelled guard reads them. Run and down seconds are left out of `ShopFloor` and are the
  subject of `Downtime`.
* The product check of `create_work_order` is a precondition.
* In `Approvals`, title, proposal and evidence are one value (a proposal without evidence
  keeps the old one, which is not modelled), the outcome of a decision is chosen when it
  commits, since nothing before depends on it, and `clock` is the time in units of the
  coarsest distinction the guards make: before, at and after an expiry.
* Several PENDING rows of one key have no order in `first()`: any of them may be folded
  into.
* Timers of the engine hold times in the code and are sets of keys in the model: any timer
  may be due or not at any tick. The random choices (which tool fails, the result of an
  inspection) are nondeterministic, so the fault probabilities and their manual injection
  change nothing. A person's repair is one step in `Engine`; `ShopFloor` has its races.
* What the rules measure is an `Observation`: how often a tool went down, how long lots
  have waited. The queries behind the counts are not modelled, the tiers applied to them are.
* A model's answer is a usable one or none. Whether a text is usable (JSON, the grounding of
  its figures) is left open, what a usable answer may contain is not: any action, the risk
  of the rule it was asked about. In `ControlTower` the decisions of people and the sweeps,
  which `Approvals` shows in detail, are one step each.
* A group's agents and kinds are joined into a string in the order of the proposals, which
  is the same in every cycle; the model has the sets.
* The contents of an investigation's artifact are left out; its failure is not.
* The anomaly statistics are floating-point in the code and exact in the model. Where a
  threshold is met exactly the code may come out on either side, so there is a pair of
  operators: `MayBeFlagged` and `IsFlagged`. A property that a flag has a cause is stated of
  the first, one that a cause is flagged of the second.

## 3. What TLC checks

The runs say `CHECK_DEADLOCK FALSE` because an instance really stops: its lots are finished
or its requests decided, and its bounds used up.

| run | instance | distinct states | shows |
|---|---|---|---|
| `lifecycle` | 1 lot, a tool per step, 2 clients, failing tools | 948 k | the journal replays the row and is a chain of allowed moves; steps fit statuses; only a rework release to the last step is refused; a down tool has an open outage and no dispatch is over-counted, whatever races; until two requests overlap outages are exact and holds justified; the lot commands implement `LotProtocol` |
| `orders` | 1 order, 2 lots of 1 or 2 pieces, 2 INSPECT tools, 2 clients | 703 k | attempts, undecided failures, the rework bound, verdicts, the blamed tool and finality, and the order's counters, completion and finality; until two requests overlap dispatches are counted exactly and shared evenly |
| `rework_to_last_step` | 1 lot, 1 client | violation | the dead end of section 5 |
| `orphan_outage` | 1 tool, 2 clients | violation | two rows for one outage |
| `lost_dispatch` | 2 lots, 2 clients | violation | a dispatch that is not counted |
| `engine` | 1 lot, a tool per step, 2 loops, 1 failing tool, 1 failure or crash, 1 stop | 318 k | no unfinished lot and no down tool is forgotten but by a failure; every scheduled lot is finished |
| `approvals` | 1 key, 2 proposers, one of whom decides too, 1 person, 1 dashboard | 474 k | no more open requests of a problem than clients that propose it; settled once, never overdue for ever |
| `one_problem_two_requests` | 2 proposers | violation | one problem, two open requests |
| `decided_request_changes` | 1 proposer, 1 person | violation | a request that changes after it was decided |
| `tower` | 1 tool seen at 3 tiers | 725 k | the gate, the rules' ownership of every decision, the explanation of every risk, escalation by one level; with the tower the only proposer the queue implements `ApprovalPromise` |
| `checks` | 2 tools and 1 step, 3 agents, 3 tasks, 1 subject struck by a failure | 2.0 M | one investigation per subject and window; a failure costs no other subject its investigation |
| `reports` | 1 tool that goes down twice, 3 tools that inspect | 958 k | clocks and outages agree; the anomaly statistics name the worst tool only and miss no clear outlier |

**Bounds.** `RouteLength` is 2 where the code has 4: the handlers distinguish only "last
step" from "not last", and two steps have one of each; the proofs hold for every length of
at least 2. `MaxReworkCycles` is 1, as in the code. Two clients interleave two requests, one
of them stale, and a stretch without overlap comes before the first time they meet. In
`orders` two lots fill an order of up to two pieces, so that a quantity
may fit or not, and the second INSPECT tool makes blame a question. `MaxOutages` bounds the
downtime rows per tool (a tool would otherwise fail for ever): 1 lets every tool fail and
recover once. `Reports` and `Endpoints` limit what the clients of an instance send: `orders`
sends no status reports and creates its lots only through the order. Clients and lots are
interchangeable, and so are the INSPECT tools of `orders` and the tools of `checks`; no property checked under symmetry
is a liveness property.

In `approvals` two clients propose: the control tower, and one over HTTP that, as
`scripts/demo_calibrate_approval_metrics.py` does, also decides. With a person and a
dashboard, two inserts, two folds, two decisions and a sweep may race. `MaxRequests = 2` lets
both proposers insert, or a problem be raised again after its first request was settled,
`MaxCount = 2` folds once into each, and with a time to live of 1 a clock of 0 to 2 has a
moment before, at and after the expiry of a request raised at 0. Keys do not interact,
except in a sweep, so one is enough for the handlers that name a key. One risk is enough,
since no property of that run looks at it; `tower`, which checks `KeepsPromise`, has all four.

In `tower` the cycle sees a tool that has gone down three times (LOW, which only the advisor
brings before a person) or four (MEDIUM), or whose lots fail as well (CRITICAL), so that the
risk of a standing problem rises and falls between the cycles. The plant's and the steps'
scopes pass through the same actions and are left to the proofs: with them the instance would
not end in minutes. Two requests and one fold let a request be raised, grow, be rejected and
be raised again; `MaxDecisions = 2` records two decisions, so that one can be a repeat of the
other; `MaxCuts = 1` loses one decision between its two commits, and cycles that die elsewhere
are not bounded. `Cooldown = 0` and a clock of 0 to 1 have a moment inside and one outside of
the models' cooldown. The requests of `tower` do not expire by themselves: `Settle` takes any
of them at any time.

In `checks` a window of 1 and a clock of 0 to 2 let a condition stand past the window, and two
tools let one be investigated after the other was struck by a failure. Three tasks are one per
subject, or two of one subject in two windows and another; `MaxHits` bounds the subjects a
failure strikes, not the failures that strike no subject. In `engine` two threads, one `stop`,
and one mishap of any kind at any moment cover the races of section 1; the tool that fails is
the last one, so that a lot can be held, resumed and inspected there, fail and be reworked. In
`reports` 9, 10 and 11 inspections are one short of, at and past the least sample, and none,
some or nearly all of them may fail.

**Who proposes.** Three callers of `upsert_request` may overlap: the control tower of the
engine's loop, a second loop after a quick stop and start, and `POST /approvals`
(`main.py` 1341), which is public and which the calibration script uses while the engine
runs. So the queue is modelled with any number of `Proposers`, and two are instantiated.
`one_problem_two_requests` shows what they break, `OnePendingPerKey`; what is left of it is
`PendingWithinProposers`, and `DecisionIsFinal` and `OverdueIsSettled` are not affected.
`KeepsPromise` does need a single proposer, because of two folds that race the later may
write the lower risk; it is checked where the queue is driven by the tower alone, and the
model says no more about two.

**Before and after the first overlap.** As long as requests come one at a time, which is what
the repository's tests exercise, the equipment handlers keep four promises: exact counts, an
even load, one open row per outage and no unjustified HOLD. `Overlaps` states them of
every run of the racing instances up to the first moment two requests are under way;
`lost_dispatch` and `orphan_outage` show that two of them fail soon after it, and `lifecycle`
what remains.

**Mutants.** Every property of a passing run is paired with a small bug in the code that
TLC finds it to catch. The mutated operators stand beside the ones they replace, marked
`Mutant:`; nothing in the specification uses them.

**Liveness and fairness.** HTTP clients owe no progress, so the MES core alone has no
fairness to build on. Two parts do:

* `OverdueIsSettled` (`approvals`): a request past its expiry is settled or renewed. Nothing
  in the server sweeps the queue by itself: only `GET /approvals` and its summary do. The
  fairness is that of an open dashboard, which polls both every few seconds
  (`static/index.html` 1441): time goes on (`WF` of `Tick`), each dashboard keeps asking (`WF`
  of `ReceiveListing`), and since a poll may be refused by a busy database or lost, and is
  then tried again, `SF` of `CommitSweep`. With no dashboard open nothing is promised.
* `SpawnedLotsFinish` (`engine`): every scheduled lot is finished, through refusals, HOLD,
  rework and tools that go down, while the engine runs and unless a failure took a timer. A
  thread goes on with its tick (`WF` of `LoopStep`). A timer holds a fixed time, so that one
  that stays set is past in the end and in the next tick's list; the list is only sometimes
  being made, hence `SF` of `BeginTick` and `ListLots` with that tool or lot in it. Nothing
  is assumed of chance: a tool may fail as often as `MaxOutages` lets it, an inspection may
  always fail, no repair by a person and no restart need ever come.

`Checks` promises nothing that must happen: a task whose investigation fails half-way stays
SUBMITTED or WORKING, and nothing resumes it.

## 4. What is proved

TLAPS checks these for every value of the constants that satisfies the assumptions of their
modules: any set of lots, tools, orders and clients, any route of at least two steps and any
bound on reworks (`TablesAssumption`); any keys, texts, risks, times to live and clients
(`ApprovalsAssumption`); any observations and any answers of the models
(`RuleAgentsAssumption`, `ControlTowerAssumption`); any tools, steps and window
(`ChecksAssumption`); any tools (`DowntimeAssumption`), any finite set of them at the step
whose inspections are compared (`AnomaliesAssumption`: the code takes the mean of a list);
any number of loops, any room for lots and any number of mishaps (`EngineAssumption`, where
lots and tools have no name in common because `lost` holds both). No other set need be
finite.

| theorem | states |
|---|---|
| **the lots** | |
| `TypeCorrect` | `Spec => []TypeOK` |
| `StepsMatchStatuses` | `Spec => []StepMatchesStatus` |
| `AttemptsContiguous` | `Spec => []AttemptsAreContiguous` |
| `FailuresDecidedInTurn` | `Spec => []OneUndecidedFailure` |
| `ReworksBounded` | `Spec => []ReworkBounded` |
| `FinishedLotsFrozen` | `Spec => TerminalIsFinal` |
| `JournalsReplay` | `Spec => []JournalReplaysLot` |
| `JournalsAreChains` | `Spec => []JournalIsChain` |
| `OnlyReworkRefused` | `Spec => []RefusedOnlyAfterRework` |
| `VerdictsDecide` | `Spec => []VerdictDecidesStatus` |
| `LastToolBlamed` | `Spec => []InspectionBlamesLastTool` |
| `CommandsAtomic` | `Spec => CommandsAreAtomic`: `ShopFloor` implements `LotProtocol` |
| **tools and orders** | |
| `DownIsRecorded` | `Spec => []DownHasOpenOutage` |
| `NeverOvercounted` | `Spec => []DispatchNeverOvercounted` |
| `OneClientCountsExactly` | `Clients = {c}` implies `Spec => []DispatchCountIsExact` |
| `OneClientSharesEvenly` | `Clients = {c}` implies `Spec => []DispatchIsEven` |
| `OneClientOneRow` | `Clients = {c}` implies `Spec => []OutageOpenIffDown` |
| `OneClientHoldsStarved` | `Clients = {c}` implies `Spec => HoldOnlyWhenStarved` |
| `OrdersCount` | `Spec => []OrderCountsItsLots` |
| `OrdersCloseWhenBuilt` | `Spec => []CompletedIffBuilt` |
| `ClosedOrdersFrozen` | `Spec => CompletedIsFinal` |
| **the engine** | |
| `EngineTyping` | `EngineSpec => []EngineTypeOK` |
| `OnlyFailuresForget` | `EngineSpec => []OnlyAFailureForgets` |
| `EngineKeepsRoute` | `EngineSpec => []StepMatchesStatus` |
| `CrashKeepsJournal` | `EngineSpec => [](JournalReplaysLot /\ JournalIsChain)` |
| `CrashKeepsVerdicts` | `EngineSpec => []VerdictDecidesStatus` |
| `RetriesKeepQuality` | `EngineSpec => [](AttemptsAreContiguous /\ OneUndecidedFailure /\ ReworkBounded)` |
| `EngineFreezesFinished` | `EngineSpec => TerminalIsFinal` |
| `EngineCommandsAtomic` | `EngineSpec => CommandsAreAtomic` |
| `CrashKeepsOutages` | `EngineSpec => []DownHasOpenOutage` |
| `EngineNeverOvercounts` | `EngineSpec => []DispatchNeverOvercounted` |
| `EngineBlamesLastTool` | `EngineSpec => []InspectionBlamesLastTool` |
| `EngineNeverStuck` | `EngineSpec => []AdvanceNeverRefused` |
| `OneLoopCountsExactly` | `Clients = {c}` implies `EngineSpec => []DispatchCountIsExact` |
| `OneLoopSharesEvenly` | `Clients = {c}` implies `EngineSpec => []DispatchIsEven` |
| `OneLoopOneOutage` | `Clients = {c}` implies `EngineSpec => []OutageOpenIffDown` |
| **the queue and the check cycle** | |
| `ApprovalsTypeCorrect` | `Spec => []TypeOK` of `Approvals` |
| `DecisionsFinal` | `Spec => DecisionIsFinal` |
| `ProposersBoundPending` | `IsFiniteSet(Proposers)` implies `Spec => []PendingWithinProposers` |
| `QueueKeepsPromise` | `Proposers = {t}` implies `Spec => KeepsPromise`: `Approvals` implements `ApprovalPromise` |
| `TowerTypeCorrect` | `TowerSpec => []TowerTypeOK` |
| `GateHolds` | `TowerSpec => []OnlyAllowedReachesPeople` |
| `RulesDecide` | `TowerSpec => []RulesOwnEveryDecision` |
| `RequestsExplained` | `TowerSpec => []EveryRequestIsExplained` |
| `RiskRisesOneStep` | `TowerSpec => []RiskWithinOneStep` |
| `ChecksTypeCorrect` | `Spec => []TypeOK` of `Checks` |
| `InvestigatedOnce` | `Spec => []OneInvestigationPerWindow` |
| `FailuresStayPut` | `Spec => []FoundIsInvestigated` |
| **the reports** | |
| `ReportTypes` | `Spec => []TypeOK` of `Reports` |
| `ClocksAgree` | `Spec => []ClocksAddUp` |
| `ExactRates` | `Spec => []RatesAreExact` |
| `NamesTheWorst` | `Cardinality(StepTools) <= 5` implies `Spec => []OnlyTheWorstTool` |
| `FindsTheOutlier` | `Spec => []ClearOutlierIsFound` |

*Types and steps* (`ShopFloorTypes`). `TypeOK` is not inductive: a dispatch writes
`step + 1` from its snapshot, which stays in range only because a snapshot of a lot that
can be advanced has a step left. `Typed` adds `StepMatchesStatus` and `SnapshotsFit`, the
same fact about every snapshot in flight: an advance holds a row with a step left, an
inspection, disposition or release one whose route is complete. The module ends with what
the other proofs share: which actions write the lots (`LotWrites`) and the tools
(`ToolWrites`), and that a commit acts on the row its handler saw (`CommitOnSeen`).

*Quality* (`ShopFloorLots`). What was read stays true because of `updated_at`: no row
ever returns to a stamp it had, so a request whose stamp still matches at commit has seen
the lot's current inspections. `QualityInv` states this as "if the snapshot is current,
then so is the attempt number, the absence of a pending failure, the row to decide and the
rework count", together with the shape of the inspections themselves; the four theorems
are its consequences.

*The journal* (`ShopFloorLots`). Its three properties say different things of one
sequence, and each needs the others: `JournalInv` says that a lot's journal is a chain whose
end is the lot's status and step (`Tells`), that a lot WAITING past the first step came
there by a rework release, and that a handler between `PickTool` and its commit has found
the move allowed (`MayMove`). Although `advance_lot` compares no `updated_at`, status and
step are all its entries depend on, and `Matched` carries what the journal tells from the
row to the snapshot. The entries are then added one by one with `Extended`: an entry that
starts where the journal ended changes no step before it.

*Verdicts, blame, atomicity* (`ShopFloorLots`). Five lemmas (`HoldEffect` ...
`ReleaseEffect`) say what each commit does in terms of the lot as it is, not as it was read;
they follow from the two invariants above. With them, `VerdictInv` is inductive: it ties the
status to the newest inspection in both directions, and says of the statuses in between that
only a reworked lot has inspections. The same lemmas give the refinement: each commit is the
step of `LotProtocol` of the same name on that lot, and every other step changes nothing the
protocol sees. `BlameInv` adds the tool: as long as `updated_at` has not moved, the tool an
inspector read is the one of the last run in the journal, and every write moves it.

*Outages* (`ShopFloorCounters`). `OutageInv` adds to `DownHasOpenOutage` what protects it
from stale writers: handlers that enter DOWN append an open row, only a handler that saw
DOWN closes one, and such a handler also sets another status in the same transaction, so
no write can close the newest row and leave the tool down.

*Dispatches* (`ShopFloorCounters`). The runs of a tool are a finite set that only grows,
by one at each `CommitDispatch` (`RunsGrow`, `DispatchRuns`). `CountInv` says that neither
the count of a tool nor the count any dispatch in flight has read exceeds it, so that adding
one to a stale count cannot. With a single client, `SerialInv` can say more: what the handler
in flight read of its tool is the tool's row (`Knows`), hence its write is exact, goes to one
of the least used tools, and closes the row that is open.

*Work orders* (`ShopFloorCounters`). A quantity is the number of an order's `Units`, pairs
of a lot and a number, so that adding a lot is the union with a disjoint set. `OrderInv` ties
both counters and the status of each order to its lots (`OrderTold`), and says that a lot
that is in an order has been created and counts for at least one (`Enlisted`): the last is
why no lot of a COMPLETED order is left to finish, and an order is not reopened.

*The engine* (`EngineProofs`). `OnlyAFailureForgets` needs to know, of every call in flight,
which part of which loop's tick made it: `LoopInv` says so (`CallFits`), and that the
recovery a loop has popped was asked for a tool it saw DOWN, so that its write does take
effect, or else the tool is among the `lost`. The rest rests on one lemma: every step of
the engine is a step of `ShopFloor`, or leaves the lots and orders alone (`EngineIsClient`),
which carries `QualityInv`, `JournalInv`, `VerdictInv`, `BlameInv`, `OutageInv` and
`CountInv` over to the engine with its crashes and restarts.

Two results are the engine's own. It does not meet the dead end `ReworkToLastStep` shows:
`SentBackEarly` says that a lot is WAITING only at the first step or at the one the engine
reworks from, and that a release in flight leads there, so the state machine never refuses an
advance of the engine's (`EngineNeverStuck`). And with one loop, the usual case, the counts
are exact, the load is even and each outage has its row. `SerialInv` does not carry over,
because a person may repair a tool between two calls of the loop; `PlantInv` lets what a call
read be old in one way, a tool seen DOWN that is up by now (`LoopKnows`). Such a call is a
recovery, whose write finds nothing to close; a dispatch is never about a tool that was
seen DOWN, and a repair can add only tools with an outage on record to the candidates, which
`DispatchIsEven` does not compare.

*Approvals* (`ApprovalsProofs`). `DecisionIsFinal` follows action by action: a fold never
writes the status, and the two UPDATEs that do ask for PENDING. `PendingWithinProposers` is
inductive because it counts the inserts under way with the rows: a search that finds nothing
adds its client to the first and, since it found none, the rows are none (`InsertsBegin`), so
that the sum is at most the number of clients that are inserting; an insert moves one from
the first to the second (`InsertKeepsCount`), and every other step only settles rows
(`FewerStay`). It needs a finite set of clients, for there must be a number of them.

With one proposer, `SingleInv` says that a key has at most one PENDING row and the key t is
about to insert has none, which no other client can undo because every step but an insert
only settles rows (`NoInsertSettles`, `PendingShrinks`). The promise rests on it.

*The promise* (`ApprovalsProofs`). `ApprovalPromise` tells the settled requests of a key by
tickets, here their ids, and a sweep settles several keys at once. `PromiseInv` adds to
`SingleInv` that the row a fold is to write still has the key and the risk that were read
(`FoldFresh`), since no one but the proposer writes either: so `max` of what was read is the
peak. A fold into a row that was settled in the meantime is invisible to the promise; it is
the subject of `decided_request_changes`.

*The control tower* (`TowerProofs`). The gate is a fact about every decision a cycle
carries, not about the queue alone: `TowerInv` says that each plan is *sound* (what is not
blocked has allowed actions only, a rule among its agents and, when queued, a risk of at
least MEDIUM), that the job `CommitRequest` finishes asks for what the decision asked, and
that the log is so as well. The plan is sound because it is split into allowed and blocked
before it is merged, and because a hypothesis exists only beside a rule's proposal of MEDIUM
or more for the same tool; advice keeps it so because it never lowers a risk. `LogInv` adds
the log: every decision a cycle carries is within one level of the rules' (`StepInv`), and
every request is explained by a row, by a cut, or by the row about to be written
(`ExplainInv`), which the job in flight agrees with.

*Investigations* (`ChecksProofs`). Between the look for a recent task and the insertion of
a new one the subject stays free, because only one thread inserts; and for an anomaly, which
looks at its log and not at the tasks, because each task about one is at the time of a log
row. `WindowInv` adds both: `TasksLogged` of the tasks, `PlannedIsDue` of the running cycle.
`FoundIsInvestigated` leans on rows of earlier cycles, since a subject is passed by when it has
a recent task or log row, whatever became of it. `IsolationInv` therefore accounts for every
row (`Accounted`): a task is final, in hand, or was in hand when a failure struck, and a log
row was followed by a task, is about to be, or was in hand likewise. What is struck is
recorded with the time of its cycle, which is the time of its row, so that what suppresses a
new investigation lies as recently as the row does (`ReusedIsAnswered`, `LoggedIsAnswered`).

*Time* (`ReportsProofs`). `ClockInv`: what a tool ran and was down is at most the time of
its last stamp; the stretch since then belongs to one of the two at most. `OutageInv`: a tool
that is down has one open row, its newest, and any other tool has none, so that a tick of the
clock lengthens exactly one row of the tools that are down. The sum of the rows' lengths is
the number of their seconds (`SecondsOf`), again a set to which a tick adds one element.

*Anomalies* (`ReportsProofs`). The detector's sums, maxima and products are folds over the
samples. A fold is a function defined by recursion on the finite sets, so it obeys one
equation: pick an element, fold the rest (`FoldExists`). Facts about a fold are then proved
without induction: if a set of tools had a wrong sum, a least subset of it would
(`LeastSubset`), and the equation contradicts that. In this way `ScaleIsMultiple` has every
sample's size divide `Scale`, which makes the integer rates exact (`ExactRates`), and
`SumBounds` bounds the deviation: of numbers between `lo` and `hi` with mean `m`, the
squares of the distances from `m` add up to at most `n * (hi - m) * (m - lo)`, so that the
deviation is at most half the spread (`SpreadBound`, Popoviciu's inequality). A tool further
from its worst peer than the peers are apart is therefore more than two deviations from their
mean (`FarBeyond`, `FindsTheOutlier`), for any number of tools. The other direction depends
on their number: of `n` values none is further from the mean than `sqrt(n - 1)` deviations
(`Samuelson`, from `SquaresAround`, the same argument by a least subset once more), so that up
to four peers are all below the two deviations a flagged tool has reached (`BeyondAll`). Hence
the bound of five tools in `NamesTheWorst`, and it is the best one: among six, two tools that
always fail beside four that never do may both be flagged. The model is exact where the code
computes in floats, as section 2 says.

Only model-checked: the two liveness properties, which rest on fairness and `ENABLED` and
are out of the prover's reach. Of the folds, what is proved is what the theorems above need:
facts of the form "for every finite set". The statements that the five `violation` runs refute
are false and have no theorem in that generality; two of them hold with one client, and
`AdvanceNeverRefused` holds of the engine, which is proved above. `Overlaps` itself has no
theorem: it is the theorems with `Clients = {c}` that say of any number of lots and tools what
the handlers do one at a time.

## 5. What the model found

1. **Rework to the last step is a dead end** (`main.py` 800). The schema accepts every step
   for a rework release; from WAITING at the last step the next status is QUALITY_HOLD,
   which the table does not allow, so each advance raises `ValueError`. A lot HELD at the
   last step was given its entry in the table for the same reason; this one was missed.
2. **Orphan outages** (`main.py` 646). Two racing DOWN reports insert two open rows, the
   recovery closes one, and MTBF/MTTR count an outage that never ends.
3. **Lost dispatches** (`main.py` 791). `dispatch_count += 1` on an ORM object is a
   read-modify-write, so concurrent dispatches to one tool are counted once.
4. **One problem, two requests** (`approvals.py` 86). The PENDING row of a problem is looked
   for before the transaction that inserts one, and the table does not make the key unique
   among the PENDING: two reports that overlap insert two, and a person is asked twice.
5. **Decided requests change** (`approvals.py` 98). A fold is written to the row that was read
   PENDING, whatever its status by then: a decision that commits in between is followed by a
   new proposal text, count and expiry, and the report is lost in a closed request.

Some behaviour contradicts nothing the repository says, and no run refutes anything with it;
a reader of the code should know of it all the same:

* A recovery stays planned when a person repairs the tool first, and ends the tool's next
  outage early (`simulation.py` 271); `Engine` has the step.
* `SpawnedLotsFinish` and `OnlyAFailureForgets` hold only up to `lost`: a restart never
  resumes the unfinished lots, which still count against `max_wip`, and a recovery that fails
  once is never tried again (`simulation.py` 273, 473). The same goes for a lot whose creation
  commits but cannot be read back (`simulation.py` 481).
* A task whose server dies, or whose row cannot be read back, stays SUBMITTED or WORKING for
  ever, and keeps its subject from being investigated again for one window (`hit` in
  `FoundIsInvestigated`).
* A commit that fails in an investigation ends the whole cycle, although the comment at
  `simulation.py` 324 says that an investigation must never block a proposal; whether the session
  then refuses its next statement is the library's doing, so no run refutes the comment.
* `EveryRequestIsExplained` holds only up to `cut`: a request that is raised, or whose risk is
  raised, by a cycle that dies before the next commit keeps that risk without a decision
  that gives it, until a later cycle reaches the same one.

## 6. Not modelled, and the plan

Not modelled, because no decision of the program depends on it: prompts and the text of model
answers, HTTP, serialisation, the dashboard, the operator UI, the MCP gateway, the load test
and the scripts (clients of the same endpoints), the audit log (written, never read back to
decide), the ratios and distributions that `/metrics`, OEE and the downtime report compute
from the modelled totals, the look-ups of `a2a.py`, manual fault injection, the severity of an
anomaly beyond its risk.

Not modelled, and worth modelling: the *unflushed changes* of the session an engine tick
shares. A `ValueError` of `advance_lot` leaves a changed tool object in it, which the next
lot's commit writes (`main.py` 800). It takes a person who releases a lot of the engine to
the last step; the model of sessions would have to hold, per thread, the objects changed and
not yet written, in every handler.

Next, in this order:

1. **Sessions** with unflushed changes, as above.
2. **Two loops over the queue**: `Engine`'s second loop as a second proposer of
   `ControlTower`, and what of its promises is left: the half of `KeepsPromise` that needs no
   single proposer, and a bound on how far racing folds may let the risk sink.
