---------------------------- MODULE ControlPlane ---------------------------
(***************************************************************************)
(* The operator's controls of app/services/paper_session.py: kill switch,  *)
(* pause and trading_enabled.  Each lives in several places: in the        *)
(* PaperSession, in the database (written by a background task per command *)
(* and by every persist_paper_session), and, for the kill switch, as a     *)
(* copy in the orchestrator that a cycle takes when it starts.             *)
(*                                                                         *)
(* An actor is one request under way: a cycle, or a manual order.  Writes  *)
(* of one transaction reach the database with its first flush, from which  *)
(* on the transaction keeps other writers waiting until it commits.        *)
(***************************************************************************)
EXTENDS Integers, FiniteSets

CONSTANTS
  Actors,         \* bound: the requests of a behaviour
  KillCommands,   \* values operators pass to set_kill_switch
  PauseCommands,  \* values operators pass to set_paused
  EnableCommands, \* values operators pass to set_trading_enabled
  MaxIssued,      \* bound: background persist tasks
  MaxFaults,      \* bound: database operations that raise
  MaxCrashes      \* bound: process crashes

Nobody == "nobody"

ASSUME ActorsAssumption == Nobody \notin Actors /\ IsFiniteSet(Actors)
ASSUME CommandsAssumption ==
  {KillCommands, PauseCommands, EnableCommands} \subseteq SUBSET BOOLEAN
ASSUME BoundsAssumption ==
  MaxIssued \in Nat /\ MaxFaults \in Nat /\ MaxCrashes \in Nat

VARIABLES
  up,        \* the process runs
  crashes,   \* crashes so far
  faults,    \* database operations that raised so far
  kill,      \* PaperSession.kill_switch_enabled
  paused,    \* PaperSession.trading_paused
  enabled,   \* PaperSession.trading_enabled
  orchKill,  \* kill_switch_enabled of the shared orchestrator
  issued,    \* background persist tasks created so far
  tasks,     \* those that have not ended
  lost,      \* a task of this process ended without its commit
  writer,    \* the actor whose transaction holds the write lock
  db,        \* durable: kill, paused, enabled of system_state, risk of risk_state
  actor,     \* the requests: pc, what is staged, whether it has ordered
  orders     \* orders accepted so far

vars == <<up, crashes, faults, kill, paused, enabled, orchKill, issued, tasks, lost,
          writer, db, actor, orders>>

env == <<up, crashes>>

---------------------------------------------------------------------------
(* Data *)

Task == [id: 1..MaxIssued, flag: {"kill", "paused", "enabled"}, value: BOOLEAN]

Database == [kill: BOOLEAN, risk: BOOLEAN, paused: BOOLEAN, enabled: BOOLEAN]

Database0 == [kill |-> FALSE, risk |-> FALSE, paused |-> FALSE, enabled |-> FALSE]

PCs == {"idle", "cycle", "persist", "staged", "flushed", "ready", "tail", "done"}

\* A manual order, a cycle of a handler that checks the switch, or a cycle of
\* run_strategy_tick, which does not.  ordered is for the cycles.
Kinds == {"manual", "cycle", "tick"}

Actor == [pc: PCs, kind: Kinds, ordered: BOOLEAN, staged: Database]

Actor0 == [pc |-> "idle", kind |-> "manual", ordered |-> FALSE,
           staged |-> Database0]

At(a, pc) == up /\ actor[a].pc = pc

Goto(a, pc) == actor' = [actor EXCEPT ![a].pc = pc]

\* A request ends; run_strategy_tick has more to do after its cycle.
Return(a) == Goto(a, IF actor[a].kind = "tick" THEN "tail" ELSE "done")

Raise == faults < MaxFaults /\ faults' = faults + 1

\* A flag and the value a command gives it.
Write(flag, value) == [flag |-> flag, value |-> value]

\* loop.create_task(_persist()), one task a flag: nobody waits for it, or for an
\* earlier one.
Spawn(writes) ==
  /\ issued + Cardinality(writes) <= MaxIssued
  /\ issued' = issued + Cardinality(writes)
  /\ tasks' = tasks \cup {[id |-> issued + 1, flag |-> w.flag, value |-> w.value] : w \in writes}

---------------------------------------------------------------------------
(* Operator commands *)

\* set_kill_switch, as the v1 and the dashboard handlers call it.
SetKillSwitch(value) ==
  /\ up
  /\ kill' = value
  /\ Spawn({Write("kill", value)})
  /\ UNCHANGED <<env, faults, paused, enabled, orchKill, lost, writer, db, actor, orders>>

\* The MVP handler: an engaged switch also disables trading.
TradingKillSwitch(value) ==
  /\ up
  /\ kill' = value
  /\ enabled' = (enabled /\ ~ value)
  /\ Spawn({Write("kill", value)} \cup IF value THEN {Write("enabled", FALSE)} ELSE {})
  /\ UNCHANGED <<env, faults, paused, orchKill, lost, writer, db, actor, orders>>

SetPaused(value) ==
  /\ up
  /\ paused' = value
  /\ Spawn({Write("paused", value)})
  /\ UNCHANGED <<env, faults, kill, enabled, orchKill, lost, writer, db, actor, orders>>

SetTradingEnabled(value) ==
  /\ up
  /\ enabled' = value
  /\ Spawn({Write("enabled", value)})
  /\ UNCHANGED <<env, faults, kill, paused, orchKill, lost, writer, db, actor, orders>>

\* _persist of one command: a transaction of its own that writes one flag of
\* system_state.  Tasks may overtake each other.
TaskCommits(t) ==
  /\ up /\ t \in tasks /\ writer = Nobody
  /\ db' = [db EXCEPT ![t.flag] = t.value]
  /\ tasks' = tasks \ {t}
  /\ UNCHANGED <<env, faults, kill, paused, enabled, orchKill, issued, lost, writer, actor, orders>>

\* The write raises; the exception stays in the task object.
TaskFails(t) ==
  /\ Raise
  /\ up /\ t \in tasks
  /\ tasks' = tasks \ {t} /\ lost' = TRUE
  /\ UNCHANGED <<env, kill, paused, enabled, orchKill, issued, writer, db, actor, orders>>

---------------------------------------------------------------------------
(* Requests *)

\* The callers of run_paper_trading_cycle give the shared orchestrator the
\* session's engines and a copy of the switch; the cycle then waits for candles
\* and for its lock.
ShareOrchestrator(a, kind) ==
  /\ orchKill' = kill
  /\ actor' = [actor EXCEPT ![a].pc = "cycle", ![a].kind = kind]
  /\ UNCHANGED <<env, faults, kill, paused, enabled, issued, tasks, lost, writer, db, orders>>

\* POST /api/v1/paper/cycle/run: refused while the switch is engaged.
RunCycle(a) == At(a, "idle") /\ ~ kill /\ ShareOrchestrator(a, "cycle")

\* POST /api/trading/cycle: trading must be enabled too, unless the operator
\* confirms a single cycle.
TradingCycle(a, oneShot) ==
  At(a, "idle") /\ ~ kill /\ (enabled \/ oneShot) /\ ShareOrchestrator(a, "cycle")

\* run_strategy_tick asks for neither.
RunStrategyTick(a) == At(a, "idle") /\ ShareOrchestrator(a, "tick")

\* process_candle, on a signal that calls for an order (wanted) or not: the
\* pause is read from the session by _act_on_signal, the switch from the
\* orchestrator by RiskEngine.evaluate.
CycleActs(a, wanted) ==
  /\ At(a, "cycle")
  /\ LET places == wanted /\ ~paused /\ ~orchKill IN
       /\ orders' = IF places THEN orders + 1 ELSE orders
       /\ actor' = [actor EXCEPT ![a].pc = "persist", ![a].ordered = places]
  /\ UNCHANGED <<env, faults, kill, paused, enabled, orchKill, issued, tasks, lost, writer, db>>

\* The cycle ends early: no candles, a replay, the lock held elsewhere.
CycleReturns(a) ==
  /\ At(a, "cycle")
  /\ Return(a)
  /\ UNCHANGED <<env, faults, kill, paused, enabled, orchKill, issued, tasks, lost, writer, db, orders>>

\* place_order: the risk context is built from the session's own switch in the
\* step that submits.  The pause is not consulted.
PlaceOrder(a) ==
  /\ At(a, "idle")
  /\ orders' = IF kill THEN orders ELSE orders + 1
  /\ Goto(a, "persist")
  /\ UNCHANGED <<env, faults, kill, paused, enabled, orchKill, issued, tasks, lost, writer, db>>

\* persist_paper_session stages the controls of this moment ...
StageControls(a) ==
  /\ At(a, "persist")
  /\ actor' = [actor EXCEPT ![a].pc = "staged", ![a].staged.kill = kill,
                            ![a].staged.paused = paused, ![a].staged.enabled = enabled]
  /\ UNCHANGED <<env, faults, kill, paused, enabled, orchKill, issued, tasks, lost, writer, db, orders>>

\* ... the first SELECT of save_paper_checkpoint flushes them ...
Flush(a) ==
  /\ At(a, "staged") /\ writer = Nobody
  /\ writer' = a
  /\ Goto(a, "flushed")
  /\ UNCHANGED <<env, faults, kill, paused, enabled, orchKill, issued, tasks, lost, db, orders>>

\* ... save_risk_state reads the switch once more ...
StageRisk(a) ==
  /\ At(a, "flushed")
  /\ actor' = [actor EXCEPT ![a].pc = "ready", ![a].staged.risk = kill]
  /\ UNCHANGED <<env, faults, kill, paused, enabled, orchKill, issued, tasks, lost, writer, db, orders>>

\* ... and one commit makes all of it durable.
Commit(a) ==
  /\ At(a, "ready")
  /\ db' = actor[a].staged
  /\ writer' = Nobody
  /\ Return(a)
  /\ UNCHANGED <<env, faults, kill, paused, enabled, orchKill, issued, tasks, lost, orders>>

\* The transaction raises and is rolled back.  A cycle then pauses trading
\* (_fail_closed_persistence); place_order only marks the database unhealthy.
PersistFails(a) ==
  /\ Raise
  /\ up /\ actor[a].pc \in {"persist", "staged", "flushed", "ready"}
  /\ paused' = (paused \/ actor[a].kind # "manual")
  /\ writer' = IF writer = a THEN Nobody ELSE writer
  /\ Return(a)
  /\ UNCHANGED <<env, kill, enabled, orchKill, issued, tasks, lost, db, orders>>

\* run_strategy_tick after its cycle: a signal that led to no order, with the
\* switch engaged, engages the switch again.
TickEnds(a) ==
  /\ At(a, "tail")
  /\ Goto(a, "done")
  /\ \/ kill /\ ~actor[a].ordered /\ Spawn({Write("kill", TRUE)})
     \/ UNCHANGED <<issued, tasks>>
  /\ UNCHANGED <<env, faults, kill, paused, enabled, orchKill, lost, writer, db, orders>>

---------------------------------------------------------------------------
(* Crash and restart *)

Crash ==
  /\ up /\ crashes < MaxCrashes
  /\ up' = FALSE /\ crashes' = crashes + 1
  /\ kill' = FALSE /\ paused' = FALSE /\ enabled' = FALSE /\ orchKill' = FALSE
  /\ tasks' = {} /\ lost' = FALSE /\ writer' = Nobody
  /\ actor' = [a \in Actors |-> IF actor[a].pc = "idle" THEN Actor0
                                ELSE [Actor0 EXCEPT !.pc = "done"]]
  /\ UNCHANGED <<faults, issued, db, orders>>

\* Mutant of Restored: only system_state is read.
RestoredFromSystemState == db.kill

\* The switch as hydrate_paper_session_from_db sets it: engaged if either of
\* the two places it is stored in says so.
Restored == db.kill \/ db.risk

Boot ==
  /\ ~up
  /\ up' = TRUE
  /\ kill' = Restored
  /\ paused' = db.paused
  /\ enabled' = db.enabled
  /\ UNCHANGED <<crashes, faults, orchKill, issued, tasks, lost, writer, db, actor, orders>>

Init ==
  /\ up = TRUE /\ crashes = 0 /\ faults = 0
  /\ kill = FALSE /\ paused = FALSE /\ enabled = FALSE /\ orchKill = FALSE
  /\ issued = 0 /\ tasks = {} /\ lost = FALSE /\ writer = Nobody
  /\ db = Database0
  /\ actor = [a \in Actors |-> Actor0]
  /\ orders = 0

Request(a) ==
  \/ RunCycle(a) \/ RunStrategyTick(a)
  \/ \E oneShot \in BOOLEAN : TradingCycle(a, oneShot)
  \/ \E wanted \in BOOLEAN : CycleActs(a, wanted)
  \/ CycleReturns(a) \/ PlaceOrder(a)
  \/ StageControls(a) \/ Flush(a) \/ StageRisk(a) \/ Commit(a) \/ PersistFails(a)
  \/ TickEnds(a)

Next ==
  \/ \E value \in KillCommands : SetKillSwitch(value) \/ TradingKillSwitch(value)
  \/ \E value \in PauseCommands : SetPaused(value)
  \/ \E value \in EnableCommands : SetTradingEnabled(value)
  \/ \E t \in tasks : TaskCommits(t) \/ TaskFails(t)
  \/ \E a \in Actors : Request(a)
  \/ Crash \/ Boot

Spec == Init /\ [][Next]_vars

---------------------------------------------------------------------------
(* Properties *)

\* Flags, tasks, database and requests have the shapes given above, and the
\* write lock is held exactly by the transaction that has flushed.
TypeOK ==
  /\ up \in BOOLEAN /\ crashes \in 0..MaxCrashes /\ faults \in 0..MaxFaults
  /\ kill \in BOOLEAN /\ paused \in BOOLEAN /\ enabled \in BOOLEAN /\ orchKill \in BOOLEAN
  /\ issued \in 0..MaxIssued /\ tasks \subseteq Task /\ lost \in BOOLEAN
  /\ db \in Database /\ actor \in [Actors -> Actor] /\ orders \in 0..Cardinality(Actors)
  /\ \A a \in Actors : actor[a].pc \in {"flushed", "ready"} <=> writer = a

\* An engaged kill switch cannot be lost to concurrent persist_paper_session
\* transactions that staged it disengaged: once every background write has
\* gone through, a restart would engage it.  (With operators who only engage.)
KillDurable == (up /\ kill /\ tasks = {} /\ ~lost) => Restored

\* "Kill switch engaged - all new orders halted" (set_kill_switch): no order is
\* accepted while the switch is engaged.
KillStopsOrders == [][orders' > orders => ~kill]_vars

===========================================================================
