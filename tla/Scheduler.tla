----------------------------- MODULE Scheduler -----------------------------
(***************************************************************************)
(* app/services/trading_scheduler.py: the loop that runs a trading cycle   *)
(* every interval, its failure pause, and the handlers that start, stop,   *)
(* pause and resume it, interleaved in one event loop.                     *)
(*                                                                         *)
(* An action is what runs between two awaits.  Time is abstract: a wait    *)
(* may end at any moment, so interval and backoff do not appear.  What a   *)
(* cycle does inside is module PaperCycle; here it returns, raises, hangs  *)
(* or is cancelled.                                                        *)
(***************************************************************************)
EXTENDS Integers, FiniteSets

CONSTANTS
  MaxTasks,     \* bound: loop tasks created
  Stoppers,     \* bound: the calls of stop_scheduler
  MaxCommands,  \* bound: operator commands other than stop
  Threshold     \* scheduler_failure_threshold

Tasks  == 1..MaxTasks
NoTask == 0

ASSUME BoundsAssumption == MaxTasks \in Nat \ {0} /\ MaxCommands \in Nat
ASSUME ThresholdAssumption == Threshold \in Nat \ {0}

VARIABLES
  loop,       \* the tasks running _loop: where each one is
  cancelled,  \* tasks with a cancellation to deliver
  task,       \* _TASK
  stop,       \* _STOP is set
  guard,      \* holder of _OVERLAP_GUARD
  failures,   \* _CONSECUTIVE_FAILURES
  tripped,    \* _PAUSED_BY_FAILURES
  session,    \* trading_enabled, trading_paused, and whether the kill switch
              \* blocks trading (a reconciliation halt does so alike)
  stopper,    \* the calls of stop_scheduler: pc, task awaited, timed out
  commands    \* operator commands so far

vars == <<loop, cancelled, task, stop, guard, failures, tripped, session, stopper, commands>>

---------------------------------------------------------------------------
(* Data *)

\* "ready": created, not yet run.  "failing": awaits _persist_run(failed).
\* "dispose": awaits engine.dispose() in the finally, to go on afterwards.
\* "unwind": the same, with a CancelledError on its way out.
PCs == {"none", "ready", "cycle", "failing", "dispose", "unwind", "wait", "done"}

\* Awaits at which a task stands inside _run_one_cycle, holding the guard.
InCycle == {"cycle", "failing", "dispose", "unwind"}

Ended(t) == t # NoTask => loop[t] \in {"none", "done"}

Goto(t, pc) == loop' = [loop EXCEPT ![t] = pc]

Release(t) == guard' = IF guard = t THEN NoTask ELSE guard

\* The counter saturates one above the threshold; no guard tells more apart.
Failed == IF failures > Threshold THEN failures ELSE failures + 1

---------------------------------------------------------------------------
(* _loop and _run_one_cycle *)

\* The early returns of _run_one_cycle.
MayTrade ==
  /\ ~tripped
  /\ ~session.blocked /\ ~session.paused /\ session.enabled

\* Mutant of LoopTop: cycles of two loops are not kept apart.
LoopTopUnguarded(t) ==
  /\ loop[t] \in {"ready", "wait"} /\ t \notin cancelled
  /\ \/ /\ stop
        /\ Goto(t, "done")
        /\ UNCHANGED guard
     \/ /\ ~stop /\ MayTrade
        /\ Goto(t, "cycle") /\ guard' = t
     \/ /\ ~stop /\ ~MayTrade
        /\ Goto(t, "wait")
        /\ UNCHANGED guard
  /\ UNCHANGED <<cancelled, task, stop, failures, tripped, session, stopper, commands>>

\* Mutant of LoopTop: a turn that is skipped does not look at _STOP.
LoopTopDeaf(t) ==
  /\ loop[t] \in {"ready", "wait"} /\ t \notin cancelled
  /\ \/ /\ stop /\ MayTrade /\ guard = NoTask
        /\ Goto(t, "done")
        /\ UNCHANGED guard
     \/ /\ ~stop /\ MayTrade /\ guard = NoTask
        /\ Goto(t, "cycle") /\ guard' = t
     \/ /\ ~MayTrade \/ guard # NoTask
        /\ Goto(t, "wait")
        /\ UNCHANGED guard
  /\ UNCHANGED <<cancelled, task, stop, failures, tripped, session, stopper, commands>>

\* A new task starts, or its wait for _STOP ends, by timeout or by _STOP: up to
\* the next await.
LoopTop(t) ==
  /\ loop[t] \in {"ready", "wait"} /\ t \notin cancelled
  /\ \/ /\ stop
        /\ Goto(t, "done")
        /\ UNCHANGED guard
     \/ /\ ~stop /\ MayTrade /\ guard = NoTask
        /\ Goto(t, "cycle") /\ guard' = t
     \/ /\ ~stop /\ (~MayTrade \/ guard # NoTask)
        /\ Goto(t, "wait")
        /\ UNCHANGED guard
  /\ UNCHANGED <<cancelled, task, stop, failures, tripped, session, stopper, commands>>

\* The cycle and the writes behind it have succeeded.
CycleReturns(t) ==
  /\ loop[t] = "cycle" /\ t \notin cancelled
  /\ failures' = 0
  /\ Goto(t, "dispose")
  /\ UNCHANGED <<cancelled, task, stop, guard, tripped, session, stopper, commands>>

\* Mutant of CycleRaises: the exception ends the loop.
CycleRaisesFatally(t) ==
  /\ loop[t] = "cycle" /\ t \notin cancelled
  /\ failures' = Failed
  /\ Goto(t, "done") /\ Release(t)
  /\ UNCHANGED <<cancelled, task, stop, tripped, session, stopper, commands>>

\* The cycle, or a write behind it, raises: count the failure, then await the
\* failed row of scheduler_runs.
CycleRaises(t) ==
  /\ loop[t] = "cycle" /\ t \notin cancelled
  /\ failures' = Failed
  /\ Goto(t, "failing")
  /\ UNCHANGED <<cancelled, task, stop, guard, tripped, session, stopper, commands>>

\* Mutant of FailureRecorded: the threshold itself does not trip.
FailureRecordedLate(t) ==
  /\ loop[t] = "failing" /\ t \notin cancelled
  /\ \/ /\ Threshold < failures
        /\ tripped' = TRUE /\ session' = [session EXCEPT !.paused = TRUE]
     \/ /\ failures <= Threshold
        /\ UNCHANGED <<tripped, session>>
  /\ Goto(t, "dispose")
  /\ UNCHANGED <<cancelled, task, stop, guard, failures, stopper, commands>>

\* Behind that await the counter is read again: a resume may have cleared it.
FailureRecorded(t) ==
  /\ loop[t] = "failing" /\ t \notin cancelled
  /\ \/ /\ Threshold <= failures
        /\ tripped' = TRUE /\ session' = [session EXCEPT !.paused = TRUE]
     \/ /\ failures < Threshold
        /\ UNCHANGED <<tripped, session>>
  /\ Goto(t, "dispose")
  /\ UNCHANGED <<cancelled, task, stop, guard, failures, stopper, commands>>

\* The finally is through; _loop swallows what was raised and waits.
Disposed(t) ==
  /\ loop[t] = "dispose" /\ t \notin cancelled
  /\ Goto(t, "wait") /\ Release(t)
  /\ UNCHANGED <<cancelled, task, stop, failures, tripped, session, stopper, commands>>

\* CancelledError is no Exception: nothing but the finally stands in its way.
Cancelled(t) ==
  /\ t \in cancelled
  /\ cancelled' = cancelled \ {t}
  /\ \/ /\ loop[t] \in {"cycle", "failing"}
        /\ Goto(t, "unwind")
        /\ UNCHANGED guard
     \/ /\ loop[t] \in {"ready", "dispose", "unwind", "wait"}
        /\ Goto(t, "done") /\ Release(t)
  /\ UNCHANGED <<task, stop, failures, tripped, session, stopper, commands>>

Unwound(t) ==
  /\ loop[t] = "unwind" /\ t \notin cancelled
  /\ Goto(t, "done") /\ Release(t)
  /\ UNCHANGED <<cancelled, task, stop, failures, tripped, session, stopper, commands>>

---------------------------------------------------------------------------
(* stop_scheduler *)

StopBegins(s) ==
  /\ stopper[s].pc = "idle"
  /\ stop' = TRUE
  /\ stopper' = [stopper EXCEPT
                   ![s] = [pc |-> IF task = NoTask THEN "done" ELSE "waiting",
                           on |-> task, late |-> FALSE]]
  /\ UNCHANGED <<loop, cancelled, task, guard, failures, tripped, commands>>

\* trading/stop disables trading first; the shutdown of the lifespan does not.
TradingStop(s) == StopBegins(s) /\ session' = [session EXCEPT !.enabled = FALSE]
Shutdown(s)    == StopBegins(s) /\ UNCHANGED session

\* Mutant of StopTimesOut: a task that does not listen is waited for.
StopTimesOutPatiently(s) ==
  /\ stopper[s].pc = "waiting" /\ ~stopper[s].late
  /\ ~Ended(stopper[s].on)
  /\ stopper' = [stopper EXCEPT ![s].late = TRUE]
  /\ UNCHANGED <<loop, cancelled, task, stop, guard, failures, tripped, session, commands>>

\* Five seconds: wait_for cancels the task and goes on waiting for its end.
StopTimesOut(s) ==
  /\ stopper[s].pc = "waiting" /\ ~stopper[s].late
  /\ ~Ended(stopper[s].on)
  /\ cancelled' = cancelled \cup {stopper[s].on}
  /\ stopper' = [stopper EXCEPT ![s].late = TRUE]
  /\ UNCHANGED <<loop, task, stop, guard, failures, tripped, session, commands>>

\* The task has ended.  _TASK is a global and may meanwhile be another task, or
\* None: the call then raises AttributeError, and leaves _TASK as it is.
StopReturns(s) ==
  /\ stopper[s].pc = "waiting"
  /\ Ended(stopper[s].on)
  /\ cancelled' = IF stopper[s].late /\ ~Ended(task) THEN cancelled \cup {task} ELSE cancelled
  /\ task' = NoTask
  /\ stopper' = [stopper EXCEPT ![s] = [pc |-> "done", on |-> NoTask, late |-> FALSE]]
  /\ UNCHANGED <<loop, stop, guard, failures, tripped, session, commands>>

---------------------------------------------------------------------------
(* The other commands *)

Command == commands < MaxCommands /\ commands' = commands + 1

\* start_scheduler(force): a task that has not ended is left alone, and so is its
\* failure pause.
StartScheduler ==
  \/ /\ ~Ended(task)
     /\ UNCHANGED <<loop, task, stop, failures, tripped>>
  \/ /\ Ended(task)
     /\ \E t \in Tasks :
          /\ loop[t] = "none" /\ \A u \in Tasks : u < t => loop[u] # "none"
          /\ Goto(t, "ready") /\ task' = t
     /\ stop' = FALSE /\ failures' = 0 /\ tripped' = FALSE

\* trading/start and scheduler/start.
TradingStart ==
  /\ Command
  /\ session' = [session EXCEPT !.enabled = TRUE]
  /\ StartScheduler
  /\ UNCHANGED <<cancelled, guard, stopper>>

\* scheduler/resume: clear_failure_pause and set_paused(False).
ResumeScheduler ==
  /\ Command
  /\ failures' = 0 /\ tripped' = FALSE
  /\ session' = [session EXCEPT !.paused = FALSE]
  /\ UNCHANGED <<loop, cancelled, task, stop, guard, stopper>>

\* scheduler/pause and the dashboard's trading/pause, which knows nothing of the
\* failure pause.
SetPaused(value) ==
  /\ Command
  /\ session' = [session EXCEPT !.paused = value]
  /\ UNCHANGED <<loop, cancelled, task, stop, guard, failures, tripped, stopper>>

\* trading/kill-switch: engaging it disables trading, too; disengaging it does not
\* enable it again.
TradingKillSwitch(engage) ==
  /\ Command
  /\ session' = [session EXCEPT !.blocked = engage, !.enabled = @ /\ ~engage]
  /\ UNCHANGED <<loop, cancelled, task, stop, guard, failures, tripped, stopper>>

---------------------------------------------------------------------------

\* The lifespan has called start_scheduler, with or without
\* enable_trading_scheduler; trading_enabled is what was hydrated.
Init ==
  /\ \E started, enabled \in BOOLEAN :
       /\ loop = [t \in Tasks |-> IF started /\ t = 1 THEN "ready" ELSE "none"]
       /\ task = IF started THEN 1 ELSE NoTask
       /\ session = [enabled |-> enabled, paused |-> FALSE, blocked |-> FALSE]
  /\ cancelled = {} /\ stop = FALSE /\ guard = NoTask
  /\ failures = 0 /\ tripped = FALSE /\ commands = 0
  /\ stopper = [s \in Stoppers |-> [pc |-> "idle", on |-> NoTask, late |-> FALSE]]

LoopSteps(t) == LoopTop(t) \/ FailureRecorded(t) \/ Disposed(t) \/ Cancelled(t) \/ Unwound(t)

Next ==
  \/ \E t \in Tasks : LoopSteps(t) \/ CycleReturns(t) \/ CycleRaises(t)
  \/ \E s \in Stoppers :
       \/ TradingStop(s) \/ Shutdown(s)
       \/ StopTimesOut(s) \/ StopReturns(s)
  \/ TradingStart \/ ResumeScheduler
  \/ \E value \in BOOLEAN : SetPaused(value) \/ TradingKillSwitch(value)

\* asyncio runs every task that is ready and every timer that is due, and the
\* awaits outside the cycle (a row, dispose) are taken to end.  Nothing is assumed of
\* the cycle itself: its market source may hang.
Fairness ==
  /\ \A t \in Tasks : WF_vars(LoopSteps(t))
  /\ \A s \in Stoppers : WF_vars(StopTimesOut(s)) /\ WF_vars(StopReturns(s))

Spec == Init /\ [][Next]_vars /\ Fairness

---------------------------------------------------------------------------
(* Properties *)

\* The type of the variables.
TypeOK ==
  /\ loop \in [Tasks -> PCs] /\ cancelled \subseteq Tasks
  /\ task \in Tasks \cup {NoTask} /\ guard \in Tasks \cup {NoTask}
  /\ stop \in BOOLEAN /\ tripped \in BOOLEAN
  /\ failures \in 0..(Threshold + 1) /\ commands \in 0..MaxCommands
  /\ session \in [enabled: BOOLEAN, paused: BOOLEAN, blocked: BOOLEAN]
  /\ stopper \in [Stoppers -> [pc: {"idle", "waiting", "done"},
                               on: Tasks \cup {NoTask}, late: BOOLEAN]]

\* No two cycles of the scheduler overlap, although a start that comes between the
\* end of a task and the return of the stop that waits for it leaves a loop that
\* _TASK does not know, and the next start a second one beside it.
NoOverlap == Cardinality({t \in Tasks : loop[t] \in InCycle}) <= 1

\* stop_scheduler returns, so shutdown does, even when the cycle under way hangs.
StopTerminates == \A s \in Stoppers : (stopper[s].pc = "waiting") ~> (stopper[s].pc = "done")

\* Unless a cycle hangs, a stop ends every loop, also those _TASK has lost, or a
\* later start revokes it.
StopEndsLoops ==
  (\A t \in Tasks : []<>(loop[t] # "cycle")) => (stop ~> (~stop \/ \A t \in Tasks : Ended(t)))

\* When the failures reach the threshold the scheduler pauses, unless a resume, a
\* restart or a cancellation comes first.
FailuresTrip ==
  \A t \in Tasks :
    (loop[t] = "failing" /\ failures >= Threshold) ~> (tripped \/ failures = 0 \/ Ended(t))

\* A scheduler that was started, and is neither stopped, paused nor blocked, keeps
\* running cycles: failures below the threshold and skipped turns do not end it.
KeepsTrading ==
  <>[](task # NoTask /\ ~stop /\ MayTrade) => []<>(\E t \in Tasks : loop[t] \in InCycle)
=============================================================================
