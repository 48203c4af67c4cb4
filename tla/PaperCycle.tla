---------------------------- MODULE PaperCycle -----------------------------
(***************************************************************************)
(* run_paper_trading_cycle of app/services/paper_cycle.py: several cycles, *)
(* as the API handlers start them, interleaved in one event loop, the      *)
(* cycle_locks table, what each cycle writes to the database and when,     *)
(* crashes, and the hydration of the next process.                         *)
(*                                                                         *)
(* An action is what runs between two awaits.  One symbol, strategy and    *)
(* timeframe; a candle is its position in time.  The orders of a cycle are *)
(* MARKET orders of one unit filled at the price of the candle (module     *)
(* PaperEngine models the fills themselves); a fill remembers its candle.  *)
(* Strategy verdicts are one fixed direction per candle: evaluating the    *)
(* same window again gives the same signal.                                *)
(***************************************************************************)
EXTENDS Integers, Sequences, SequencesExt, FiniteSets

CONSTANTS
  Cycles,       \* bound: the cycle runs of a behaviour
  MaxCandle,    \* bound: the candles that close
  Price,        \* close of each candle
  Cash0,        \* paper_starting_balance
  Signals,      \* the verdicts the strategy may have on the candles
  MaxFaults,    \* bound: operations that raise
  MaxCrashes,   \* bound: process crashes
  BootCanFail   \* whether a start may meet a database that raises

Candles    == 1..MaxCandle
Directions == {"HOLD", "BUY", "EXIT"}
NoOwner    == "nobody"

ASSUME CyclesAssumption == NoOwner \notin Cycles
ASSUME CandlesAssumption == MaxCandle \in Nat /\ Price \in [Candles -> Nat]
ASSUME CashAssumption == Cash0 \in Nat
ASSUME SignalsAssumption == Signals \subseteq [Candles -> Directions]
ASSUME FaultsAssumption ==
  MaxFaults \in Nat /\ MaxCrashes \in Nat /\ BootCanFail \in BOOLEAN

VARIABLES
  up,       \* the process runs
  crashes,  \* crashes so far
  faults,   \* operations that raised so far
  tip,      \* latest closed candle of the market source
  signal,   \* the strategy's verdict on each candle
  mem,      \* process memory: last, processed, keyed, paused, dbOk, reconOk
  ledger,   \* process memory: PaperState (cash, pos, fills)
  db,       \* durable: lock, expired, keys, paused, checkpoint, journal
  run       \* the cycles: pc, target, sawExpired, keys, paused, ledger, failed

vars == <<up, crashes, faults, tip, signal, mem, ledger, db, run>>

---------------------------------------------------------------------------
(* Data *)

Fills == Seq([candle: Candles, side: {"BUY", "SELL"}])

\* cash, the position in the symbol and the fill list of PaperState.
Ledger == [cash: Int, pos: 0..1, fills: Fills]

Ledger0 == [cash |-> Cash0, pos |-> 0, fills |-> <<>>]

\* _last_open_time (every candle up to it is also in _seen_candles),
\* _PROCESSED_CYCLE_KEYS, whether the start has loaded the durable keys into it,
\* trading_paused, and the health flags the risk engine consults.
Memory == [last: 0..MaxCandle, processed: SUBSET Candles, keyed: BOOLEAN,
           paused: BOOLEAN, dbOk: BOOLEAN, reconOk: BOOLEAN]

\* A process that has loaded an empty database.
Memory0 == [last |-> 0, processed |-> {}, keyed |-> TRUE, paused |-> FALSE,
            dbOk |-> TRUE, reconOk |-> TRUE]

\* The rows of cycle_locks by candle; the cycle keys, the pause flag and the
\* checkpoint of system_state; the fills of the journal.
Database == [lock: [Candles -> Cycles \cup {NoOwner}], expired: SUBSET Candles,
             keys: SUBSET Candles, paused: BOOLEAN, checkpoint: Ledger,
             journal: Fills]

PCs == {"idle", "fetch", "loaded", "lock", "take", "process", "journal", "mark",
        "keys", "snapshot", "stage", "commit", "reconcile", "release", "delete", "done"}

Run == [pc: PCs, target: 0..MaxCandle, sawExpired: BOOLEAN,
        keys: SUBSET Candles, paused: BOOLEAN, ledger: Ledger, failed: BOOLEAN]

Run0 == [pc |-> "idle", target |-> 0, sawExpired |-> FALSE, keys |-> {},
         paused |-> FALSE, ledger |-> Ledger0, failed |-> FALSE]

At(c, pc) == up /\ run[c].pc = pc

Goto(c, pc) == run' = [run EXCEPT ![c].pc = pc]

\* Something raises an exception.
Raise == faults < MaxFaults /\ faults' = faults + 1

---------------------------------------------------------------------------
(* run_paper_reconciliation on a ledger *)

\* Net quantity and cash that the fill list alone implies.
Net(fills) == FoldSeq(LAMBDA f, n : IF f.side = "BUY" THEN n + 1 ELSE n - 1, 0, fills)
Rebuilt(fills) ==
  FoldSeq(LAMBDA f, n : IF f.side = "BUY" THEN n - Price[f.candle]
                                          ELSE n + Price[f.candle], Cash0, fills)

\* Healthy unless a fill list that explains the position does not explain the
\* cash.  Without a position, a negative net quantity still counts as complete.
Healthy(l) ==
  LET complete == IF l.pos > 0 THEN Net(l.fills) = l.pos ELSE Net(l.fills) <= 0
  IN  l.cash >= 0 /\ (l.fills = <<>> \/ ~complete \/ Rebuilt(l.fills) = l.cash)

---------------------------------------------------------------------------
(* One cycle *)

\* Up to the first await: a reconciliation halt turns the cycle away.
Start(c) ==
  /\ At(c, "idle")
  /\ Goto(c, IF mem.reconOk THEN "fetch" ELSE "done")
  /\ UNCHANGED <<up, crashes, faults, tip, signal, mem, ledger, db>>

\* load_closed_candles answers with the candles closed now, or with none.
Fetch(c) ==
  /\ At(c, "fetch")
  /\ run' = [run EXCEPT ![c].pc = IF tip = 0 THEN "done" ELSE "loaded",
                        ![c].target = tip]
  /\ UNCHANGED <<up, crashes, faults, tip, signal, mem, ledger, db>>

\* The source raises: the cycle ends before it holds a lock.
FetchFails(c) ==
  /\ Raise
  /\ At(c, "fetch")
  /\ Goto(c, "done")
  /\ UNCHANGED <<up, crashes, tip, signal, mem, ledger, db>>

\* Mutant of Loaded: no look at _PROCESSED_CYCLE_KEYS.
LoadedUnchecked(c) ==
  /\ At(c, "loaded")
  /\ LET t == run[c].target IN
       /\ mem' = [mem EXCEPT !.last = IF @ < t - 1 THEN t - 1 ELSE @]
       /\ Goto(c, "lock")
  /\ UNCHANGED <<up, crashes, faults, tip, signal, ledger, db>>

\* prime_candles on the history, then the replay check.
Loaded(c) ==
  /\ At(c, "loaded")
  /\ LET t == run[c].target IN
       /\ mem' = [mem EXCEPT !.last = IF @ < t - 1 THEN t - 1 ELSE @]
       /\ Goto(c, IF t \in mem.processed THEN "done" ELSE "lock")
  /\ UNCHANGED <<up, crashes, faults, tip, signal, ledger, db>>

\* The read of acquire_cycle_lock: a live row is HELD.
LockGet(c) ==
  /\ At(c, "lock")
  /\ LET t == run[c].target
         held == db.lock[t] # NoOwner
     IN  run' = [run EXCEPT
                   ![c].pc = IF held /\ t \notin db.expired THEN "done" ELSE "take",
                   ![c].sawExpired = held]
  /\ UNCHANGED <<up, crashes, faults, tip, signal, mem, ledger, db>>

\* The write of acquire_cycle_lock.  An expired row is deleted by its key, so
\* whatever row stands there now goes; without one the insert fails on a row
\* that has appeared since.
LockTake(c) ==
  /\ At(c, "take")
  /\ LET t == run[c].target IN
       \/ /\ run[c].sawExpired \/ db.lock[t] = NoOwner
          /\ db' = [db EXCEPT !.lock[t] = c, !.expired = @ \ {t}]
          /\ Goto(c, "process")
       \/ /\ db.lock[t] # NoOwner  \* IntegrityError, or a blocked delete
          /\ Goto(c, "done")
          /\ UNCHANGED db
  /\ UNCHANGED <<up, crashes, faults, tip, signal, mem, ledger>>

\* The lock layer is unavailable and cycle_lock_fail_closed is set.
LockFails(c) ==
  /\ Raise
  /\ run[c].pc \in {"lock", "take"} /\ up
  /\ Goto(c, "done")
  /\ UNCHANGED <<up, crashes, tip, signal, mem, ledger, db>>

\* _act_on_signal places an order on candle t: entries when flat, exits when
\* long, nothing while paused or while a health check of the risk engine fails.
Acts(t) ==
  /\ ~mem.paused /\ mem.dbOk /\ mem.reconOk
  /\ \/ signal[t] = "BUY"  /\ ledger.pos = 0
     \/ signal[t] = "EXIT" /\ ledger.pos = 1

FillOn(t) == [candle |-> t, side |-> IF signal[t] = "BUY" THEN "BUY" ELSE "SELL"]

Traded(t) ==
  LET buy == signal[t] = "BUY"
  IN  [cash  |-> IF buy THEN ledger.cash - Price[t] ELSE ledger.cash + Price[t],
       pos   |-> IF buy THEN ledger.pos + 1 ELSE ledger.pos - 1,
       fills |-> Append(ledger.fills, FillOn(t))]

\* Mutant of Process: the lock alone is trusted to keep candles apart.
ProcessAnyway(c) ==
  /\ At(c, "process")
  /\ LET t == run[c].target IN
       \/ /\ ~Acts(t)
          /\ mem' = [mem EXCEPT !.last = t]
          /\ Goto(c, "mark")
          /\ UNCHANGED ledger
       \/ /\ Acts(t)
          /\ mem' = [mem EXCEPT !.last = t]
          /\ ledger' = Traded(t)
          /\ Goto(c, "journal")
  /\ UNCHANGED <<up, crashes, faults, tip, signal, db>>

\* Mutant of Process: only the latest candle is recognised.
ProcessUnordered(c) ==
  /\ At(c, "process")
  /\ LET t == run[c].target IN
       \/ /\ t = mem.last \/ ~Acts(t)
          /\ mem' = [mem EXCEPT !.last = t]
          /\ Goto(c, "mark")
          /\ UNCHANGED ledger
       \/ /\ t # mem.last /\ Acts(t)
          /\ mem' = [mem EXCEPT !.last = t]
          /\ ledger' = Traded(t)
          /\ Goto(c, "journal")
  /\ UNCHANGED <<up, crashes, faults, tip, signal, db>>

\* process_candle up to its first await: reject a candle that was seen, else
\* remember it, evaluate, and send the order through gateway and engine.  (The
\* signal fingerprints _act_on_signal also remembers cover the window with its
\* newest candle, so an accepted candle always brings a new one.)
Process(c) ==
  /\ At(c, "process")
  /\ LET t == run[c].target IN
       \/ /\ t <= mem.last
          /\ Goto(c, "mark")
          /\ UNCHANGED <<mem, ledger>>
       \/ /\ t > mem.last /\ ~Acts(t)
          /\ mem' = [mem EXCEPT !.last = t]
          /\ Goto(c, "mark")
          /\ UNCHANGED ledger
       \/ /\ t > mem.last /\ Acts(t)
          /\ mem' = [mem EXCEPT !.last = t]
          /\ ledger' = Traded(t)
          /\ Goto(c, "journal")
  /\ UNCHANGED <<up, crashes, faults, tip, signal, db>>

\* The strategy raises inside process_candle: the candle is remembered and taken
\* for done without an order.
StrategyRaises(c) ==
  /\ Raise
  /\ At(c, "process") /\ run[c].target > mem.last
  /\ mem' = [mem EXCEPT !.last = run[c].target]
  /\ Goto(c, "mark")
  /\ UNCHANGED <<up, crashes, tip, signal, ledger, db>>

\* The evaluation ahead of process_candle raises: straight to the finally.
EvaluateRaises(c) ==
  /\ Raise
  /\ At(c, "process")
  /\ Goto(c, "release")
  /\ UNCHANGED <<up, crashes, tip, signal, mem, ledger, db>>

\* _journal_order and _journal_new_fills: committed at once, in a session of
\* their own.
Journal(c) ==
  /\ At(c, "journal")
  /\ db' = [db EXCEPT !.journal = Append(@, FillOn(run[c].target))]
  /\ Goto(c, "mark")
  /\ UNCHANGED <<up, crashes, faults, tip, signal, mem, ledger>>

\* _guarded: a journal write that raises is counted and forgotten.
JournalFails(c) ==
  /\ Raise
  /\ At(c, "journal")
  /\ Goto(c, "mark")
  /\ UNCHANGED <<up, crashes, tip, signal, mem, ledger, db>>

\* process_candle has returned: the key joins _PROCESSED_CYCLE_KEYS, whether or
\* not the candle was accepted.
Mark(c) ==
  /\ At(c, "mark")
  /\ mem' = [mem EXCEPT !.processed = @ \cup {run[c].target}]
  /\ Goto(c, "keys")
  /\ UNCHANGED <<up, crashes, faults, tip, signal, ledger, db>>

\* persist_cycle_keys collects the keys it is going to write.
ExportKeys(c) ==
  /\ At(c, "keys")
  /\ run' = [run EXCEPT ![c].pc = "snapshot", ![c].keys = mem.processed]
  /\ UNCHANGED <<up, crashes, faults, tip, signal, mem, ledger, db>>

\* The commit of save_cycle_keys.
CommitKeys(c) ==
  /\ At(c, "snapshot")
  /\ db' = [db EXCEPT !.keys = run[c].keys]
  /\ Goto(c, "stage")
  /\ UNCHANGED <<up, crashes, faults, tip, signal, mem, ledger>>

\* persist_paper_session stages the controls and the ledger of this moment.
StageSession(c) ==
  /\ At(c, "stage")
  /\ run' = [run EXCEPT ![c].pc = "commit", ![c].paused = mem.paused,
                        ![c].ledger = ledger]
  /\ UNCHANGED <<up, crashes, faults, tip, signal, mem, ledger, db>>

\* The one commit of persist_paper_session.
CommitSession(c) ==
  /\ At(c, "commit")
  /\ db' = [db EXCEPT !.paused = run[c].paused, !.checkpoint = run[c].ledger]
  /\ Goto(c, "reconcile")
  /\ UNCHANGED <<up, crashes, faults, tip, signal, mem, ledger>>

\* Where the durable writes of a cycle are made; the last is the audit event that
\* follows the commit.
Persisting == {"keys", "snapshot", "stage", "commit", "reconcile"}

\* Mutant of PersistFails: the health flags alone are to stop trading.
PersistFailsUnpaused(c) ==
  /\ Raise
  /\ run[c].pc \in Persisting /\ up
  /\ mem' = [mem EXCEPT !.dbOk = FALSE, !.reconOk = FALSE]
  /\ run' = [run EXCEPT ![c].pc = "reconcile", ![c].failed = TRUE]
  /\ UNCHANGED <<up, crashes, tip, signal, ledger, db>>

\* A durable write raises: _fail_closed_persistence.
PersistFails(c) ==
  /\ Raise
  /\ run[c].pc \in Persisting /\ up
  /\ mem' = [mem EXCEPT !.paused = TRUE, !.dbOk = FALSE, !.reconOk = FALSE]
  /\ run' = [run EXCEPT ![c].pc = "reconcile", ![c].failed = TRUE]
  /\ UNCHANGED <<up, crashes, tip, signal, ledger, db>>

\* run_paper_reconciliation: the flag becomes what this ledger deserves, also
\* when _fail_closed_persistence has just cleared it.
Reconcile(c) ==
  /\ At(c, "reconcile")
  /\ mem' = [mem EXCEPT !.reconOk = Healthy(ledger)]
  /\ Goto(c, "release")
  /\ UNCHANGED <<up, crashes, faults, tip, signal, ledger, db>>

\* The reconciliation raises: _fail_closed_persistence again.
ReconcileFails(c) ==
  /\ Raise
  /\ At(c, "reconcile")
  /\ mem' = [mem EXCEPT !.paused = TRUE, !.dbOk = FALSE, !.reconOk = FALSE]
  /\ run' = [run EXCEPT ![c].pc = "release", ![c].failed = TRUE]
  /\ UNCHANGED <<up, crashes, tip, signal, ledger, db>>

\* release_cycle_lock: the read, then the delete by key.
ReleaseGet(c) ==
  /\ At(c, "release")
  /\ Goto(c, IF db.lock[run[c].target] = c THEN "delete" ELSE "done")
  /\ UNCHANGED <<up, crashes, faults, tip, signal, mem, ledger, db>>

ReleaseDelete(c) ==
  /\ At(c, "delete")
  /\ db' = [db EXCEPT !.lock[run[c].target] = NoOwner, !.expired = @ \ {run[c].target}]
  /\ Goto(c, "done")
  /\ UNCHANGED <<up, crashes, faults, tip, signal, mem, ledger>>

\* The release raises and is swallowed: the row stays until it expires.
ReleaseFails(c) ==
  /\ Raise
  /\ run[c].pc \in {"release", "delete"} /\ up
  /\ Goto(c, "done")
  /\ UNCHANGED <<up, crashes, tip, signal, mem, ledger, db>>

---------------------------------------------------------------------------
(* The surroundings *)

\* A candle closes.
CandleCloses ==
  /\ tip < MaxCandle
  /\ tip' = tip + 1
  /\ UNCHANGED <<up, crashes, faults, signal, mem, ledger, db, run>>

\* cycle_lock_ttl_seconds go by; nothing renews a lock.
LockExpires(t) ==
  /\ db.lock[t] # NoOwner /\ t \notin db.expired
  /\ db' = [db EXCEPT !.expired = @ \cup {t}]
  /\ UNCHANGED <<up, crashes, faults, tip, signal, mem, ledger, run>>

\* GET /health and GET /ready take a successful probe for a healthy database.
HealDatabase ==
  /\ up /\ ~mem.dbOk
  /\ mem' = [mem EXCEPT !.dbOk = TRUE]
  /\ UNCHANGED <<up, crashes, faults, tip, signal, ledger, db, run>>

\* _reconciliation_loop: the same reconciliation, on a timer.
ReconcileTimer ==
  /\ up
  /\ mem' = [mem EXCEPT !.reconOk = Healthy(ledger)]
  /\ UNCHANGED <<up, crashes, faults, tip, signal, ledger, db, run>>

\* The process dies; what it held in memory is gone.
Crash ==
  /\ up /\ crashes < MaxCrashes
  /\ up' = FALSE /\ crashes' = crashes + 1
  /\ mem' = Memory0 /\ ledger' = Ledger0
  /\ run' = [c \in Cycles |-> IF run[c].pc = "idle" THEN Run0
                                               ELSE [Run0 EXCEPT !.pc = "done"]]
  /\ UNCHANGED <<faults, tip, signal, db>>

\* What hydrate_paper_session_from_db makes of the ledger: the journal's fills win
\* over the checkpoint's, unless reading them raises, which is swallowed.
Hydrated(readable) ==
  [db.checkpoint EXCEPT !.fills = IF readable /\ db.journal # <<>> THEN db.journal ELSE @]

\* bootstrap_paper_runtime: the ledger, then the cycle keys, then the startup
\* reconciliation, whose verdict replaces the halt flags that were stored; when the
\* reconciliation itself raises, the process starts halted and paused.
Boot ==
  /\ ~up
  /\ up' = TRUE
  /\ \E readable, reconciled \in BOOLEAN :
       /\ BootCanFail \/ (readable /\ reconciled)
       /\ ledger' = Hydrated(readable)
       /\ mem' = [Memory0 EXCEPT
                    !.processed = db.keys,
                    !.paused = db.paused \/ ~reconciled,
                    !.reconOk = reconciled /\ Healthy(Hydrated(readable))]
  /\ UNCHANGED <<crashes, faults, tip, signal, db, run>>

\* How far hydration may have come when it raises: nothing; the pause flag; cash and
\* position; the whole ledger, so that only the cycle keys are missing.
HalfHydrated ==
  {<<Ledger0, FALSE>>} \cup
  ({Ledger0, [db.checkpoint EXCEPT !.fills = <<>>]} \cup {Hydrated(r) : r \in BOOLEAN})
     \X {db.paused}

\* The database raises before the cycle keys are loaded: bootstrap_paper_runtime
\* carries on with what is in memory.  The halt flag may or may not have been stored
\* (db does not keep it), and nothing reconciles.
BootFails ==
  /\ ~up /\ BootCanFail
  /\ up' = TRUE
  /\ \E h \in HalfHydrated, ok \in BOOLEAN :
       /\ ledger' = h[1]
       /\ mem' = [Memory0 EXCEPT !.keyed = FALSE, !.paused = h[2],
                                  !.dbOk = FALSE, !.reconOk = ok]
  /\ UNCHANGED <<crashes, faults, tip, signal, db, run>>

Init ==
  /\ up = TRUE /\ crashes = 0 /\ faults = 0 /\ tip = 0
  /\ signal \in Signals
  /\ mem = Memory0 /\ ledger = Ledger0
  /\ db = [lock |-> [t \in Candles |-> NoOwner], expired |-> {}, keys |-> {},
           paused |-> FALSE, checkpoint |-> Ledger0, journal |-> <<>>]
  /\ run = [c \in Cycles |-> Run0]

Cycle(c) ==
  \/ Start(c) \/ Fetch(c) \/ FetchFails(c) \/ Loaded(c)
  \/ LockGet(c) \/ LockTake(c) \/ LockFails(c)
  \/ Process(c) \/ StrategyRaises(c) \/ EvaluateRaises(c)
  \/ Journal(c) \/ JournalFails(c) \/ Mark(c)
  \/ ExportKeys(c) \/ CommitKeys(c) \/ StageSession(c) \/ CommitSession(c)
  \/ PersistFails(c)
  \/ Reconcile(c) \/ ReconcileFails(c) \/ ReleaseGet(c) \/ ReleaseDelete(c) \/ ReleaseFails(c)

Next ==
  \/ \E c \in Cycles : Cycle(c)
  \/ \E t \in Candles : LockExpires(t)
  \/ CandleCloses \/ HealDatabase \/ ReconcileTimer
  \/ Crash \/ Boot \/ BootFails

Spec == Init /\ [][Next]_vars

---------------------------------------------------------------------------
(* Properties *)

\* Memory, ledger, database and cycles have the shapes given above.
TypeOK ==
  /\ up \in BOOLEAN /\ crashes \in 0..MaxCrashes /\ faults \in 0..MaxFaults /\ tip \in 0..MaxCandle
  /\ signal \in Signals
  /\ mem \in Memory /\ ledger \in Ledger /\ db \in Database
  /\ run \in [Cycles -> Run]

\* Two fills of one list on the same candle.
Repeats(fills) ==
  \E i, j \in 1..Len(fills) : i # j /\ fills[i].candle = fills[j].candle

\* "reprocessing the same closed bar does not create a second trade"
\* (run_paper_trading_cycle): within one process, whatever locks expire, are
\* taken over or are released by the wrong cycle, a candle is traded once.
OneTradePerCandle == crashes = 0 => ~Repeats(ledger.fills)

Log == INSTANCE TradeLog WITH cash <- ledger.cash, pos <- ledger.pos, fills <- ledger.fills

\* However the cycles of one process interleave, together they are one trader that
\* walks through the candles once: orders come in the order of the candles, though
\* cycles on older candles may finish late, and every order moves the account of
\* the moment it is placed in, not one that was read before an await.
ImplementsTradeLog == Log!ASpec

\* "restarts cannot double-fill the same candle" (IMPLEMENTATION_REPORT.md),
\* read off the journal, which is what a restart keeps of the fills.
NoDoubleFill == ~Repeats(db.journal)

\* A step of a process that places an order on a candle whose key is durable.
TradesDurableKey ==
  /\ up /\ up' /\ Len(ledger'.fills) > Len(ledger.fills)
  /\ Last(ledger'.fills).candle \in db.keys

\* A process whose start has loaded the cycle keys (load_persisted_cycle_keys) never
\* trades a candle whose key is durable, whatever cycles, faults, crashes and failed
\* starts came before.  It is the keys that count: a start that raises after the
\* ledger is hydrated leaves a process that does trade such a candle.
KeysHonoured == [][mem.keyed => ~TradesDurableKey]_vars

\* Once a durable write of a cycle has failed, no cycle of the process, not even
\* one that was under way, places a further order (until an operator resumes),
\* although reconciliation and the health probe clear their flags again:
\* "Halt new trading when durable writes or recon cannot be completed"
\* (_fail_closed_persistence).
FailClosed ==
  [][(up /\ up' /\ \E c \in Cycles : run[c].failed) => ledger' = ledger]_vars

===========================================================================
