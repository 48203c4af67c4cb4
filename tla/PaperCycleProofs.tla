-------------------------- MODULE PaperCycleProofs --------------------------
(***************************************************************************)
(* Theorems about module PaperCycle, for any number of cycles, candles,    *)
(* faults and crashes, any prices and any verdicts of the strategy:        *)
(*   - a candle is traded at most once within one process, and the cycles  *)
(*     of one process together implement the sequential TradeLog;          *)
(*   - a process that has loaded the cycle keys at its start never trades  *)
(*     a candle whose key is durable;                                      *)
(*   - a failed durable write stops every cycle from ordering.             *)
(* None of them rests on the cycle lock: it expires, is taken over and is  *)
(* released by the wrong owner, and the invariant does not mention it.     *)
(***************************************************************************)
EXTENDS PaperCycle, TLAPS

(* The inductive invariant *)

\* Points of a cycle at which it has a candle to work on.
Working == PCs \ {"idle", "fetch", "done"}

\* A cycle works on a candle that has closed.
TargetsClosed == \A c \in Cycles : run[c].pc \in Working => run[c].target \in 1..tip

\* Nothing of a process survives its crash.
NothingLeft ==
  ~up => /\ mem = Memory0 /\ ledger = Ledger0 /\ crashes > 0
         /\ \A c \in Cycles :
              run[c].pc \in {"idle", "done"} /\ run[c].keys = {} /\ ~run[c].failed

\* A cycle that has handed its candle to process_candle finds it remembered.
ProcessedSeen ==
  \A c \in Cycles : run[c].pc \in {"journal", "mark"} => run[c].target <= mem.last

\* A key that joined _PROCESSED_CYCLE_KEYS after a cycle had looked there belongs
\* to a candle that process_candle rejects.
LateKeysSeen ==
  \A c \in Cycles :
    (run[c].pc \in {"lock", "take", "process"} /\ run[c].target \in mem.processed)
      => run[c].target <= mem.last

\* What a cycle is about to make durable is a subset of the keys in memory.
ExportedKnown == \A c \in Cycles : run[c].keys \subseteq mem.processed

\* A process that has loaded the durable keys knows every one of them.
DurableKnown == (up /\ mem.keyed) => db.keys \subseteq mem.processed

\* A cycle whose durable write failed has paused trading.
FailedPaused == \A c \in Cycles : run[c].failed => mem.paused

\* The fills of the first process are on candles it remembers, later ones on later
\* candles.
FillsAscend ==
  crashes = 0 =>
    /\ \A i \in 1..Len(ledger.fills) : ledger.fills[i].candle <= mem.last
    /\ \A i, j \in 1..Len(ledger.fills) :
         i < j => ledger.fills[i].candle < ledger.fills[j].candle

\* The parts that are about the control of the cycles.
Control ==
  /\ TargetsClosed /\ NothingLeft /\ ProcessedSeen /\ LateKeysSeen
  /\ ExportedKnown /\ DurableKnown /\ FailedPaused /\ FillsAscend

IInv == TypeOK /\ Control

---------------------------------------------------------------------------
(* Types *)

\* A reconciliation verdict is a Boolean.
LEMMA HealthyBoolean == ASSUME NEW l PROVE Healthy(l) \in BOOLEAN
  BY DEF Healthy

\* A step of a cycle from one await to the next leaves the rest of what is known
\* of the cycles alone.
LEMMA GotoEffect ==
  ASSUME run \in [Cycles -> Run], NEW c \in Cycles, NEW pc \in PCs, Goto(c, pc)
  PROVE  /\ run' \in [Cycles -> Run]
         /\ \A d \in Cycles :
              /\ run'[d].pc = IF d = c THEN pc ELSE run[d].pc
              /\ run'[d].target = run[d].target /\ run'[d].keys = run[d].keys
              /\ run'[d].failed = run[d].failed
  BY DEF Goto, Run

\* An order on a closed candle gives a ledger and a fill of the right shape.
LEMMA TradedType ==
  ASSUME TypeOK, NEW t \in Candles, Acts(t)
  PROVE  Traded(t) \in Ledger /\ FillOn(t) \in [candle: Candles, side: {"BUY", "SELL"}]
<1>1. Price[t] \in Nat
  BY CandlesAssumption
<1>2. FillOn(t) \in [candle: Candles, side: {"BUY", "SELL"}]
  BY DEF FillOn
<1>3. ledger.cash \in Int /\ ledger.pos \in 0..1 /\ ledger.fills \in Fills
  BY DEF TypeOK, Ledger
<1>4. Append(ledger.fills, FillOn(t)) \in Fills
  BY <1>2, <1>3 DEF Fills
<1>5. IF signal[t] = "BUY" THEN ledger.pos + 1 \in 0..1 ELSE ledger.pos - 1 \in 0..1
  BY <1>3 DEF Acts
<1> QED
  BY <1>1, <1>2, <1>3, <1>4, <1>5 DEF Traded, Ledger

\* The elements of a sequence over S are in S.
LEMMA SeqElement == ASSUME NEW S, NEW s \in Seq(S), NEW i \in 1..Len(s) PROVE s[i] \in S
  OBVIOUS

\* The candles of the fills are numbers.
LEMMA FillCandles ==
  ASSUME TypeOK
  PROVE  \A i \in 1..Len(ledger.fills) : ledger.fills[i].candle \in Int
<1>1. ledger.fills \in Seq([candle: Candles, side: {"BUY", "SELL"}])
  BY DEF TypeOK, Ledger, Fills
<1>2. \A i \in 1..Len(ledger.fills) : ledger.fills[i] \in [candle: Candles, side: {"BUY", "SELL"}]
  BY <1>1, SeqElement
<1> QED
  BY <1>2 DEF Candles

\* The states a process may be created with are well typed.
LEMMA FreshTypes ==
  /\ Ledger0 \in Ledger /\ Memory0 \in Memory
  /\ Run0 \in Run /\ [Run0 EXCEPT !.pc = "done"] \in Run
<1>1. <<>> \in Fills
  BY DEF Fills
<1>2. Ledger0 \in Ledger
  BY <1>1, CashAssumption DEF Ledger0, Ledger
<1>3. Memory0 \in Memory
  BY CandlesAssumption DEF Memory0, Memory
<1>4. 0 \in 0..MaxCandle /\ {} \in SUBSET Candles
  BY CandlesAssumption
<1>5. Run0 \in Run
  BY <1>2, <1>4 DEF Run0, Run, PCs
<1>6. [Run0 EXCEPT !.pc = "done"] \in Run
  BY <1>5 DEF Run, PCs
<1> QED
  BY <1>2, <1>3, <1>5, <1>6

\* The state before the first cycle has the right shapes.
LEMMA InitTypes == ASSUME Init PROVE TypeOK
<1>1. up \in BOOLEAN /\ crashes \in 0..MaxCrashes /\ faults \in 0..MaxFaults /\ tip \in 0..MaxCandle
  BY FaultsAssumption, CandlesAssumption DEF Init
<1>2. <<>> \in Fills
  BY DEF Fills
<1>3. db \in Database
  BY <1>2, FreshTypes DEF Init, Database
<1> QED
  BY <1>1, <1>3, FreshTypes DEF Init, TypeOK

\* What a step of a cycle writes to memory, ledger, database and its own record has
\* the right shape.
LEMMA CycleTypes ==
  ASSUME IInv, NEW c \in Cycles, Cycle(c)
  PROVE  TypeOK'
<1> DEFINE t == run[c].target
<1> USE DEF IInv, TypeOK
<1>1. run[c] \in Run /\ t \in 0..MaxCandle
  BY DEF Run
<1>2. run[c].pc \in Working => t \in Candles
  BY CandlesAssumption DEF Control, TargetsClosed, Candles
<1>3. UNCHANGED <<crashes, tip, signal>> /\ up' \in BOOLEAN /\ faults' \in 0..MaxFaults
  BY FaultsAssumption DEF Cycle, Start, Fetch, FetchFails, Loaded, LockGet, LockTake, LockFails,
     Process, StrategyRaises, EvaluateRaises, Journal, JournalFails, Mark, ExportKeys, CommitKeys,
     StageSession, CommitSession, PersistFails, Reconcile, ReconcileFails, ReleaseGet,
     ReleaseDelete, ReleaseFails, Raise
<1>4. mem' \in Memory
  <2> USE DEF Memory
  <2>1. CASE Loaded(c)
    BY <1>1, <2>1, CandlesAssumption DEF Loaded
  <2>2. CASE Process(c)
    BY <1>1, <2>2 DEF Process
  <2>3. CASE Mark(c)
    BY <1>2, <2>3 DEF Mark, At, Working, PCs
  <2>4. CASE PersistFails(c) \/ ReconcileFails(c)
    BY <2>4 DEF PersistFails, ReconcileFails
  <2>5. CASE Reconcile(c)
    BY <2>5, HealthyBoolean DEF Reconcile
  <2>6. CASE StrategyRaises(c)
    BY <1>1, <2>6 DEF StrategyRaises
  <2> QED
    BY <2>1, <2>2, <2>3, <2>4, <2>5, <2>6 DEF Cycle, Start, Fetch, FetchFails, LockGet, LockTake,
       LockFails, EvaluateRaises, Journal, JournalFails, ExportKeys, CommitKeys, StageSession,
       CommitSession, ReleaseGet, ReleaseDelete, ReleaseFails
<1>5. ledger' \in Ledger
  <2>1. CASE Process(c)
    <3>1. t \in Candles
      BY <1>2, <2>1 DEF Process, At, Working, PCs
    <3> QED
      BY <2>1, <3>1, TradedType DEF Process
  <2> QED
    BY <2>1 DEF Cycle, Start, Fetch, FetchFails, Loaded, LockGet, LockTake, LockFails,
       StrategyRaises, EvaluateRaises, Journal, JournalFails, Mark, ExportKeys, CommitKeys,
       StageSession, CommitSession, PersistFails, Reconcile, ReconcileFails, ReleaseGet,
       ReleaseDelete, ReleaseFails
<1>6. db' \in Database
  <2> USE DEF Database
  <2>1. CASE LockTake(c)
    <3> DEFINE lock == [db.lock EXCEPT ![t] = c]
    <3>1. lock \in [Candles -> Cycles \cup {NoOwner}]
      BY DEF Database
    <3>2. [db EXCEPT !.lock = lock, !.expired = @ \ {t}] \in Database
      BY <3>1
    <3> QED
      BY <2>1, <3>2 DEF LockTake
  <2>2. CASE Journal(c)
    <3>1. t \in Candles
      BY <1>2, <2>2 DEF Journal, At, Working, PCs
    <3>2. FillOn(t) \in [candle: Candles, side: {"BUY", "SELL"}]
      BY <3>1 DEF FillOn
    <3>3. Append(db.journal, FillOn(t)) \in Fills
      BY <3>2 DEF Fills
    <3> QED
      BY <2>2, <3>3 DEF Journal
  <2>3. CASE CommitKeys(c)
    BY <1>1, <2>3 DEF CommitKeys, Run
  <2>4. CASE CommitSession(c)
    BY <1>1, <2>4 DEF CommitSession, Run
  <2>5. CASE ReleaseDelete(c)
    BY <2>5 DEF ReleaseDelete
  <2> QED
    BY <2>1, <2>2, <2>3, <2>4, <2>5 DEF Cycle, Start, Fetch, FetchFails, Loaded, LockGet,
       LockFails, Process, StrategyRaises, EvaluateRaises, JournalFails, Mark, ExportKeys,
       StageSession,       PersistFails, Reconcile, ReconcileFails, ReleaseGet, ReleaseFails
<1>7. run' \in [Cycles -> Run]
  <2>1. CASE \E pc \in PCs : Goto(c, pc)
    BY <2>1, GotoEffect
  <2>2. CASE Fetch(c)
    <3> DEFINE r == [run[c] EXCEPT !.pc = IF tip = 0 THEN "done" ELSE "loaded", !.target = tip]
    <3>1. r \in Run
      BY <1>1 DEF Run, PCs
    <3> QED
      BY <2>2, <3>1 DEF Fetch
  <2>3. CASE LockGet(c)
    <3> DEFINE held == db.lock[t] # NoOwner
               r == [run[c] EXCEPT !.pc = IF held /\ t \notin db.expired THEN "done" ELSE "take",
                                   !.sawExpired = held]
    <3>1. r \in Run
      BY <1>1 DEF Run, PCs
    <3> QED
      BY <2>3, <3>1 DEF LockGet
  <2>4. CASE ExportKeys(c)
    <3> DEFINE r == [run[c] EXCEPT !.pc = "snapshot", !.keys = mem.processed]
    <3>1. r \in Run
      BY <1>1 DEF Run, PCs, Memory
    <3> QED
      BY <2>4, <3>1 DEF ExportKeys
  <2>5. CASE StageSession(c)
    <3> DEFINE r == [run[c] EXCEPT !.pc = "commit", !.paused = mem.paused, !.ledger = ledger]
    <3>1. r \in Run
      BY <1>1 DEF Run, PCs, Memory
    <3> QED
      BY <2>5, <3>1 DEF StageSession
  <2>6. CASE PersistFails(c) \/ ReconcileFails(c)
    BY <2>6 DEF PersistFails, ReconcileFails, Run, PCs
  <2>7. CASE Start(c) \/ FetchFails(c) \/ Loaded(c) \/ LockTake(c) \/ LockFails(c)
    BY <2>1, <2>7 DEF Start, FetchFails, Loaded, LockTake, LockFails, PCs
  <2>8. CASE Process(c) \/ StrategyRaises(c) \/ EvaluateRaises(c) \/ Journal(c)
             \/ JournalFails(c) \/ Mark(c)
    BY <2>1, <2>8 DEF Process, StrategyRaises, EvaluateRaises, Journal, JournalFails, Mark, PCs
  <2>9. CASE CommitKeys(c) \/ CommitSession(c) \/ Reconcile(c) \/ ReleaseGet(c)
             \/ ReleaseDelete(c) \/ ReleaseFails(c)
    BY <2>1, <2>9 DEF CommitKeys, CommitSession, Reconcile, ReleaseGet, ReleaseDelete,
       ReleaseFails, PCs
  <2> QED
    BY <2>2, <2>3, <2>4, <2>5, <2>6, <2>7, <2>8, <2>9 DEF Cycle
<1> QED
  BY <1>3, <1>4, <1>5, <1>6, <1>7

\* So do the market, the clock, the probes, a crash and a restart.
LEMMA SurroundingTypes ==
  ASSUME TypeOK,
         \/ \E t \in Candles : LockExpires(t)
         \/ CandleCloses \/ HealDatabase \/ ReconcileTimer
         \/ Crash \/ Boot \/ BootFails
  PROVE  TypeOK'
<1> USE DEF TypeOK
<1>1. ASSUME NEW t \in Candles, LockExpires(t) PROVE TypeOK'
  <2>1. db' \in Database
    BY <1>1 DEF LockExpires, Database
  <2> QED
    BY <1>1, <2>1 DEF LockExpires
<1>2. CASE CandleCloses
  <2>1. tip' \in 0..MaxCandle
    BY <1>2, CandlesAssumption DEF CandleCloses
  <2> QED
    BY <1>2, <2>1 DEF CandleCloses
<1>3. CASE HealDatabase
  <2>1. mem' \in Memory
    BY <1>3 DEF HealDatabase, Memory
  <2> QED
    BY <1>3, <2>1 DEF HealDatabase
<1>4. CASE ReconcileTimer
  <2>1. mem' \in Memory
    BY <1>4, HealthyBoolean DEF ReconcileTimer, Memory
  <2> QED
    BY <1>4, <2>1 DEF ReconcileTimer
<1>5. CASE Crash
  <2>1. crashes' \in 0..MaxCrashes
    BY <1>5, FaultsAssumption DEF Crash
  <2>2. mem' \in Memory /\ ledger' \in Ledger /\ run' \in [Cycles -> Run]
    BY <1>5, FreshTypes DEF Crash
  <2> QED
    BY <1>5, <2>1, <2>2 DEF Crash
<1>6. \A r \in BOOLEAN : Hydrated(r) \in Ledger
  BY DEF Hydrated, Database, Ledger
<1>7. CASE Boot
  <2>1. PICK r, k \in BOOLEAN :
          /\ ledger' = Hydrated(r)
          /\ mem' = [Memory0 EXCEPT !.processed = db.keys, !.paused = db.paused \/ ~k,
                                    !.reconOk = k /\ Healthy(Hydrated(r))]
    BY <1>7 DEF Boot
  <2>2. mem' \in Memory
    BY <2>1, FreshTypes, HealthyBoolean DEF Memory, Database
  <2> QED
    BY <1>6, <1>7, <2>1, <2>2 DEF Boot
<1>8. CASE BootFails
  <2>1. PICK h \in HalfHydrated, ok \in BOOLEAN :
          /\ ledger' = h[1]
          /\ mem' = [Memory0 EXCEPT !.keyed = FALSE, !.paused = h[2],
                                    !.dbOk = FALSE, !.reconOk = ok]
    BY <1>8 DEF BootFails
  <2>2. <<>> \in Fills
    BY DEF Fills
  <2>3. [db.checkpoint EXCEPT !.fills = <<>>] \in Ledger
    BY <2>2 DEF Database, Ledger
  <2>4. h[1] \in Ledger /\ h[2] \in BOOLEAN
    <3> DEFINE S == {Ledger0, [db.checkpoint EXCEPT !.fills = <<>>]}
                      \cup {Hydrated(r) : r \in BOOLEAN}
    <3>1. S \subseteq Ledger
      BY <1>6, <2>3, FreshTypes
    <3>2. h = <<Ledger0, FALSE>> \/ h \in S \X {db.paused}
      BY DEF HalfHydrated
    <3>3. db.paused \in BOOLEAN
      BY DEF Database
    <3> HIDE DEF S
    <3>4. CASE h = <<Ledger0, FALSE>>
      BY <3>4, FreshTypes
    <3>5. CASE h \in S \X {db.paused}
      BY <3>1, <3>3, <3>5
    <3> QED
      BY <3>2, <3>4, <3>5
  <2>5. mem' \in Memory
    BY <2>1, <2>4, FreshTypes DEF Memory
  <2> QED
    BY <1>8, <2>1, <2>4, <2>5 DEF BootFails
<1> QED
  BY <1>1, <1>2, <1>3, <1>4, <1>5, <1>7, <1>8

---------------------------------------------------------------------------
(* Control *)

\* Of the cycles, only where cycle c stands changes (and what it has staged).
Moved(c, pc) ==
  \A d \in Cycles :
    /\ run'[d].pc = IF d = c THEN pc ELSE run[d].pc
    /\ run'[d].target = run[d].target /\ run'[d].keys = run[d].keys
    /\ run'[d].failed = run[d].failed

\* The process forgets nothing: neither candles nor keys nor a pause.
Remembers ==
  /\ mem.last <= mem'.last /\ mem'.processed = mem.processed
  /\ mem'.keyed = mem.keyed
  /\ mem.paused => mem'.paused

\* A step that moves a cycle from one await to another, and leaves ledger and
\* durable keys alone, keeps Control if the place it moves to is justified.
LEMMA MovePreserves ==
  ASSUME IInv, TypeOK', up, NEW c \in Cycles, NEW pc, Moved(c, pc), Remembers,
         UNCHANGED <<up, crashes, tip, ledger>>, db'.keys = db.keys,
         pc \in Working => run[c].target \in 1..tip,
         pc \in {"journal", "mark"} => run[c].target <= mem'.last,
         pc \in {"lock", "take", "process"} =>
           (run[c].target \in mem.processed => run[c].target <= mem'.last)
  PROVE  Control'
<1>1. /\ mem.last \in Int /\ mem'.last \in Int
      /\ \A d \in Cycles : run[d].target \in Int
  BY DEF IInv, TypeOK, Memory, Run
<1>2. TargetsClosed'
  BY DEF IInv, Control, TargetsClosed, Moved
<1>3. ProcessedSeen' /\ LateKeysSeen'
  BY <1>1 DEF IInv, Control, ProcessedSeen, LateKeysSeen, Moved, Remembers
<1>4. NothingLeft' /\ ExportedKnown' /\ DurableKnown' /\ FailedPaused'
  BY DEF IInv, Control, NothingLeft, ExportedKnown, DurableKnown, FailedPaused, Moved, Remembers
<1>5. FillsAscend'
  BY <1>1, FillCandles DEF IInv, Control, FillsAscend, Remembers
<1> QED
  BY <1>2, <1>3, <1>4, <1>5 DEF Control

\* The steps of a cycle that only move on.
LEMMA MovesPreserve ==
  ASSUME IInv, TypeOK', NEW c \in Cycles,
         \/ Start(c) \/ FetchFails(c) \/ LockGet(c) \/ LockTake(c) \/ LockFails(c)
         \/ EvaluateRaises(c) \/ Journal(c) \/ JournalFails(c)
         \/ StageSession(c) \/ CommitSession(c)
         \/ ReleaseGet(c) \/ ReleaseDelete(c) \/ ReleaseFails(c)
  PROVE  Control'
<1> DEFINE t == run[c].target
<1>1. run[c].pc \in Working => t \in 1..tip
  BY DEF IInv, Control, TargetsClosed
<1>2. run[c].pc \in {"journal", "mark"} => t <= mem.last
  BY DEF IInv, Control, ProcessedSeen
<1>3. run[c].pc \in {"lock", "take", "process"} => (t \in mem.processed => t <= mem.last)
  BY DEF IInv, Control, LateKeysSeen
<1>4. UNCHANGED <<up, crashes, tip, mem, ledger>> /\ up /\ db'.keys = db.keys
  <2>1. db \in Database
    BY DEF IInv, TypeOK
  <2>2. CASE Start(c) \/ FetchFails(c) \/ LockGet(c) \/ LockFails(c) \/ EvaluateRaises(c)
    BY <2>2 DEF Start, FetchFails, LockGet, LockFails, EvaluateRaises, At
  <2>3. CASE JournalFails(c) \/ StageSession(c) \/ ReleaseGet(c) \/ ReleaseFails(c)
    BY <2>3 DEF JournalFails, StageSession, ReleaseGet, ReleaseFails, At
  <2>4. CASE LockTake(c)
    BY <2>1, <2>4 DEF LockTake, At, Database
  <2>5. CASE Journal(c)
    BY <2>1, <2>5 DEF Journal, At, Database
  <2>6. CASE CommitSession(c)
    BY <2>1, <2>6 DEF CommitSession, At, Database
  <2>7. CASE ReleaseDelete(c)
    BY <2>1, <2>7 DEF ReleaseDelete, At, Database
  <2> QED
    BY <2>2, <2>3, <2>4, <2>5, <2>6, <2>7
<1>5. mem.last <= mem.last
  BY DEF IInv, TypeOK, Memory
<1>6. Remembers
  BY <1>4, <1>5 DEF Remembers
<1>7. ASSUME NEW pc \in PCs, Goto(c, pc) PROVE Moved(c, pc)
  BY <1>7, GotoEffect, SMTT(30) DEF Moved, IInv, TypeOK
<1>8. \E pc \in PCs :
        /\ Moved(c, pc)
        /\ pc \in Working => run[c].pc \in Working
        /\ pc \in {"journal", "mark"} => run[c].pc \in {"journal", "mark"}
        /\ pc \in {"lock", "take", "process"} => run[c].pc \in {"lock", "take", "process"}
  <2> USE DEF At, PCs, Working
  <2>1. CASE Start(c) \/ FetchFails(c) \/ LockFails(c)
    <3>1. \E pc \in {"fetch", "done"} : Goto(c, pc) /\ (pc = "fetch" => run[c].pc = "idle")
      BY <2>1 DEF Start, FetchFails, LockFails
    <3> QED
      BY <3>1, <1>7
  <2>2. CASE LockGet(c)
    <3> DEFINE pc == IF db.lock[t] # NoOwner /\ t \notin db.expired THEN "done" ELSE "take"
    <3>1. Moved(c, pc)
      BY <2>2, ZenonT(60) DEF LockGet, Moved, IInv, TypeOK, Run
    <3>2. pc \in {"done", "take"} /\ run[c].pc = "lock"
      BY <2>2 DEF LockGet
    <3> HIDE DEF pc
    <3> QED
      BY <3>1, <3>2
  <2>3. CASE LockTake(c)
    BY <2>3, <1>7 DEF LockTake
  <2>4. CASE EvaluateRaises(c) \/ Journal(c) \/ JournalFails(c)
    BY <2>4, <1>7 DEF EvaluateRaises, Journal, JournalFails
  <2>5. CASE StageSession(c)
    <3>1. Moved(c, "commit")
      BY <2>5 DEF StageSession, Moved, IInv, TypeOK, Run
    <3> QED
      BY <2>5, <3>1 DEF StageSession
  <2>6. CASE CommitSession(c) \/ ReleaseGet(c) \/ ReleaseDelete(c) \/ ReleaseFails(c)
    BY <2>6, <1>7 DEF CommitSession, ReleaseGet, ReleaseDelete, ReleaseFails
  <2> QED
    BY <2>1, <2>2, <2>3, <2>4, <2>5, <2>6
<1> QED
  BY <1>1, <1>2, <1>3, <1>4, <1>6, <1>8, MovePreserves

\* load_closed_candles: the cycle gets its candle, one that has closed.
LEMMA FetchPreserves ==
  ASSUME IInv, NEW c \in Cycles, Fetch(c)
  PROVE  Control'
<1> DEFINE pc == IF tip = 0 THEN "done" ELSE "loaded"
<1>1. \A d \in Cycles :
        /\ run'[d].pc = IF d = c THEN pc ELSE run[d].pc
        /\ run'[d].target = IF d = c THEN tip ELSE run[d].target
        /\ run'[d].keys = run[d].keys /\ run'[d].failed = run[d].failed
  BY DEF Fetch, IInv, TypeOK, Run
<1>2. /\ tip \in Nat /\ UNCHANGED <<tip, mem>>
      /\ pc \in {"done", "loaded"} /\ (pc = "loaded" => tip # 0)
  BY CandlesAssumption DEF Fetch, IInv, TypeOK
<1> HIDE DEF pc
<1>3. TargetsClosed'
  BY <1>1, <1>2 DEF IInv, Control, TargetsClosed, Working
<1>4. ProcessedSeen' /\ LateKeysSeen'
  BY <1>1, <1>2 DEF IInv, Control, ProcessedSeen, LateKeysSeen
<1>5. NothingLeft' /\ ExportedKnown' /\ DurableKnown' /\ FailedPaused' /\ FillsAscend'
  BY <1>1 DEF Fetch, At, IInv, Control, NothingLeft, ExportedKnown, DurableKnown, FailedPaused,
     FillsAscend
<1> QED
  BY <1>3, <1>4, <1>5 DEF Control

\* The replay check: a cycle goes on only with a candle whose key is not known.
LEMMA LoadedPreserves ==
  ASSUME IInv, TypeOK', NEW c \in Cycles, Loaded(c)
  PROVE  Control'
<1> DEFINE t == run[c].target
           pc == IF t \in mem.processed THEN "done" ELSE "lock"
<1>1. Moved(c, pc)
  BY GotoEffect DEF Loaded, Moved, IInv, TypeOK, PCs
<1>2. Remembers
  <2>1. mem \in Memory /\ t \in Int
    BY DEF IInv, TypeOK, Run
  <2> QED
    BY <2>1 DEF Loaded, Remembers, Memory
<1>3. t \in 1..tip
  BY DEF Loaded, At, IInv, Control, TargetsClosed, Working, PCs
<1> QED
  BY <1>1, <1>2, <1>3, MovePreserves DEF Loaded, At

\* The reconciliation at the end of a cycle changes its flag only.
LEMMA ReconcilePreserves ==
  ASSUME IInv, TypeOK', NEW c \in Cycles, Reconcile(c)
  PROVE  Control'
<1>1. Moved(c, "release")
  BY GotoEffect DEF Reconcile, Moved, IInv, TypeOK, PCs
<1>2. Remembers
  BY DEF Reconcile, Remembers, IInv, TypeOK, Memory
<1>3. run[c].target \in 1..tip
  BY DEF Reconcile, At, IInv, Control, TargetsClosed, Working, PCs
<1> QED
  BY <1>1, <1>2, <1>3, MovePreserves DEF Reconcile, At

\* A strategy that raises has its candle remembered all the same.
LEMMA StrategyPreserves ==
  ASSUME IInv, TypeOK', NEW c \in Cycles, StrategyRaises(c)
  PROVE  Control'
<1> DEFINE t == run[c].target
<1>1. t \in 1..tip /\ t \in Int
  BY DEF StrategyRaises, At, IInv, Control, TargetsClosed, Working, PCs
<1>2. mem.last \in Int /\ mem'.last = t /\ Remembers
  BY <1>1 DEF StrategyRaises, Remembers, IInv, TypeOK, Memory
<1>3. Moved(c, "mark")
  BY GotoEffect DEF StrategyRaises, Moved, IInv, TypeOK, PCs
<1> QED
  BY <1>1, <1>2, <1>3, MovePreserves DEF StrategyRaises, At

\* process_candle: a candle that is not newer than the last one is rejected, any
\* other is remembered before an order on it is placed.
LEMMA ProcessPreserves ==
  ASSUME IInv, TypeOK', NEW c \in Cycles, Process(c)
  PROVE  Control'
<1> DEFINE t == run[c].target
<1>1. t \in 1..tip /\ t \in Int
  BY DEF Process, At, IInv, Control, TargetsClosed, Working, PCs
<1>2. up /\ mem.last \in Int /\ mem'.last \in Int
  BY DEF Process, At, IInv, TypeOK, Memory
<1>3. t <= mem'.last /\ Remembers
  BY <1>1, <1>2 DEF Process, Remembers, IInv, TypeOK, Memory
<1>4. CASE UNCHANGED ledger
  <2>1. PICK pc \in {"journal", "mark"} : Moved(c, pc)
    BY GotoEffect DEF Process, Moved, IInv, TypeOK, PCs
  <2> QED
    BY <1>1, <1>2, <1>3, <1>4, <2>1, MovePreserves DEF Process
<1>5. CASE t > mem.last /\ mem'.last = t /\ ledger' = Traded(t) /\ Goto(c, "journal")
  <2>1. Moved(c, "journal")
    BY <1>5, GotoEffect DEF Moved, IInv, TypeOK, PCs
  <2>2. UNCHANGED <<up, crashes, tip, db>>
    BY DEF Process
  <2>3. TargetsClosed'
    BY <1>1, <2>1, <2>2 DEF IInv, Control, TargetsClosed, Moved
  <2>4. ProcessedSeen' /\ LateKeysSeen'
    <3>1. \A d \in Cycles : run[d].target \in Int
      BY DEF IInv, TypeOK, Run
    <3> QED
      BY <1>2, <1>3, <2>1, <3>1 DEF IInv, Control, ProcessedSeen, LateKeysSeen, Moved, Remembers
  <2>5. NothingLeft' /\ ExportedKnown' /\ DurableKnown' /\ FailedPaused'
    BY <1>2, <1>3, <2>1, <2>2
       DEF IInv, Control, NothingLeft, ExportedKnown, DurableKnown, FailedPaused, Moved, Remembers
  <2>6. FillsAscend'
    <3> DEFINE n == Len(ledger.fills)
    <3>1. n \in Nat /\ ledger.fills \in Seq([candle: Candles, side: {"BUY", "SELL"}])
      BY DEF IInv, TypeOK, Ledger, Fills
    <3>2. ledger'.fills = Append(ledger.fills, FillOn(t))
      BY <1>5 DEF Traded
    <3>3. /\ Len(ledger'.fills) = n + 1 /\ ledger'.fills[n + 1] = FillOn(t)
          /\ \A i \in 1..n : ledger'.fills[i] = ledger.fills[i]
      BY <3>1, <3>2
    <3>4. FillOn(t).candle = t
      BY DEF FillOn
    <3>5. ASSUME crashes = 0
          PROVE  /\ \A i \in 1..n : ledger'.fills[i].candle < t /\ ledger'.fills[i].candle <= t
                 /\ \A i, j \in 1..n : i < j => ledger'.fills[i].candle < ledger'.fills[j].candle
      <4>1. \A i \in 1..n : ledger.fills[i].candle \in Int
        BY FillCandles DEF IInv
      <4>2. \A i \in 1..n : ledger.fills[i].candle <= mem.last
        BY <3>5 DEF IInv, Control, FillsAscend
      <4>3. \A i, j \in 1..n : i < j => ledger.fills[i].candle < ledger.fills[j].candle
        BY <3>5 DEF IInv, Control, FillsAscend
      <4>4. \A i \in 1..n : ledger.fills[i].candle < t /\ ledger.fills[i].candle <= t
        BY <1>1, <1>2, <1>5, <4>1, <4>2
      <4> QED
        BY <3>3, <4>3, <4>4
    <3>6. \A i \in 1..(n + 1) : i \in 1..n \/ i = n + 1
      BY <3>1
    <3> HIDE DEF n
    <3>7. ASSUME crashes = 0, NEW i \in 1..(n + 1)
          PROVE  ledger'.fills[i].candle <= mem'.last
      BY <1>1, <1>5, <3>3, <3>4, <3>5, <3>6, <3>7
    <3>8. ASSUME crashes = 0, NEW i \in 1..(n + 1), NEW j \in 1..(n + 1), i < j
          PROVE  ledger'.fills[i].candle < ledger'.fills[j].candle
      <4>1. i \in 1..n
        BY <3>1, <3>8
      <4>2. CASE j \in 1..n
        BY <3>5, <3>8, <4>1, <4>2
      <4>3. CASE j = n + 1
        BY <3>3, <3>4, <3>5, <3>8, <4>1, <4>3
      <4> QED
        BY <3>6, <4>2, <4>3
    <3> QED
      BY <2>2, <3>3, <3>7, <3>8 DEF FillsAscend
  <2> QED
    BY <2>3, <2>4, <2>5, <2>6 DEF Control
<1> QED
  BY <1>2, <1>4, <1>5 DEF Process, IInv, TypeOK, Memory

\* A key joins the ones in memory: cycles that looked before find its candle
\* remembered.
LEMMA MarkPreserves ==
  ASSUME IInv, NEW c \in Cycles, Mark(c)
  PROVE  Control'
<1> DEFINE t == run[c].target
<1>1. Moved(c, "keys")
  BY GotoEffect DEF Mark, Moved, IInv, TypeOK, PCs
<1>2. /\ mem'.last = mem.last /\ mem'.processed = mem.processed \cup {t}
      /\ mem'.keyed = mem.keyed /\ mem'.paused = mem.paused
  BY DEF Mark, IInv, TypeOK, Memory
<1>3. up /\ UNCHANGED <<up, crashes, tip, ledger, db>> /\ run[c].pc = "mark"
  BY DEF Mark, At
<1>4. t <= mem.last /\ t \in 1..tip
  BY <1>3 DEF IInv, Control, ProcessedSeen, TargetsClosed, Working, PCs
<1>5. TargetsClosed' /\ ProcessedSeen' /\ LateKeysSeen'
  BY <1>1, <1>2, <1>3, <1>4
     DEF IInv, Control, TargetsClosed, ProcessedSeen, LateKeysSeen, Moved
<1>6. NothingLeft' /\ ExportedKnown' /\ DurableKnown' /\ FailedPaused' /\ FillsAscend'
  BY <1>1, <1>2, <1>3
     DEF IInv, Control, NothingLeft, ExportedKnown, DurableKnown, FailedPaused, FillsAscend, Moved
<1> QED
  BY <1>5, <1>6 DEF Control

\* The keys a cycle collects, and those it commits, are keys in memory.
LEMMA KeysPreserve ==
  ASSUME IInv, NEW c \in Cycles, ExportKeys(c) \/ CommitKeys(c)
  PROVE  Control'
<1>1. PICK pc \in {"snapshot", "stage"} :
        \A d \in Cycles :
          /\ run'[d].pc = IF d = c THEN pc ELSE run[d].pc
          /\ run'[d].target = run[d].target /\ run'[d].failed = run[d].failed
          /\ run'[d].keys \in {run[d].keys, mem.processed}
  BY GotoEffect DEF ExportKeys, CommitKeys, IInv, TypeOK, Run, PCs
<1>2. db'.keys \in {db.keys, run[c].keys}
  BY DEF ExportKeys, CommitKeys, IInv, TypeOK, Database
<1>3. up /\ UNCHANGED <<up, crashes, tip, mem, ledger>> /\ run[c].pc \in Working
  BY DEF ExportKeys, CommitKeys, At, Working, PCs
<1>4. TargetsClosed' /\ ProcessedSeen' /\ LateKeysSeen'
  BY <1>1, <1>3 DEF IInv, Control, TargetsClosed, ProcessedSeen, LateKeysSeen
<1>5. NothingLeft' /\ ExportedKnown' /\ DurableKnown' /\ FailedPaused' /\ FillsAscend'
  BY <1>1, <1>2, <1>3
     DEF IInv, Control, NothingLeft, ExportedKnown, DurableKnown, FailedPaused, FillsAscend
<1> QED
  BY <1>4, <1>5 DEF Control

\* _fail_closed_persistence pauses trading in the step that records the failure.
LEMMA FailurePreserves ==
  ASSUME IInv, NEW c \in Cycles, PersistFails(c) \/ ReconcileFails(c)
  PROVE  Control'
<1>1. PICK pc \in {"reconcile", "release"} :
        \A d \in Cycles :
          /\ run'[d].pc = IF d = c THEN pc ELSE run[d].pc
          /\ run'[d].target = run[d].target /\ run'[d].keys = run[d].keys
  BY DEF PersistFails, ReconcileFails, IInv, TypeOK, Run
<1>2. /\ mem'.last = mem.last /\ mem'.processed = mem.processed
      /\ mem'.keyed = mem.keyed /\ mem'.paused
  BY DEF PersistFails, ReconcileFails, IInv, TypeOK, Memory
<1>3. up /\ UNCHANGED <<up, crashes, tip, ledger, db>> /\ run[c].pc \in Working
  BY DEF PersistFails, ReconcileFails, Persisting, At, Working, PCs
<1>4. TargetsClosed' /\ ProcessedSeen' /\ LateKeysSeen'
  BY <1>1, <1>2, <1>3 DEF IInv, Control, TargetsClosed, ProcessedSeen, LateKeysSeen
<1>5. NothingLeft' /\ ExportedKnown' /\ DurableKnown' /\ FailedPaused' /\ FillsAscend'
  BY <1>1, <1>2, <1>3
     DEF IInv, Control, NothingLeft, ExportedKnown, DurableKnown, FailedPaused, FillsAscend
<1> QED
  BY <1>4, <1>5 DEF Control

\* Outside the cycles, only a crash and a restart touch what Control is about.
LEMMA SurroundingsPreserve ==
  ASSUME IInv,
         \/ \E t \in Candles : LockExpires(t)
         \/ CandleCloses \/ HealDatabase \/ ReconcileTimer
         \/ Crash \/ Boot \/ BootFails
  PROVE  Control'
<1> USE DEF IInv, Control
<1>1. CASE HealDatabase \/ ReconcileTimer \/ \E t \in Candles : LockExpires(t)
  <2>1. /\ up' = up /\ (~up => mem' = mem) /\ UNCHANGED <<crashes, tip, ledger, run>>
        /\ mem'.last = mem.last /\ mem'.processed = mem.processed
        /\ mem'.keyed = mem.keyed /\ mem'.paused = mem.paused /\ db'.keys = db.keys
    BY <1>1 DEF HealDatabase, ReconcileTimer, LockExpires, TypeOK, Memory, Database
  <2> QED
    BY <2>1 DEF TargetsClosed, NothingLeft, ProcessedSeen, LateKeysSeen, ExportedKnown,
       DurableKnown, FailedPaused, FillsAscend
<1>2. CASE CandleCloses
  <2>1. tip \in Nat /\ tip' = tip + 1 /\ UNCHANGED <<up, crashes, mem, ledger, db, run>>
    BY <1>2, CandlesAssumption DEF CandleCloses, TypeOK
  <2>2. TargetsClosed'
    BY <2>1 DEF TargetsClosed
  <2> QED
    BY <2>1, <2>2 DEF NothingLeft, ProcessedSeen, LateKeysSeen, ExportedKnown,
       DurableKnown, FailedPaused, FillsAscend
<1>3. CASE Crash
  <2>1. /\ ~up' /\ mem' = Memory0 /\ ledger' = Ledger0 /\ crashes' > 0
        /\ \A c \in Cycles :
             run'[c].pc \in {"idle", "done"} /\ run'[c].keys = {} /\ ~run'[c].failed
    BY <1>3, FaultsAssumption DEF Crash, Run0, TypeOK
  <2> QED
    BY <2>1 DEF TargetsClosed, NothingLeft, ProcessedSeen, LateKeysSeen, ExportedKnown,
       DurableKnown, FailedPaused, FillsAscend, Working
<1>4. CASE Boot \/ BootFails
  <2>1. /\ up' /\ UNCHANGED <<crashes, run, db>> /\ crashes > 0
        /\ \A c \in Cycles :
             run[c].pc \in {"idle", "done"} /\ run[c].keys = {} /\ ~run[c].failed
    BY <1>4 DEF Boot, BootFails, NothingLeft
  <2>2. mem'.keyed => mem'.processed = db.keys
    BY <1>4 DEF Boot, BootFails, Memory0, Memory
  <2>3. crashes' # 0
    BY <2>1, FaultsAssumption DEF TypeOK
  <2> QED
    BY <2>1, <2>2, <2>3 DEF TargetsClosed, NothingLeft, ProcessedSeen, LateKeysSeen, ExportedKnown,
       DurableKnown, FailedPaused, FillsAscend, Working
<1> QED
  BY <1>1, <1>2, <1>3, <1>4

---------------------------------------------------------------------------
(* The theorems *)

\* The state before the first cycle satisfies IInv.
LEMMA InitIInv == Init => IInv
<1> SUFFICES ASSUME Init PROVE IInv
  OBVIOUS
<1>1. \A c \in Cycles :
        run[c].pc = "idle" /\ run[c].keys = {} /\ run[c].failed = FALSE
  BY DEF Init, Run0
<1>2. ledger.fills = <<>> /\ up /\ db.keys = {}
  BY DEF Init, Ledger0
<1> QED
  BY <1>1, <1>2, InitTypes
     DEF IInv, Control, TargetsClosed, NothingLeft, ProcessedSeen, LateKeysSeen, ExportedKnown,
         DurableKnown, FailedPaused, FillsAscend, Working

\* Every step keeps IInv.
LEMMA NextIInv == IInv /\ [Next]_vars => IInv'
<1> SUFFICES ASSUME IInv, [Next]_vars PROVE IInv'
  OBVIOUS
<1>1. ASSUME NEW c \in Cycles, Cycle(c) PROVE IInv'
  <2>1. TypeOK'
    BY <1>1, CycleTypes
  <2>2. Control'
    BY <1>1, <2>1, MovesPreserve, FetchPreserves, LoadedPreserves, StrategyPreserves,
       ProcessPreserves,
       MarkPreserves, KeysPreserve, ReconcilePreserves, FailurePreserves DEF Cycle
  <2> QED
    BY <2>1, <2>2 DEF IInv
<1>2. CASE \/ \E t \in Candles : LockExpires(t)
           \/ CandleCloses \/ HealDatabase \/ ReconcileTimer
           \/ Crash \/ Boot \/ BootFails
  BY <1>2, SurroundingTypes, SurroundingsPreserve DEF IInv
<1>3. CASE UNCHANGED vars
  BY <1>3 DEF vars, IInv, TypeOK, Control, TargetsClosed, NothingLeft, ProcessedSeen,
     LateKeysSeen, ExportedKnown, DurableKnown, FailedPaused, FillsAscend
<1> QED
  BY <1>1, <1>2, <1>3 DEF Next

\* IInv holds throughout, whatever cycles, faults, crashes and restarts come.
THEOREM Invariance == Spec => []IInv
  BY InitIInv, NextIInv, PTL DEF Spec

\* Memory, ledger, database and cycles keep their shapes.
THEOREM TypeCorrect == Spec => []TypeOK
  BY Invariance, PTL DEF IInv

\* Within one process, a candle is traded at most once: what keeps the cycles of
\* run_paper_trading_cycle apart is process_candle's memory of the last candle.
THEOREM OneTradeAlways == Spec => []OneTradePerCandle
<1>1. IInv => OneTradePerCandle
  <2> SUFFICES ASSUME IInv, crashes = 0,
                      NEW i \in 1..Len(ledger.fills), NEW j \in 1..Len(ledger.fills), i # j
               PROVE  ledger.fills[i].candle # ledger.fills[j].candle
    BY DEF OneTradePerCandle, Repeats
  <2>1. i < j \/ j < i
    OBVIOUS
  <2>2. ledger.fills[i].candle < ledger.fills[j].candle \/ ledger.fills[j].candle < ledger.fills[i].candle
    BY <2>1 DEF IInv, Control, FillsAscend
  <2> QED
    BY <2>2, FillCandles DEF IInv
<1> QED
  BY <1>1, Invariance, PTL

\* The only step of a running process that changes the ledger is an order on a
\* candle newer than any it remembers, placed while nothing is paused.
LEMMA LedgerStep ==
  ASSUME IInv, [Next]_vars, up, up', ledger' # ledger
  PROVE  \E c \in Cycles :
           /\ At(c, "process") /\ run[c].target > mem.last /\ Acts(run[c].target)
           /\ ledger' = Traded(run[c].target)
<1>1. PICK c \in Cycles : Process(c)
  <2>1. ASSUME NEW c \in Cycles, Cycle(c) PROVE Process(c)
    BY <2>1 DEF Cycle, Start, Fetch, FetchFails, Loaded, LockGet, LockTake, LockFails,
       StrategyRaises, EvaluateRaises, Journal, JournalFails, Mark, ExportKeys, CommitKeys,
       StageSession, CommitSession, PersistFails, Reconcile, ReconcileFails, ReleaseGet,
       ReleaseDelete, ReleaseFails
  <2>2. \E c \in Cycles : Cycle(c)
    BY DEF Next, vars, LockExpires, CandleCloses, HealDatabase, ReconcileTimer, Crash, Boot,
       BootFails
  <2> QED
    BY <2>1, <2>2
<1> QED
  BY <1>1 DEF Process

\* "Halt new trading when durable writes or recon cannot be completed": the pause
\* of _fail_closed_persistence outlives the flags that probes and reconciliation
\* clear, and every cycle asks for it in the step that orders.
THEOREM FailClosedAlways == Spec => FailClosed
<1>1. IInv /\ [Next]_vars => [(up /\ up' /\ \E c \in Cycles : run[c].failed) => ledger' = ledger]_vars
  <2> SUFFICES ASSUME IInv, [Next]_vars, up, up', NEW c \in Cycles, run[c].failed,
                      ledger' # ledger
               PROVE  FALSE
    OBVIOUS
  <2>1. mem.paused
    BY DEF IInv, Control, FailedPaused
  <2> QED
    BY <2>1, LedgerStep DEF Acts
<1> QED
  BY <1>1, Invariance, PTL DEF Spec, FailClosed

\* A process that has loaded the cycle keys never trades one of their candles: the
\* replay check of run_paper_trading_cycle and the memory of process_candle close
\* the gap between the look at the keys and the order.
THEOREM KeysHonouredAlways == Spec => KeysHonoured
<1>1. IInv /\ [Next]_vars => [mem.keyed => ~TradesDurableKey]_vars
  <2> SUFFICES ASSUME IInv, [Next]_vars, mem.keyed, TradesDurableKey
               PROVE  FALSE
    OBVIOUS
  <2>1. up /\ up' /\ ledger' # ledger
    BY DEF TradesDurableKey, IInv, TypeOK, Ledger, Fills
  <2>2. PICK c \in Cycles :
          /\ At(c, "process") /\ run[c].target > mem.last
          /\ ledger' = Traded(run[c].target)
    BY <2>1, LedgerStep
  <2>3. Last(ledger'.fills).candle = run[c].target
    BY <2>2 DEF Traded, FillOn, Last, IInv, TypeOK, Ledger, Fills
  <2>4. run[c].target \in mem.processed
    BY <2>1, <2>3 DEF TradesDurableKey, IInv, Control, DurableKnown
  <2>5. run[c].target <= mem.last
    BY <2>2, <2>4 DEF At, IInv, Control, LateKeysSeen
  <2> QED
    BY <2>2, <2>5 DEF IInv, TypeOK, Memory, Run
<1> QED
  BY <1>1, Invariance, PTL DEF Spec, KeysHonoured

---------------------------------------------------------------------------
(* The refinement *)

\* Before the first crash, every step of the cycles is a trade of TradeLog, on a
\* later candle than the last trade and against the account of that moment, or
\* leaves the account alone.
LEMMA RefinementStep ==
  ASSUME IInv, [Next]_vars, crashes' = 0
  PROVE  [Log!ANext]_(Log!avars)
<1>1. up /\ up' /\ crashes = 0
  <2>1. crashes = 0
    <3>1. ASSUME NEW c \in Cycles, Cycle(c) PROVE crashes' = crashes
      BY <3>1 DEF Cycle, Start, Fetch, FetchFails, Loaded, LockGet, LockTake, LockFails, Process,
         StrategyRaises, EvaluateRaises, Journal, JournalFails, Mark, ExportKeys, CommitKeys,
       StageSession, CommitSession, PersistFails, Reconcile, ReconcileFails, ReleaseGet,
       ReleaseDelete, ReleaseFails
    <3>2. crashes' = crashes \/ crashes' = crashes + 1
      BY <3>1 DEF Next, vars, LockExpires, CandleCloses, HealDatabase, ReconcileTimer, Crash,
         Boot, BootFails
    <3> QED
      BY <3>2, FaultsAssumption DEF IInv, TypeOK
  <2>2. up
    BY <2>1 DEF IInv, Control, NothingLeft
  <2>3. up'
    BY NextIInv DEF IInv, Control, NothingLeft
  <2> QED
    BY <2>1, <2>2, <2>3
<1>2. CASE ledger' = ledger
  BY <1>2 DEF Log!avars
<1>3. CASE ledger' # ledger
  <2>1. PICK c \in Cycles :
          /\ At(c, "process") /\ run[c].target > mem.last /\ Acts(run[c].target)
          /\ ledger' = Traded(run[c].target)
    BY <1>1, <1>3, LedgerStep
  <2> DEFINE t == run[c].target
             n == Len(ledger.fills)
  <2>2. t \in Candles /\ t \in Nat /\ 0 < t
    BY <2>1, CandlesAssumption
       DEF At, IInv, TypeOK, Control, TargetsClosed, Working, PCs, Candles
  <2>3. Log!ALast < t
    <3>1. n \in Nat /\ (ledger.fills # <<>> => n \in 1..n)
      BY DEF IInv, TypeOK, Ledger, Fills
    <3>2. n \in 1..n => ledger.fills[n].candle <= mem.last /\ ledger.fills[n].candle \in Int
      BY <1>1, FillCandles DEF IInv, Control, FillsAscend
    <3>3. mem.last \in Int
      BY DEF IInv, TypeOK, Memory
    <3> QED
      BY <2>1, <2>2, <3>1, <3>2, <3>3 DEF Log!ALast
  <2>4. Log!Enter(t) \/ Log!Exit(t)
    BY <2>1, <2>3 DEF Log!Enter, Log!Exit, Acts, Traded, FillOn
  <2> QED
    BY <2>2, <2>4 DEF Log!ANext
<1> QED
  BY <1>2, <1>3

\* As long as the process lives, its interleaved cycles are one trader that walks
\* through the candles once.
THEOREM RefinesTradeLog == MaxCrashes = 0 => (Spec => ImplementsTradeLog)
<1> SUFFICES ASSUME MaxCrashes = 0 PROVE Spec => ImplementsTradeLog
  OBVIOUS
<1>1. Init => Log!AInit
  BY DEF Init, Ledger0, Log!AInit
<1>2. IInv /\ IInv' /\ [Next]_vars => [Log!ANext]_(Log!avars)
  BY RefinementStep DEF IInv, TypeOK
<1> QED
  BY <1>1, <1>2, Invariance, PTL DEF Spec, ImplementsTradeLog, Log!ASpec
=============================================================================
