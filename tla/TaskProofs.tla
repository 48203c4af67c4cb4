----------------------------- MODULE TaskProofs -----------------------------
(***************************************************************************)
(* Theorems about the tasks that run for as long as the process does, and  *)
(* the market data they bring.                                             *)
(*                                                                         *)
(* Module Scheduler: for any number of loop tasks, calls of stop_scheduler *)
(* and commands, and any failure threshold, the scheduler's variables keep *)
(* their types, _OVERLAP_GUARD is held exactly while a task stands inside  *)
(* _run_one_cycle, and so no two cycles overlap.                           *)
(*                                                                         *)
(* Module Feed: for any number of starts, faults, requests and messages,   *)
(* gaps in the numbering are noticed, and the exchange sends what the      *)
(* client subscribed to.                                                   *)
(*                                                                         *)
(* Module MarketHub: for candles in any number and order and for every     *)
(* timeframe, validation accepts exactly the whole series, and so the hub  *)
(* reports healthy only on one.                                            *)
(***************************************************************************)
EXTENDS Scheduler, Feed, MarketHub, SumTheorems

---------------------------------------------------------------------------
(* The scheduler's loop *)

\* The task inside a cycle is the one that holds the guard.
InsideHolds == \A t \in Tasks : loop[t] \in InCycle => guard = t

\* A guard that is held is held by a task inside a cycle: whichever way a cycle
\* ends (return, exception, cancellation in the finally), its guard is released,
\* so a later loop is not locked out for good.
HolderInside == guard # NoTask => loop[guard] \in InCycle

\* The inductive invariant.
IInv == TypeOK /\ InsideHolds /\ HolderInside

USE DEF Tasks, NoTask

\* The state in which the lifespan leaves the scheduler satisfies IInv.
LEMMA InitIInv == Init => IInv
<1> SUFFICES ASSUME Init PROVE IInv
  OBVIOUS
<1>1. PICK started, enabled \in BOOLEAN :
        /\ loop = [t \in Tasks |-> IF started /\ t = 1 THEN "ready" ELSE "none"]
        /\ task = IF started THEN 1 ELSE NoTask
        /\ session = [enabled |-> enabled, paused |-> FALSE, blocked |-> FALSE]
  BY DEF Init
<1>2. TypeOK
  <2>1. loop \in [Tasks -> PCs] /\ task \in Tasks \cup {NoTask}
    BY <1>1, BoundsAssumption DEF PCs
  <2>2. session \in [enabled: BOOLEAN, paused: BOOLEAN, blocked: BOOLEAN]
    BY <1>1
  <2>3. failures \in 0..(Threshold + 1) /\ commands \in 0..MaxCommands
    BY BoundsAssumption, ThresholdAssumption DEF Init
  <2>4. stopper \in [Stoppers -> [pc: {"idle", "waiting", "done"},
                                  on: Tasks \cup {NoTask}, late: BOOLEAN]]
    BY DEF Init
  <2> QED
    BY <2>1, <2>2, <2>3, <2>4 DEF Init, TypeOK
<1>3. \A t \in Tasks : loop[t] \notin InCycle
  BY <1>1 DEF InCycle
<1> QED
  BY <1>2, <1>3 DEF Init, IInv, InsideHolds, HolderInside

---------------------------------------------------------------------------
(* The loop *)

\* What a task does at the top of its loop, and every other step of a loop, keeps
\* the types of the variables.
LEMMA LoopTypes ==
  ASSUME NEW t \in Tasks, TypeOK,
         LoopSteps(t) \/ CycleReturns(t) \/ CycleRaises(t)
  PROVE  TypeOK'
<1>1. CASE LoopTop(t)
  BY <1>1 DEF TypeOK, LoopTop, Goto, PCs
<1>2. CASE CycleReturns(t)
  BY <1>2, ThresholdAssumption DEF TypeOK, CycleReturns, Goto, PCs
<1>3. CASE CycleRaises(t)
  BY <1>3, ThresholdAssumption DEF TypeOK, CycleRaises, Failed, Goto, PCs
<1>4. CASE FailureRecorded(t)
  BY <1>4 DEF TypeOK, FailureRecorded, Goto, PCs
<1>5. CASE Disposed(t)
  BY <1>5 DEF TypeOK, Disposed, Release, Goto, PCs
<1>6. CASE Cancelled(t)
  BY <1>6 DEF TypeOK, Cancelled, Release, Goto, PCs
<1>7. CASE Unwound(t)
  BY <1>7 DEF TypeOK, Unwound, Release, Goto, PCs
<1> QED
  BY <1>1, <1>2, <1>3, <1>4, <1>5, <1>6, <1>7 DEF LoopSteps

\* A step of a loop takes the guard when it enters a cycle and gives it back when
\* it leaves one, on every way out.
LEMMA LoopGuard ==
  ASSUME NEW t \in Tasks, IInv,
         LoopSteps(t) \/ CycleReturns(t) \/ CycleRaises(t)
  PROVE  InsideHolds' /\ HolderInside'
<1> USE DEF IInv, TypeOK, InsideHolds, HolderInside, InCycle, PCs, Goto
<1>1. CASE LoopTop(t)
  <2>1. CASE loop' = [loop EXCEPT ![t] = "cycle"] /\ guard = NoTask /\ guard' = t
    BY <2>1
  <2>2. CASE Goto(t, "done") /\ UNCHANGED guard
    BY <1>1, <2>2 DEF LoopTop
  <2>3. CASE Goto(t, "wait") /\ UNCHANGED guard
    BY <1>1, <2>3 DEF LoopTop
  <2> QED
    BY <1>1, <2>1, <2>2, <2>3 DEF LoopTop
<1>2. CASE CycleReturns(t)
  BY <1>2 DEF CycleReturns
<1>3. CASE CycleRaises(t)
  BY <1>3 DEF CycleRaises
<1>4. CASE FailureRecorded(t)
  BY <1>4 DEF FailureRecorded
<1>5. CASE Disposed(t)
  BY <1>5 DEF Disposed, Release
<1>6. CASE Cancelled(t)
  BY <1>6, ZenonT(60) DEF Cancelled, Release
<1>7. CASE Unwound(t)
  BY <1>7 DEF Unwound, Release
<1> QED
  BY <1>1, <1>2, <1>3, <1>4, <1>5, <1>6, <1>7 DEF LoopSteps

---------------------------------------------------------------------------
(* The handlers *)

\* A call of stop_scheduler touches neither a loop's place nor the guard: it only
\* sets _STOP, cancels, and forgets _TASK.
LEMMA StopPreserves ==
  ASSUME NEW s \in Stoppers, IInv,
         TradingStop(s) \/ Shutdown(s) \/ StopTimesOut(s) \/ StopReturns(s)
  PROVE  IInv'
<1>1. UNCHANGED <<loop, guard>>
  BY DEF TradingStop, Shutdown, StopBegins, StopTimesOut, StopReturns
<1>2. TypeOK'
  <2> USE DEF IInv, TypeOK
  <2>1. CASE TradingStop(s)
    BY <2>1 DEF TradingStop, StopBegins
  <2>2. CASE Shutdown(s)
    BY <2>2 DEF Shutdown, StopBegins
  <2>3. CASE StopTimesOut(s)
    BY <2>3, ZenonT(60) DEF StopTimesOut, Ended
  <2>4. CASE StopReturns(s)
    BY <2>4 DEF StopReturns, Ended
  <2> QED
    BY <2>1, <2>2, <2>3, <2>4
<1> QED
  BY <1>1, <1>2 DEF IInv, InsideHolds, HolderInside

\* Commands are counted up to their bound.
LEMMA CommandCounts ==
  ASSUME TypeOK, Command
  PROVE  commands' \in 0..MaxCommands
  BY BoundsAssumption DEF TypeOK, Command

\* A cleared failure counter is in range.
LEMMA ZeroFailures == 0 \in 0..(Threshold + 1)
  BY ThresholdAssumption

\* start_scheduler creates a task that is not inside a cycle.
LEMMA StartPreserves ==
  ASSUME IInv, TradingStart
  PROVE  IInv'
<1>1. TypeOK'
  <2>0. commands' \in 0..MaxCommands
    BY CommandCounts DEF IInv, TradingStart
  <2>1. CASE ~Ended(task)
    BY <2>0, <2>1 DEF IInv, TypeOK, TradingStart, StartScheduler
  <2>2. CASE Ended(task)
    <3>1. PICK t \in Tasks : Goto(t, "ready") /\ task' = t
      BY <2>2 DEF TradingStart, StartScheduler
    <3> QED
      BY <2>0, <2>2, <3>1, ZeroFailures
         DEF IInv, TypeOK, TradingStart, StartScheduler, Goto, PCs
  <2> QED
    BY <2>1, <2>2
<1>2. InsideHolds' /\ HolderInside'
  BY DEF IInv, TypeOK, InsideHolds, HolderInside, InCycle, TradingStart, StartScheduler, Goto
<1> QED
  BY <1>1, <1>2 DEF IInv

\* The commands that only change controls keep IInv.
LEMMA ControlsPreserve ==
  ASSUME IInv,
         ResumeScheduler \/ \E value \in BOOLEAN : SetPaused(value) \/ TradingKillSwitch(value)
  PROVE  IInv'
<1>1. UNCHANGED <<loop, guard>>
  BY DEF ResumeScheduler, SetPaused, TradingKillSwitch
<1>2. commands' \in 0..MaxCommands
  BY CommandCounts DEF IInv, ResumeScheduler, SetPaused, TradingKillSwitch
<1>3. TypeOK'
  <2> USE DEF IInv, TypeOK
  <2>1. CASE ResumeScheduler
    BY <1>2, <2>1, ZeroFailures DEF ResumeScheduler
  <2>2. ASSUME NEW value \in BOOLEAN, SetPaused(value)
        PROVE  TypeOK'
    BY <1>2, <2>2 DEF SetPaused
  <2>3. ASSUME NEW value \in BOOLEAN, TradingKillSwitch(value)
        PROVE  TypeOK'
    <3>1. session' \in [enabled: BOOLEAN, paused: BOOLEAN, blocked: BOOLEAN]
      BY <2>3 DEF TradingKillSwitch
    <3> QED
      BY <1>2, <2>3, <3>1 DEF TradingKillSwitch
  <2> QED
    BY <2>1, <2>2, <2>3
<1> QED
  BY <1>1, <1>3 DEF IInv, InsideHolds, HolderInside

---------------------------------------------------------------------------
(* The theorems *)

\* IInv is inductive: every step of the loops and of the handlers of
\* trading_scheduler.py preserves it.
THEOREM Invariance == Spec => []IInv
<1>1. IInv /\ [Next]_vars => IInv'
  <2> SUFFICES ASSUME IInv, [Next]_vars PROVE IInv'
    OBVIOUS
  <2>1. ASSUME NEW t \in Tasks, LoopSteps(t) \/ CycleReturns(t) \/ CycleRaises(t)
        PROVE  IInv'
    BY <2>1, LoopTypes, LoopGuard DEF IInv
  <2>2. ASSUME NEW s \in Stoppers,
               TradingStop(s) \/ Shutdown(s) \/ StopTimesOut(s) \/ StopReturns(s)
        PROVE  IInv'
    BY <2>2, StopPreserves
  <2>3. CASE TradingStart
    BY <2>3, StartPreserves
  <2>4. CASE ResumeScheduler \/ \E value \in BOOLEAN : SetPaused(value) \/ TradingKillSwitch(value)
    BY <2>4, ControlsPreserve
  <2>5. CASE UNCHANGED vars
    BY <2>5 DEF vars, IInv, TypeOK, InsideHolds, HolderInside
  <2> QED
    BY <2>1, <2>2, <2>3, <2>4, <2>5 DEF Next
<1> QED
  BY InitIInv, <1>1, PTL DEF Spec

\* The scheduler's globals and its tasks keep their types, and the failure counter
\* stays within the threshold's reach.
THEOREM TypeCorrect == Spec => []TypeOK
  BY Invariance, PTL DEF IInv

\* _OVERLAP_GUARD does its work: at most one task is inside _run_one_cycle, also
\* when starts and stops that cross have left loops that _TASK does not know.
THEOREM NoOverlapAlways == Spec => []NoOverlap
<1>1. IInv => NoOverlap
  <2> SUFFICES ASSUME IInv PROVE NoOverlap
    OBVIOUS
  <2> DEFINE Inside == {t \in Tasks : loop[t] \in InCycle}
  <2>1. Inside = {} \/ Inside = {guard}
    BY DEF IInv, InsideHolds
  <2>2. Cardinality({}) = 0 /\ Cardinality({guard}) = 1
    BY FS_EmptySet, FS_Singleton
  <2> QED
    BY <2>1, <2>2 DEF NoOverlap
<1> QED
  BY <1>1, Invariance, PTL

\* The guard is never lost: whenever it is held, a task is inside a cycle and will
\* release it on its way out.
THEOREM GuardNeverLost == Spec => []HolderInside
  BY Invariance, PTL DEF IInv

---------------------------------------------------------------------------
(* Gaps *)

\* The hole-free part of what was received reaches up to the last message: a
\* message that steps up by at most one then extends it, and one from further
\* below lies in it.
Unbroken ==
  /\ feed \in [seen : Seq(1..MaxSeq), last : 0..MaxSeq, gap : BOOLEAN]
  /\ received.all \subseteq 1..MaxSeq
  /\ (received.all = {}) => (feed.last = 0)
  /\ (received.all # {}) => (feed.last # 0 /\ feed.last \in received.all)
  /\ GapsNoticed

\* What _handle_message leaves of a message past the duplicate check.
LEMMA SequencedIs ==
  ASSUME feed \in [seen : Seq(1..MaxSeq), last : 0..MaxSeq, gap : BOOLEAN],
         NEW n \in 1..MaxSeq, feed' = Sequenced([feed EXCEPT !.seen = Remembered(@, n)], n)
  PROVE  /\ feed' \in [seen : Seq(1..MaxSeq), last : 0..MaxSeq, gap : BOOLEAN]
         /\ feed'.last = n
         /\ ~ feed'.gap => (~ feed.gap /\ (feed.last = 0 \/ n <= feed.last + 1))
<1>1. MaxSeq \in Nat /\ SeenCap \in Nat \ {0}
  BY FeedAssumption
<1> DEFINE ids == Remembered(feed.seen, n)
<1>2. ids \in Seq(1..MaxSeq)
  <2>1. CASE Len(feed.seen) < SeenCap
    BY <2>1 DEF Remembered
  <2>2. CASE ~ (Len(feed.seen) < SeenCap)
    <3>1. feed.seen # << >>
      BY <1>1, <2>2
    <3>2. Tail(feed.seen) \in Seq(1..MaxSeq)
      BY <3>1
    <3> QED BY <2>2, <3>2 DEF Remembered
  <2> QED BY <2>1, <2>2
<1> DEFINE f == [feed EXCEPT !.seen = ids]
<1>3. /\ f \in [seen : Seq(1..MaxSeq), last : 0..MaxSeq, gap : BOOLEAN]
      /\ f.last = feed.last /\ f.gap = feed.gap
  BY <1>2
<1>4. feed' = Sequenced(f, n)
  OBVIOUS
<1> HIDE DEF ids, f
<1> DEFINE up == f.last # 0 /\ n > f.last + 1
<1> DEFINE g == f.gap \/ up
<1>5. g \in BOOLEAN
  OBVIOUS
<1>6. feed' = [f EXCEPT !.gap = g, !.last = n]
  BY <1>4 DEF Sequenced
<1>7. ~ g => (~ feed.gap /\ (feed.last = 0 \/ n <= feed.last + 1))
  <2>1. ~ up => (feed.last = 0 \/ n <= feed.last + 1)
    BY <1>1, <1>3
  <2> QED BY <1>3, <2>1
<1> HIDE DEF g
<1>8. feed' \in [seen : Seq(1..MaxSeq), last : 0..MaxSeq, gap : BOOLEAN]
  <2>1. n \in 0..MaxSeq
    BY <1>1
  <2> DEFINE S == Seq(1..MaxSeq)
             L == 0..MaxSeq
  <2>2. f \in [seen : S, last : L, gap : BOOLEAN] /\ n \in L
    BY <1>3, <2>1
  <2> HIDE DEF S, L
  <2>3. feed' \in [seen : S, last : L, gap : BOOLEAN]
    BY <1>5, <1>6, <2>2, Zenon
  <2> QED BY <2>3 DEF S, L
<1>9. feed'.last = n /\ feed'.gap = g
  BY <1>3, <1>6
<1> QED BY <1>7, <1>8, <1>9

\* One message past the duplicate check.
LEMMA SequencedKeeps ==
  ASSUME Unbroken, NEW n \in 1..MaxSeq,
         feed' = Sequenced([feed EXCEPT !.seen = Remembered(@, n)], n),
         received' = [first |-> IF received.all = {} THEN n ELSE received.first,
                      all |-> received.all \cup {n}]
  PROVE  Unbroken'
<1>1. MaxSeq \in Nat
  BY FeedAssumption
<1>2. /\ feed' \in [seen : Seq(1..MaxSeq), last : 0..MaxSeq, gap : BOOLEAN]
      /\ feed'.last = n
      /\ ~ feed'.gap => (~ feed.gap /\ (feed.last = 0 \/ n <= feed.last + 1))
  BY SequencedIs DEF Unbroken
<1>3. /\ received'.all = received.all \cup {n}
      /\ received'.all \subseteq 1..MaxSeq
      /\ received'.all # {}
      /\ feed'.last # 0 /\ feed'.last \in received'.all
  BY <1>1, <1>2 DEF Unbroken
<1>4. GapsNoticed'
  <2> SUFFICES ASSUME ~ feed'.gap, NEW m \in 1..MaxSeq, received'.first < m,
                      NEW k \in received'.all, k > m
               PROVE  m \in received'.all
    BY DEF GapsNoticed
  <2>1. k \in Int /\ m \in Int /\ n \in Int
    BY <1>1, <1>3
  <2>2. CASE received.all = {}
    <3>1. k = n /\ received'.first = n
      BY <1>3, <2>2
    <3> QED BY <2>1, <3>1
  <2>3. CASE received.all # {}
    <3>1. feed.last # 0 /\ feed.last \in received.all /\ feed.last \in 1..MaxSeq
      BY <1>1, <2>3 DEF Unbroken
    <3>2. ~ feed.gap /\ n <= feed.last + 1 /\ received'.first = received.first
      BY <1>2, <2>3, <3>1
    <3>3. \A j \in received.all : j > m => m \in received.all
      BY <3>2 DEF Unbroken, GapsNoticed
    <3>4. CASE k \in received.all
      BY <1>3, <3>3, <3>4
    <3>5. CASE k = n
      <4>1. m = feed.last \/ feed.last > m
        BY <1>1, <2>1, <3>1, <3>2, <3>5
      <4> QED BY <1>3, <3>1, <3>3, <4>1
    <3> QED BY <1>3, <3>4, <3>5
  <2> QED BY <2>2, <2>3
<1> QED BY <1>2, <1>3, <1>4 DEF Unbroken

\* Every step keeps the received numbers unbroken up to a counted gap.
LEMMA UnbrokenStep ==
  ASSUME Unbroken, [FeedNext]_feedVars
  PROVE  Unbroken'
<1>1. CASE UNCHANGED <<feed, received>>
  BY <1>1 DEF Unbroken, GapsNoticed
<1>2. ASSUME NEW t \in Runs, NEW n \in 1..MaxSeq, NEW future \in BOOLEAN,
             Receives(t, n, future)
      PROVE  Unbroken'
  BY <1>1, <1>2, SequencedKeeps DEF Receives
<1>3. CASE Start \/ StopCloses \/ StopCancels \/ StopEnds \/ Drops \/ \E s \in Symbols : Arrives(s)
  BY <1>1, <1>3 DEF Start, StopCloses, StopCancels, StopEnds, Drops, Arrives
<1>4. ASSUME NEW t \in Runs, TaskStep(t) \/ TaskFails(t)
      PROVE  Unbroken'
  BY <1>1, <1>4 DEF TaskStep, TaskFails
<1>5. ASSUME NEW s \in Symbols, NEW adds \in BOOLEAN, Commands(s, adds)
      PROVE  Unbroken'
  BY <1>1, <1>5 DEF Commands
<1>6. CASE UNCHANGED feedVars
  BY <1>1, <1>6 DEF feedVars
<1> QED BY <1>2, <1>3, <1>4, <1>5, <1>6 DEF FeedNext

\* Whatever messages are lost, repeated or reordered, over however many
\* reconnects, and however few ids the client remembers: a hole in the received
\* numbers means that sequence_gaps was counted.
THEOREM GapsAlwaysNoticed == FeedSpec => []GapsNoticed
<1>1. FeedInit => Unbroken
  <2> SUFFICES ASSUME FeedInit PROVE Unbroken
    OBVIOUS
  <2>1. MaxSeq \in Nat
    BY FeedAssumption
  <2>2. << >> \in Seq(1..MaxSeq)
    OBVIOUS
  <2>3. feed \in [seen : Seq(1..MaxSeq), last : 0..MaxSeq, gap : BOOLEAN]
    BY <2>1, <2>2 DEF FeedInit
  <2> QED BY <2>1, <2>3 DEF FeedInit, Unbroken, GapsNoticed
<1>2. Unbroken /\ [FeedNext]_feedVars => Unbroken'
  BY UnbrokenStep
<1>3. Unbroken => GapsNoticed
  BY DEF Unbroken
<1> QED BY <1>1, <1>2, <1>3, PTL DEF FeedSpec

---------------------------------------------------------------------------
(* Subscriptions *)

TaskStates ==
  [pc : {"none", "top", "connect", "backoff", "subscribe", "send", "recv", "handler",
         "fallback", "cancelled", "ended", "raised"},
   attempt : Nat, left : SUBSET Symbols]

FeedTypes ==
  /\ running \in BOOLEAN /\ stopping \in {"no", "transport", "task"} /\ connected \in BOOLEAN
  /\ overlap \in BOOLEAN
  /\ current \in 0..MaxStarts
  /\ run \in [Runs -> TaskStates]
  /\ subs \in SUBSET Symbols
  /\ wire \in [up : BOOLEAN, subs : SUBSET Symbols, adds : SUBSET Symbols,
               drops : SUBSET Symbols]
  /\ wire.adds \cap wire.drops = {}

\* What the exchange will have been told once all that is on its way has arrived.
Told == (wire.subs \cup wire.adds) \ wire.drops

\* Places of a task that is subscribing, or listening, on what connected says is a
\* connection.
Subscribing == {"subscribe", "send"}
Connected == Subscribing \cup {"recv", "handler"}

\* What the client believes it has subscribed to and what the connection has been
\* told differ at most by what the task has left to subscribe.
InStep(t) ==
  /\ run[t].pc \in Connected => connected
  /\ (run[t].pc \in Subscribing /\ wire.up) =>
        (Told \subseteq subs /\ subs \subseteq Told \cup run[t].left)
  /\ (run[t].pc \in {"recv", "handler"} /\ wire.up) => Told = subs

\* A client that was never started twice at once, or during a stop, has one task,
\* the one that _task names and stop cancels: no other can undo what it subscribed,
\* or clear connected under it.  A stop that waits for its task has one that does
\* nothing any more.
OneTask ==
  /\ \A t \in Runs : Alive(t) => t = current
  /\ stopping = "task" => \A t \in Runs : Alive(t) => At(t, "cancelled")

SubInv == FeedTypes /\ (~ overlap => (OneTask /\ \A t \in Runs : InStep(t)))

\* What a request adds to, or takes from, what the exchange will have been told.
LEMMA SendsTells ==
  ASSUME FeedTypes, NEW s \in Symbols, NEW adds \in BOOLEAN, wire' = Sends(wire, s, adds)
  PROVE  /\ wire' \in [up : BOOLEAN, subs : SUBSET Symbols, adds : SUBSET Symbols,
                       drops : SUBSET Symbols]
         /\ wire'.adds \cap wire'.drops = {}
         /\ wire'.up = wire.up
         /\ wire.up => Told' = IF adds THEN Told \cup {s} ELSE Told \ {s}
<1>1. CASE ~ wire.up
  BY <1>1 DEF FeedTypes, Sends
<1>2. CASE wire.up /\ adds
  <2>1. wire' = [wire EXCEPT !.adds = @ \cup {s}, !.drops = @ \ {s}]
    BY <1>2 DEF Sends
  <2>2. /\ wire'.up = wire.up /\ wire'.subs = wire.subs
        /\ wire'.adds = wire.adds \cup {s} /\ wire'.drops = wire.drops \ {s}
    BY <2>1 DEF FeedTypes
  <2>3. Told' = Told \cup {s}
    BY <2>2 DEF Told
  <2>4. wire' \in [up : BOOLEAN, subs : SUBSET Symbols, adds : SUBSET Symbols,
                  drops : SUBSET Symbols]
    <3> DEFINE a == wire.adds \cup {s}
               d == wire.drops \ {s}
    <3>1. a \in SUBSET Symbols /\ d \in SUBSET Symbols
      BY DEF FeedTypes
    <3>2. wire' = [wire EXCEPT !.adds = a, !.drops = d]
      BY <2>1
    <3> HIDE DEF a, d
    <3> QED BY <3>1, <3>2 DEF FeedTypes
  <2>5. wire'.adds \cap wire'.drops = {}
    BY <2>2 DEF FeedTypes
  <2> QED BY <1>2, <2>2, <2>3, <2>4, <2>5
<1>3. CASE wire.up /\ ~ adds
  <2>1. wire' = [wire EXCEPT !.adds = @ \ {s}, !.drops = @ \cup {s}]
    BY <1>3 DEF Sends
  <2> QED BY <1>3, <2>1 DEF FeedTypes, Told
<1> QED BY <1>1, <1>2, <1>3

\* A fresh connection has been told nothing, and neither has one that is down.
LEMMA FreshTold ==
  /\ Fresh \in [up : BOOLEAN, subs : SUBSET Symbols, adds : SUBSET Symbols,
               drops : SUBSET Symbols]
  /\ Down \in [up : BOOLEAN, subs : SUBSET Symbols, adds : SUBSET Symbols,
               drops : SUBSET Symbols]
  /\ Fresh.adds \cap Fresh.drops = {} /\ Down.adds \cap Down.drops = {}
  /\ (Fresh.subs \cup Fresh.adds) \ Fresh.drops = {} /\ Fresh.up /\ ~ Down.up
BY DEF Fresh, Down

\* A step after which the task is not on the wire.
LEMMA NobodyOnWire ==
  ASSUME NEW t \in Runs, run'[t].pc \notin Connected
  PROVE  InStep(t)'
BY DEF InStep, Connected, Subscribing

\* A step of the task t that leaves every other task, start and stop alone.
LEMMA TaskChange ==
  ASSUME FeedTypes, OneTask, NEW t \in Runs, Alive(t), ~ At(t, "cancelled"),
         UNCHANGED <<current, stopping>>, \A u \in Runs \ {t} : run'[u] = run[u],
         InStep(t)'
  PROVE  OneTask' /\ \A u \in Runs : InStep(u)'
<1>1. stopping' # "task"
  BY DEF OneTask
<1>2. \A u \in Runs : Alive(u)' => u = current'
  BY DEF OneTask, Alive
<1>3. t = current
  BY DEF OneTask
<1>4. \A u \in Runs \ {t} : run'[u].pc \in {"none", "ended", "raised"}
  BY <1>2, <1>3 DEF Alive
<1>5. \A u \in Runs \ {t} : InStep(u)'
  BY <1>4, NobodyOnWire DEF Connected, Subscribing
<1> QED BY <1>1, <1>2, <1>5 DEF OneTask

\* An attempt that raised leaves the task where it is not on the wire.
LEMMA AttemptFailsKeeps ==
  ASSUME FeedTypes, NEW t \in Runs, AttemptFails(t)
  PROVE  /\ UNCHANGED <<running, current, stopping, subs, wire>>
         /\ connected' \in BOOLEAN
         /\ run' \in [Runs -> TaskStates]
         /\ \A u \in Runs \ {t} : run'[u] = run[u]
         /\ run'[t].pc \notin Connected
<1>1. run[t].attempt \in Nat /\ run[t].attempt + 1 \in Nat /\ 1 \in Nat
  BY DEF FeedTypes, TaskStates
<1>2. PICK r \in TaskStates : /\ run' = [run EXCEPT ![t] = r]
                              /\ r.pc \notin Connected
  <2>1. CASE run[t].attempt < MaxAttempts
    <3> DEFINE r == TaskAt("backoff", run[t].attempt + 1, {})
    <3>1. r \in TaskStates /\ r.pc = "backoff"
      BY <1>1 DEF TaskStates, TaskAt
    <3>2. run' = [run EXCEPT ![t] = r]
      BY <2>1 DEF AttemptFails
    <3> QED BY <3>1, <3>2 DEF Connected, Subscribing
  <2>2. CASE ~ (run[t].attempt < MaxAttempts)
    <3> DEFINE r == TaskAt(IF subs # {} THEN "fallback" ELSE "top", 1, {})
    <3>1. r \in TaskStates /\ r.pc \in {"fallback", "top"}
      BY <1>1 DEF TaskStates, TaskAt
    <3>2. run' = [run EXCEPT ![t] = r]
      BY <2>2 DEF AttemptFails
    <3> QED BY <3>1, <3>2 DEF Connected, Subscribing
  <2> QED BY <2>1, <2>2
<1>3. run \in [Runs -> TaskStates]
  BY DEF FeedTypes
<1>4. /\ run' \in [Runs -> TaskStates]
      /\ \A u \in Runs \ {t} : run'[u] = run[u]
      /\ run'[t].pc \notin Connected
  BY <1>2, <1>3
<1>5. connected' \in BOOLEAN
  BY DEF FeedTypes, AttemptFails
<1> QED BY <1>4, <1>5 DEF AttemptFails

\* A step of a task: types, and the task itself.
LEMMA TaskStepKeeps ==
  ASSUME SubInv, NEW t \in Runs, TaskStep(t) \/ TaskFails(t)
  PROVE  SubInv'
<1>1. UNCHANGED <<current, stopping, overlap>> /\ Alive(t) /\ ~ At(t, "cancelled")
  BY DEF TaskStep, TaskFails, RunLoop, AttemptFails, BackoffEnds, Connects, Subscribes, Sent,
         Listens, Loses, FallsBack, Alive, At
<1>a. UNCHANGED <<running>>
  BY DEF TaskStep, TaskFails, RunLoop, AttemptFails, BackoffEnds, Connects, Subscribes, Sent,
         Listens, Loses, FallsBack
<1> SUFFICES /\ FeedTypes'
             /\ \A u \in Runs \ {t} : run'[u] = run[u]
             /\ InStep(t) => InStep(t)'
  BY <1>1, TaskChange DEF SubInv
<1> USE DEF SubInv
<1>2. CASE RunLoop(t)
  <2>1. \E pc \in {"connect", "ended"} : run' = [run EXCEPT ![t] = TaskAt(pc, 1, {})]
    BY <1>2 DEF RunLoop
  <2>2. /\ run' \in [Runs -> TaskStates] /\ \A u \in Runs \ {t} : run'[u] = run[u]
        /\ run'[t].pc \in {"connect", "ended"}
    BY <2>1 DEF FeedTypes, TaskStates, TaskAt
  <2>3. InStep(t)'
    BY <2>2, NobodyOnWire DEF Connected, Subscribing
  <2> QED BY <1>1, <1>a, <1>2, <2>2, <2>3 DEF FeedTypes, RunLoop
<1>3. CASE BackoffEnds(t) \/ FallsBack(t)
  <2>1. \E pc \in {"connect", "top"} : Goes(t, pc)
    BY <1>3 DEF BackoffEnds, FallsBack
  <2>2. /\ run' \in [Runs -> TaskStates] /\ \A u \in Runs \ {t} : run'[u] = run[u]
        /\ run'[t].pc \in {"connect", "top"}
    BY <2>1 DEF FeedTypes, TaskStates, Goes
  <2>3. InStep(t)'
    BY <2>2, NobodyOnWire DEF Connected, Subscribing
  <2> QED BY <1>1, <1>a, <1>3, <2>2, <2>3 DEF FeedTypes, BackoffEnds, FallsBack
<1>4. CASE Connects(t)
  <2>1. /\ run' = [run EXCEPT ![t].pc = "subscribe",
                             ![t].left = IF subs # {} THEN subs ELSE Symbols]
        /\ wire' = Fresh /\ connected' = TRUE /\ subs' = subs
    BY <1>4 DEF Connects
  <2>2. /\ run' \in [Runs -> TaskStates] /\ run'[t].pc = "subscribe" /\ subs \subseteq run'[t].left
        /\ \A u \in Runs \ {t} : run'[u] = run[u]
    BY <2>1 DEF FeedTypes, TaskStates
  <2>3. FeedTypes'
    BY <1>1, <1>a, <2>1, <2>2, FreshTold DEF FeedTypes
  <2>4. Told' = {}
    BY <2>1, FreshTold DEF Told
  <2> QED
    BY <2>1, <2>2, <2>3, <2>4 DEF InStep, Connected, Subscribing
<1>5. CASE Subscribes(t)
  <2>1. PICK s \in run[t].left :
          /\ subs' = subs \cup {s}
          /\ wire' = IF connected THEN Sends(wire, s, TRUE) ELSE wire
          /\ run' = [run EXCEPT ![t].left = @ \ {s},
                                ![t].pc = IF connected THEN "send" ELSE "subscribe"]
    BY <1>5 DEF Subscribes
  <2>2. s \in Symbols /\ connected' = connected /\ run[t].pc = "subscribe"
    BY <1>5 DEF FeedTypes, TaskStates, Subscribes, At
  <2>3. /\ run' \in [Runs -> TaskStates] /\ \A u \in Runs \ {t} : run'[u] = run[u]
        /\ run'[t].pc \in Subscribing /\ run'[t].left = run[t].left \ {s}
    BY <2>1 DEF FeedTypes, TaskStates, Subscribing
  <2>4. FeedTypes'
    BY <1>1, <1>a, <2>1, <2>2, <2>3, SendsTells DEF FeedTypes
  <2>5. ASSUME InStep(t) PROVE InStep(t)'
    <3>1. connected
      BY <2>2, <2>5 DEF InStep, Connected, Subscribing
    <3>2. wire'.up = wire.up /\ (wire.up => Told' = Told \cup {s})
      BY <2>1, <2>2, <3>1, SendsTells
    <3>3. wire.up => (Told \subseteq subs /\ subs \subseteq Told \cup run[t].left)
      BY <2>2, <2>5 DEF InStep, Subscribing
    <3>4. wire'.up => (Told' \subseteq subs' /\ subs' \subseteq Told' \cup run'[t].left)
      BY <2>1, <2>3, <3>2, <3>3
    <3> QED BY <2>2, <2>3, <3>1, <3>4 DEF InStep, Subscribing
  <2> QED BY <2>3, <2>4, <2>5
<1>6. CASE Sent(t)
  <2>1. /\ UNCHANGED <<connected, subs, wire>> /\ run[t].pc = "send"
        /\ run' = [run EXCEPT ![t].pc = "subscribe"]
    BY <1>6 DEF Sent, Goes, At
  <2>2. /\ run' \in [Runs -> TaskStates] /\ \A u \in Runs \ {t} : run'[u] = run[u]
        /\ run'[t].pc = "subscribe" /\ run'[t].left = run[t].left
    BY <2>1 DEF FeedTypes, TaskStates
  <2>3. Told' = Told
    BY <2>1 DEF Told
  <2>4. InStep(t) => InStep(t)'
    BY <2>1, <2>2, <2>3 DEF InStep, Connected, Subscribing
  <2> QED BY <1>1, <1>a, <2>1, <2>2, <2>4 DEF FeedTypes
<1>7. CASE Listens(t)
  <2>1. /\ UNCHANGED <<connected, subs, wire>>
        /\ (At(t, "subscribe") /\ run[t].left = {}) \/ At(t, "handler")
        /\ \E pc \in {"recv", "top"} : Goes(t, pc)
    BY <1>7 DEF Listens
  <2>2. FeedTypes' /\ \A u \in Runs \ {t} : run'[u] = run[u]
    BY <1>1, <1>a, <2>1 DEF FeedTypes, TaskStates, Goes
  <2>3. run'[t].pc \in {"recv", "top"}
    BY <2>1 DEF FeedTypes, TaskStates, Goes
  <2>4. (InStep(t) /\ wire.up) => Told = subs
    BY <2>1 DEF InStep, At, Subscribing
  <2>5. InStep(t) => connected
    BY <2>1 DEF InStep, Connected, Subscribing, At
  <2>6. Told' = Told
    BY <2>1 DEF Told
  <2> QED BY <2>1, <2>2, <2>3, <2>4, <2>5, <2>6 DEF InStep, Connected, Subscribing
<1>8. CASE AttemptFails(t)
  BY <1>1, <1>8, AttemptFailsKeeps, NobodyOnWire DEF FeedTypes
<1>9. CASE At(t, "fallback") /\ Goes(t, "raised") /\ UNCHANGED <<connected, subs, wire>>
  <2>1. /\ run' \in [Runs -> TaskStates] /\ \A u \in Runs \ {t} : run'[u] = run[u]
        /\ run'[t].pc = "raised"
    BY <1>9 DEF FeedTypes, TaskStates, Goes
  <2> QED BY <1>1, <1>a, <1>9, <2>1, NobodyOnWire DEF FeedTypes, Connected, Subscribing
<1> QED BY <1>2, <1>3, <1>4, <1>5, <1>6, <1>7, <1>8, <1>9 DEF TaskStep, TaskFails, Loses

\* stop: the transport, then the task.
LEMMA StopKeeps ==
  ASSUME SubInv, StopCloses \/ StopCancels \/ StopEnds
  PROVE  SubInv'
<1> USE DEF SubInv
<1>1. CASE StopCloses
  <2>1. /\ UNCHANGED <<current, run, connected, subs, overlap>>
        /\ wire' = Down /\ running' = FALSE /\ stopping' = "transport"
    BY <1>1 DEF StopCloses
  <2>2. FeedTypes' /\ ~ wire'.up
    BY <2>1, FreshTold DEF FeedTypes
  <2>3. \A t \in Runs : InStep(t) => InStep(t)'
    BY <2>1, <2>2 DEF InStep
  <2> QED BY <2>1, <2>2, <2>3 DEF OneTask, Alive
<1>2. CASE StopCancels /\ Alive(current) /\ current # 0
  <2> DEFINE r == TaskAt("cancelled", 1, {})
  <2>1. r \in TaskStates /\ r.pc = "cancelled"
    BY DEF TaskStates, TaskAt
  <2>2. /\ UNCHANGED <<running, subs, wire, overlap, current, connected>>
        /\ stopping' = "task" /\ run' = [run EXCEPT ![current] = r]
    BY <1>2 DEF StopCancels, Alive, At
  <2> HIDE DEF r
  <2>3. run \in [Runs -> TaskStates] /\ current \in Runs
    BY <1>2, FeedAssumption DEF FeedTypes, Runs
  <2>4. /\ run' \in [Runs -> TaskStates]
        /\ \A t \in Runs : IF t = current THEN run'[t].pc = "cancelled" ELSE run'[t] = run[t]
    BY <2>1, <2>2, <2>3
  <2>5. FeedTypes'
    BY <2>2, <2>4 DEF FeedTypes
  <2>6. ASSUME ~ overlap, NEW t \in Runs
        PROVE  (Alive(t)' => (t = current' /\ At(t, "cancelled")')) /\ InStep(t)'
    <3>1. CASE t = current
      <4>1. run'[t].pc = "cancelled"
        BY <2>4, <3>1
      <4> QED BY <2>2, <3>1, <4>1, NobodyOnWire DEF At, Connected, Subscribing
    <3>2. CASE t # current
      <4>1. run'[t] = run[t] /\ ~ Alive(t)
        BY <2>4, <2>6, <3>2 DEF OneTask
      <4> QED BY <4>1, NobodyOnWire DEF Alive, Connected, Subscribing
    <3> QED BY <3>1, <3>2
  <2> QED BY <2>2, <2>5, <2>6 DEF OneTask
<1>3. CASE StopCancels /\ ~ (Alive(current) /\ current # 0)
  <2>1. /\ UNCHANGED <<running, subs, wire, overlap, run>>
        /\ stopping' = "no" /\ current' \in {0, current} /\ connected' \in {FALSE, connected}
    BY <1>3 DEF StopCancels
  <2>2. 0 \in 0..MaxStarts
    BY FeedAssumption
  <2>3. FeedTypes'
    BY <2>1, <2>2 DEF FeedTypes
  <2>4. ASSUME ~ overlap, NEW t \in Runs
        PROVE  ~ Alive(t)
    <3>1. current = 0 => t # current
      BY FeedAssumption DEF Runs
    <3> QED BY <1>3, <2>4, <3>1 DEF OneTask
  <2>5. ASSUME ~ overlap, NEW t \in Runs
        PROVE  ~ Alive(t)' /\ InStep(t)'
    <3>1. ~ Alive(t) /\ run'[t] = run[t]
      BY <2>1, <2>4, <2>5
    <3> QED BY <3>1, NobodyOnWire DEF Alive, Connected, Subscribing
  <2> QED BY <2>1, <2>3, <2>5 DEF OneTask
<1>4. CASE StopEnds
  <2> DEFINE r == TaskAt("ended", 1, {})
  <2>1. r \in TaskStates /\ r.pc = "ended"
    BY DEF TaskStates, TaskAt
  <2>2. /\ UNCHANGED <<running, subs, wire, overlap>>
        /\ stopping = "task" /\ stopping' = "no" /\ current' = 0 /\ connected' = FALSE
        /\ run' = [t \in Runs |-> IF At(t, "cancelled") THEN r ELSE run[t]]
    BY <1>4 DEF StopEnds
  <2> HIDE DEF r
  <2>3. /\ run' \in [Runs -> TaskStates]
        /\ \A t \in Runs : IF At(t, "cancelled") THEN run'[t].pc = "ended" ELSE run'[t] = run[t]
    BY <2>1, <2>2 DEF FeedTypes
  <2>4. 0 \in 0..MaxStarts
    BY FeedAssumption
  <2>5. FeedTypes'
    BY <2>2, <2>3, <2>4 DEF FeedTypes
  <2>6. ASSUME ~ overlap, NEW t \in Runs
        PROVE  ~ Alive(t)' /\ InStep(t)'
    <3>1. Alive(t) => At(t, "cancelled")
      BY <2>2, <2>6 DEF OneTask
    <3>2. run'[t].pc \in {"ended", "none", "raised"}
      BY <2>3, <3>1 DEF Alive
    <3> QED BY <3>2, NobodyOnWire DEF Alive, Connected, Subscribing
  <2> QED BY <2>2, <2>5, <2>6 DEF OneTask
<1> QED BY <1>1, <1>2, <1>3, <1>4

\* The connection, and the caller.
LEMMA WireKeeps ==
  ASSUME SubInv,
         \/ Drops
         \/ \E s \in Symbols : Arrives(s)
         \/ \E s \in Symbols, adds \in BOOLEAN : Commands(s, adds)
  PROVE  SubInv'
<1> USE DEF SubInv
<1>1. UNCHANGED <<running, current, run, stopping, connected, overlap>>
  BY DEF Drops, Arrives, Commands
<1> SUFFICES FeedTypes' /\ \A t \in Runs : InStep(t) => InStep(t)'
  BY <1>1 DEF OneTask, Alive, At
<1>2. CASE Drops
  <2>1. wire' = Down /\ UNCHANGED subs
    BY <1>2 DEF Drops
  <2> QED BY <1>1, <2>1, FreshTold DEF FeedTypes, InStep
<1>3. ASSUME NEW s \in Symbols, Arrives(s)
      PROVE  FeedTypes' /\ \A t \in Runs : InStep(t) => InStep(t)'
  <2>1. /\ s \in wire.adds \cup wire.drops /\ UNCHANGED subs
        /\ wire' = [wire EXCEPT !.subs = IF s \in wire.adds THEN @ \cup {s} ELSE @ \ {s},
                               !.adds = @ \ {s}, !.drops = @ \ {s}]
    BY <1>3 DEF Arrives
  <2>2. FeedTypes' /\ wire'.up = wire.up
    BY <1>1, <2>1 DEF FeedTypes
  <2>3. Told' = Told
    BY <2>1 DEF FeedTypes, Told
  <2> QED BY <1>1, <2>1, <2>2, <2>3 DEF InStep
<1>4. ASSUME NEW s \in Symbols, NEW adds \in BOOLEAN, Commands(s, adds)
      PROVE  FeedTypes' /\ \A t \in Runs : InStep(t) => InStep(t)'
  <2>1. /\ subs' = IF adds THEN subs \cup {s} ELSE subs \ {s}
        /\ wire' = IF connected THEN Sends(wire, s, adds) ELSE wire
    BY <1>4 DEF Commands
  <2>2. FeedTypes'
    BY <1>1, <2>1, SendsTells DEF FeedTypes
  <2>3. ASSUME NEW t \in Runs, InStep(t)
        PROVE  InStep(t)'
    <3>1. CASE run[t].pc \in Connected /\ wire.up
      <4>1. /\ wire'.up = wire.up
            /\ Told' = IF adds THEN Told \cup {s} ELSE Told \ {s}
        BY <2>1, <2>3, <3>1, SendsTells DEF InStep
      <4>2. Told = subs => Told' = subs'
        BY <2>1, <4>1
      <4>3. \A left : (Told \subseteq subs /\ subs \subseteq Told \cup left)
                      => (Told' \subseteq subs' /\ subs' \subseteq Told' \cup left)
        BY <2>1, <4>1
      <4> QED BY <1>1, <2>3, <4>1, <4>2, <4>3 DEF InStep
    <3>2. CASE run[t].pc \notin Connected
      BY <1>1, <3>2, NobodyOnWire
    <3>3. CASE ~ wire.up
      <4>1. ~ wire'.up
        BY <2>1, <3>3 DEF Sends
      <4> QED BY <1>1, <2>3, <4>1 DEF InStep
    <3> QED BY <3>1, <3>2, <3>3
  <2> QED BY <2>2, <2>3
<1> QED BY <1>2, <1>3, <1>4

\* Every step keeps the client in step with the connection.
LEMMA SubInvStep ==
  ASSUME SubInv, [FeedNext]_feedVars
  PROVE  SubInv'
<1>1. CASE Start
  <2>1. PICK t \in Runs : At(t, "none") /\ current' = t /\ Goes(t, "top")
    BY <1>1 DEF Start
  <2>2. /\ UNCHANGED <<stopping, connected, subs, wire>> /\ running' = TRUE
        /\ overlap' = (overlap \/ stopping # "no" \/ \E u \in Runs : Alive(u))
    BY <1>1 DEF Start
  <2>3. FeedTypes'
    BY <2>1, <2>2 DEF SubInv, FeedTypes, TaskStates, Goes, Runs
  <2>4. ASSUME ~ overlap', NEW u \in Runs
        PROVE  (Alive(u)' => u = current') /\ InStep(u)'
    <3>1. ~ Alive(u)
      BY <2>2, <2>4
    <3>2. run'[u].pc \in {"none", "ended", "raised", "top"} /\ (Alive(u)' => u = t)
      BY <2>1, <3>1 DEF SubInv, FeedTypes, TaskStates, Goes, Alive
    <3> QED BY <2>1, <3>2, NobodyOnWire DEF Connected, Subscribing
  <2>5. ~ overlap' => stopping' # "task"
    BY <2>2
  <2> QED BY <2>3, <2>4, <2>5 DEF SubInv, OneTask
<1>2. CASE StopCloses \/ StopCancels \/ StopEnds
  BY <1>2, StopKeeps
<1>3. CASE \/ Drops
           \/ \E s \in Symbols : Arrives(s)
           \/ \E s \in Symbols, adds \in BOOLEAN : Commands(s, adds)
  BY <1>3, WireKeeps
<1>4. ASSUME NEW t \in Runs, TaskStep(t) \/ TaskFails(t)
      PROVE  SubInv'
  BY <1>4, TaskStepKeeps
<1>5. ASSUME NEW t \in Runs, NEW n \in 1..MaxSeq, NEW future \in BOOLEAN,
             Receives(t, n, future)
      PROVE  SubInv'
  <2>1. /\ UNCHANGED <<running, current, stopping, connected, subs, wire, overlap>>
        /\ At(t, "recv") /\ Alive(t) /\ ~ At(t, "cancelled")
        /\ \E pc \in {"recv", "handler", "top"} : Goes(t, pc)
    BY <1>5 DEF Receives, At, Alive
  <2>2. FeedTypes' /\ \A u \in Runs \ {t} : run'[u] = run[u]
    BY <2>1 DEF SubInv, FeedTypes, TaskStates, Goes
  <2>3. run'[t].pc \in {"recv", "handler", "top"}
    BY <2>1 DEF SubInv, FeedTypes, TaskStates, Goes
  <2>4. Told' = Told
    BY <2>1 DEF Told
  <2>5. InStep(t) => InStep(t)'
    BY <2>1, <2>3, <2>4 DEF InStep, At, Connected, Subscribing
  <2> QED BY <2>1, <2>2, <2>5, TaskChange DEF SubInv
<1>6. CASE UNCHANGED feedVars
  BY <1>6 DEF feedVars, client, SubInv, FeedTypes, OneTask, InStep, Told, At, Alive
<1> QED BY <1>1, <1>2, <1>3, <1>4, <1>5, <1>6 DEF FeedNext

\* Whatever a caller subscribes and unsubscribes while the connection is lost,
\* retried, closed by a stop and made again, and whichever requests are lost with
\* it: a client that was never started twice at once, or during a stop, and that
\* listens on a connection where nothing is on its way, is sent exactly what
\* subscriptions says.
THEOREM SubscriptionsAlwaysAgree == FeedSpec => []SubscriptionsAgree
<1>1. FeedInit => SubInv
  <2> SUFFICES ASSUME FeedInit PROVE SubInv
    OBVIOUS
  <2>1. MaxStarts \in Nat
    BY FeedAssumption
  <2>2. FeedTypes
    <3>1. TaskAt("none", 1, {}) \in TaskStates
      BY DEF TaskStates, TaskAt
    <3>2. 0 \in 0..MaxStarts
      BY <2>1
    <3>3. run \in [Runs -> TaskStates]
      BY <3>1 DEF FeedInit
    <3>4. wire = Down
      BY DEF FeedInit
    <3>5. /\ running \in BOOLEAN /\ stopping \in {"no", "transport", "task"}
          /\ connected \in BOOLEAN /\ overlap \in BOOLEAN
          /\ current \in 0..MaxStarts /\ subs \in SUBSET Symbols
      BY <3>2 DEF FeedInit
    <3> QED BY <3>3, <3>4, <3>5, FreshTold DEF FeedTypes
  <2>3. \A t \in Runs : ~ Alive(t) /\ InStep(t)
    BY DEF FeedInit, TaskAt, Alive, InStep, Connected, Subscribing, At
  <2> QED BY <2>2, <2>3 DEF FeedInit, SubInv, OneTask
<1>2. SubInv /\ [FeedNext]_feedVars => SubInv'
  BY SubInvStep
<1>3. SubInv => SubscriptionsAgree
  <2> SUFFICES ASSUME SubInv, ~ overlap, wire.up, wire.adds \cup wire.drops = {},
                      NEW t \in Runs, run[t].pc \in {"recv", "handler"}
               PROVE  wire.subs = subs
    BY DEF SubscriptionsAgree, Listening
  <2>1. Told = wire.subs
    BY DEF Told
  <2> QED BY <2>1 DEF SubInv, InStep
<1> QED BY <1>1, <1>2, <1>3, PTL DEF FeedSpec

---------------------------------------------------------------------------
(* Sorting *)

\* One of finitely many numbers is the greatest.
LEMMA Greatest ==
  ASSUME NEW n \in Nat, n # 0, NEW t \in [1..n -> Int]
  PROVE  \E j \in 1..n : \A k \in 1..n : t[k] <= t[j]
<1> DEFINE Top(m) == \E j \in 1..m : \A k \in 1..m : t[k] <= t[j]
           Bad == {m \in 1..n : ~ Top(m)}
<1>1. Bad = {}
  <2> SUFFICES ASSUME Bad # {} PROVE FALSE
    OBVIOUS
  <2>1. PICK m \in Bad : \A y \in Bad : m <= y
    <3>1. Bad \in SUBSET Nat
      OBVIOUS
    <3> HIDE DEF Bad
    <3> QED BY <3>1, LeastNat
  <2>2. m \in 1..n /\ ~ Top(m)
    OBVIOUS
  <2>3. m # 1
    <3> SUFFICES ASSUME m = 1 PROVE FALSE
      OBVIOUS
    <3>1. 1 \in 1..m /\ \A k \in 1..m : k = 1 /\ t[1] <= t[1]
      OBVIOUS
    <3> QED BY <2>2, <3>1
  <2>4. m - 1 \in 1..n /\ ~ (m <= m - 1)
    BY <2>2, <2>3
  <2>5. Top(m - 1)
    <3> HIDE DEF Top
    <3> QED BY <2>1, <2>4
  <2>6. PICK j \in 1..(m - 1) : \A k \in 1..(m - 1) : t[k] <= t[j]
    BY <2>5
  <2>7. t[j] \in Int /\ t[m] \in Int /\ j \in 1..m /\ m \in 1..m
        /\ \A k \in 1..m : k = m \/ k \in 1..(m - 1)
    BY <2>2, <2>4, SMTT(30)
  <2>8. CASE t[m] <= t[j]
    <3>1. \A k \in 1..m : t[k] <= t[j]
      BY <2>6, <2>7, <2>8
    <3> QED BY <2>2, <2>7, <3>1
  <2>9. CASE t[j] <= t[m]
    <3>1. \A k \in 1..m : t[k] \in Int
      BY <2>2
    <3>2. \A k \in 1..m : t[k] <= t[m]
      <4> SUFFICES ASSUME NEW k \in 1..m PROVE t[k] <= t[m]
        OBVIOUS
      <4>1. CASE k = m
        BY <2>7, <4>1
      <4>2. CASE k \in 1..(m - 1)
        <5>1. t[k] <= t[j] /\ t[k] \in Int
          BY <2>6, <3>1, <4>2
        <5> QED BY <2>7, <2>9, <5>1, SMTT(30)
      <4> QED BY <2>7, <4>1, <4>2
    <3> QED BY <2>2, <2>7, <3>2
  <2> QED BY <2>7, <2>8, <2>9
<1>2. n \in 1..n
  OBVIOUS
<1> HIDE DEF Top
<1>3. Top(n)
  BY <1>1, <1>2
<1> QED BY <1>3 DEF Top

\* p puts the numbers t[1], ..., t[n] in order.
Sorts(p, t, n) ==
  /\ p \in Bijection(1..n, 1..n)
  /\ \A i, j \in 1..n : i < j => t[p[i]] <= t[p[j]]

\* Every list of numbers can be sorted: the greatest is put last, the rest sorted.
LEMMA SortExists ==
  ASSUME NEW n \in Nat, NEW t \in [1..n -> Int]
  PROVE  \E p : Sorts(p, t, n)
<1> DEFINE Bad == {m \in Nat : \E u \in [1..m -> Int] : ~ \E p : Sorts(p, u, m)}
<1>1. Bad = {}
  <2> SUFFICES ASSUME Bad # {} PROVE FALSE
    OBVIOUS
  <2>1. PICK m \in Bad : \A y \in Bad : m <= y
    <3>1. Bad \in SUBSET Nat
      OBVIOUS
    <3> HIDE DEF Bad
    <3> QED BY <3>1, LeastNat
  <2>2. PICK u \in [1..m -> Int] : ~ \E p : Sorts(p, u, m)
    OBVIOUS
  <2>3. m \in Nat
    OBVIOUS
  <2>4. m # 0
    <3> SUFFICES ASSUME m = 0 PROVE FALSE
      OBVIOUS
    <3>1. Sorts([k \in 1..m |-> k], u, m)
      BY DEF Sorts, Bijection, Injection, Surjection, IsInjective
    <3> QED BY <2>2, <3>1
  <2>5. PICK j \in 1..m : \A k \in 1..m : u[k] <= u[j]
    BY <2>3, <2>4, Greatest
  <2> DEFINE swap == [k \in 1..m |-> IF k = j THEN m ELSE k]
             v == [k \in 1..(m - 1) |-> u[swap[k]]]
  <2>6. /\ m - 1 \in Nat /\ ~ (m <= m - 1) /\ m \in 1..m
        /\ \A k \in 1..m : k = m \/ k \in 1..(m - 1)
        /\ \A k \in 1..(m - 1) : k \in 1..m /\ k # m
    BY <2>3, <2>4
  <2>7. /\ \A k \in 1..(m - 1) : swap[k] \in 1..m /\ swap[k] # j
        /\ \A k, i \in 1..(m - 1) : swap[k] = swap[i] => k = i
        /\ \A x \in 1..m : x # j => \E k \in 1..(m - 1) : swap[k] = x
    <3>1. \A k \in 1..(m - 1) : swap[k] = IF k = j THEN m ELSE k
      BY <2>6
    <3> HIDE DEF swap
    <3>2. \A k \in 1..(m - 1) : swap[k] \in 1..m /\ swap[k] # j
      BY <2>6, <3>1
    <3>3. \A k, i \in 1..(m - 1) : swap[k] = swap[i] => k = i
      BY <2>6, <3>1
    <3>4. ASSUME NEW x \in 1..m, x # j PROVE \E k \in 1..(m - 1) : swap[k] = x
      <4>1. CASE x = m
        BY <2>6, <3>1, <3>4, <4>1
      <4>2. CASE x # m
        BY <2>6, <3>1, <3>4, <4>2
      <4> QED BY <4>1, <4>2
    <3> QED BY <3>2, <3>3, <3>4
  <2> HIDE DEF swap
  <2>8. v \in [1..(m - 1) -> Int]
    BY <2>7
  <2>9. PICK q : Sorts(q, v, m - 1)
    <3>1. m - 1 \notin Bad
      <4> HIDE DEF Bad
      <4> QED BY <2>1, <2>6
    <3> HIDE DEF v
    <3> QED BY <2>6, <2>8, <3>1
  <2>10. /\ \A k \in 1..(m - 1) : q[k] \in 1..(m - 1)
         /\ \A k, i \in 1..(m - 1) : q[k] = q[i] => k = i
         /\ \A x \in 1..(m - 1) : \E k \in 1..(m - 1) : q[k] = x
         /\ \A k, i \in 1..(m - 1) : k < i => v[q[k]] <= v[q[i]]
    <3> HIDE DEF v
    <3>1. q \in Bijection(1..(m - 1), 1..(m - 1))
      BY <2>9 DEF Sorts
    <3> QED BY <2>9, <3>1 DEF Sorts, Bijection, Injection, Surjection, IsInjective
  <2>11. \A k \in 1..(m - 1) : v[q[k]] = u[swap[q[k]]]
    BY <2>10
  <2> HIDE DEF v
  <2> DEFINE p == [k \in 1..m |-> IF k = m THEN j ELSE swap[q[k]]]
  <2>12. p[m] = j /\ \A k \in 1..(m - 1) : p[k] = swap[q[k]]
    BY <2>6
  <2>13. p \in [1..m -> 1..m]
    BY <2>6, <2>7, <2>10
  <2> HIDE DEF p
  <2>14. \A k, i \in 1..m : p[k] = p[i] => k = i
    <3> SUFFICES ASSUME NEW k \in 1..m, NEW i \in 1..m, p[k] = p[i] PROVE k = i
      OBVIOUS
    <3>1. ASSUME NEW x \in 1..m, p[x] = j PROVE x = m
      <4> SUFFICES ASSUME x # m PROVE FALSE
        OBVIOUS
      <4>1. x \in 1..(m - 1) /\ q[x] \in 1..(m - 1)
        BY <2>6, <2>10
      <4>2. p[x] = swap[q[x]]
        BY <2>12, <4>1
      <4>3. swap[q[x]] # j
        BY <2>7, <4>1
      <4> QED BY <3>1, <4>2, <4>3
    <3>3. CASE k = m \/ i = m
      BY <2>12, <3>1, <3>3
    <3>2. CASE k # m /\ i # m
      <4>1. k \in 1..(m - 1) /\ i \in 1..(m - 1)
        BY <2>6, <3>2
      <4>2. q[k] \in 1..(m - 1) /\ q[i] \in 1..(m - 1) /\ swap[q[k]] = swap[q[i]]
        BY <2>10, <2>12, <4>1
      <4>3. q[k] = q[i]
        BY <2>7, <4>2
      <4> QED BY <2>10, <4>1, <4>3
    <3> QED BY <3>2, <3>3
  <2>15. \A x \in 1..m : \E k \in 1..m : p[k] = x
    <3> SUFFICES ASSUME NEW x \in 1..m PROVE \E k \in 1..m : p[k] = x
      OBVIOUS
    <3>1. CASE x = j
      BY <2>6, <2>12, <3>1
    <3>2. CASE x # j
      <4>1. PICK y \in 1..(m - 1) : swap[y] = x
        BY <2>7, <3>2
      <4>2. PICK k \in 1..(m - 1) : q[k] = y
        BY <2>10
      <4> QED BY <2>6, <2>12, <4>1, <4>2
    <3> QED BY <3>1, <3>2
  <2>16. \A i, k \in 1..m : i < k => u[p[i]] <= u[p[k]]
    <3> SUFFICES ASSUME NEW i \in 1..m, NEW k \in 1..m, i < k PROVE u[p[i]] <= u[p[k]]
      OBVIOUS
    <3>1. CASE k = m
      BY <2>5, <2>12, <2>13, <3>1
    <3>2. CASE k # m
      <4>1. i \in 1..(m - 1) /\ k \in 1..(m - 1)
        BY <2>3, <3>2
      <4>2. v[q[i]] <= v[q[k]]
        BY <2>10, <4>1
      <4> QED BY <2>11, <2>12, <4>1, <4>2
    <3> QED BY <3>1, <3>2
  <2>17. p \in Bijection(1..m, 1..m)
    BY <2>13, <2>14, <2>15 DEF Bijection, Injection, Surjection, IsInjective
  <2>18. Sorts(p, u, m)
    BY <2>16, <2>17 DEF Sorts
  <2> QED BY <2>2, <2>18
<1> QED BY <1>1

---------------------------------------------------------------------------
(* Multiples of the timeframe *)

LEMMA Multiples ==
  ASSUME NEW D \in Nat \ {0}, NEW i \in Int, NEW j \in Int
  PROVE  /\ i * D \in Int
         /\ i < j => i * D + D <= j * D
         /\ (i + j) * D = i * D + j * D
         /\ (i - j) * D = i * D - j * D
<1>1. (i - j) * D = i * D - j * D /\ (i + j) * D = i * D + j * D /\ i * D \in Int /\ j * D \in Int
  OBVIOUS
<1>2. ASSUME i < j PROVE i * D + D <= j * D
  <2> DEFINE e == j - i - 1
  <2>1. e \in Nat /\ j = i + e + 1
    BY <1>2
  <2>2. e * D \in Nat
    BY <2>1
  <2>3. j * D = i * D + e * D + D
    BY <2>1
  <2> QED BY <1>1, <2>2, <2>3
<1> QED BY <1>1, <1>2

LEMMA Division ==
  ASSUME NEW D \in Nat \ {0}, NEW d \in Nat
  PROVE  \E q \in Nat, r \in 0..(D - 1) : d = q * D + r
<1> DEFINE P(e) == \E q \in Nat, r \in 0..(D - 1) : e = q * D + r
           Bad == {e \in Nat : ~ P(e)}
<1>1. Bad = {}
  <2> SUFFICES ASSUME Bad # {} PROVE FALSE
    OBVIOUS
  <2>1. PICK e \in Bad : \A y \in Bad : e <= y
    <3>1. Bad \in SUBSET Nat
      OBVIOUS
    <3> HIDE DEF Bad
    <3> QED BY <3>1, LeastNat
  <2>2. e \in Nat /\ ~ P(e)
    OBVIOUS
  <2>3. e # 0
    <3>1. 0 \in Nat /\ 0 \in 0..(D - 1) /\ 0 = 0 * D + 0
      OBVIOUS
    <3> QED BY <2>2, <3>1
  <2>4. P(e - 1)
    <3>1. e - 1 \in Nat /\ ~ (e <= e - 1)
      BY <2>2, <2>3
    <3> HIDE DEF P
    <3> QED BY <2>1, <3>1
  <2>5. PICK q \in Nat, r \in 0..(D - 1) : e - 1 = q * D + r
    BY <2>4
  <2>6. q * D \in Int
    OBVIOUS
  <2>7. CASE r = D - 1
    <3>1. (q + 1) * D = q * D + D
      OBVIOUS
    <3>2. e = (q + 1) * D + 0 /\ q + 1 \in Nat /\ 0 \in 0..(D - 1)
      BY <2>2, <2>5, <2>6, <2>7, <3>1
    <3> QED BY <2>2, <3>2
  <2>8. CASE r # D - 1
    <3>1. e = q * D + (r + 1) /\ r + 1 \in 0..(D - 1)
      BY <2>2, <2>5, <2>6, <2>8
    <3> QED BY <2>2, <3>1
  <2> QED BY <2>7, <2>8
<1> HIDE DEF P
<1>2. P(d)
  BY <1>1
<1> QED BY <1>2 DEF P

LEMMA Divides ==
  ASSUME NEW D \in Nat \ {0}, NEW d \in Nat
  PROVE  /\ d % D = 0 => \E q \in Nat : d = q * D
         /\ \A q \in Nat : d = q * D => d % D = 0
<1>1. ASSUME NEW q \in Nat, NEW r \in 0..(D - 1), d = q * D + r PROVE d % D = r
  <2>1. d = D * q + r
    BY <1>1
  <2> QED BY <2>1
<1>2. PICK q \in Nat, r \in 0..(D - 1) : d = q * D + r
  BY Division
<1>3. d % D = 0 => d = q * D
  <2>1. d % D = r /\ q * D \in Int
    BY <1>1, <1>2
  <2> QED BY <1>2, <2>1
<1>4. ASSUME NEW w \in Nat, d = w * D PROVE d % D = 0
  <2>1. d = w * D + 0 /\ 0 \in 0..(D - 1)
    BY <1>4
  <2> QED BY <1>1, <2>1
<1> QED BY <1>3, <1>4

---------------------------------------------------------------------------
(* Validation finds exactly the series that are whole *)

\* Each expected where the one before leads to expect it.
Chained(t, n) == \A k \in 1..(n - 1) : Continuous(t[k], t[k + 1])

\* Each time once, none between the first and the last missing.
Gapless(T, n) ==
  /\ Cardinality(T) = n
  /\ \A a, b \in T : a < b => \A d \in 1..(b - a) : (d % Delta = 0) = (a + d \in T)

LEMMA ChainedIs ==
  ASSUME NEW n \in Nat, NEW t \in [1..n -> Int], Chained(t, n)
  PROVE  \A k \in 1..n : t[k] = t[1] + (k - 1) * Delta
<1>0. Delta \in Nat \ {0}
  BY MarketHubAssumption
<1> DEFINE P(k) == t[k] = t[1] + (k - 1) * Delta
           Bad == {k \in 1..n : ~ P(k)}
<1>1. Bad = {}
  <2> SUFFICES ASSUME Bad # {} PROVE FALSE
    OBVIOUS
  <2>1. PICK k \in Bad : \A y \in Bad : k <= y
    <3>1. Bad \in SUBSET Nat
      OBVIOUS
    <3> HIDE DEF Bad
    <3> QED BY <3>1, LeastNat
  <2>2. k \in 1..n /\ ~ P(k)
    OBVIOUS
  <2>3. k # 1
    <3> SUFFICES ASSUME k = 1 PROVE FALSE
      OBVIOUS
    <3>1. t[1] \in Int /\ (1 - 1) * Delta = 0
      BY <1>0, <2>2
    <3> QED BY <2>2, <3>1
  <2>4. k - 1 \in 1..(n - 1) /\ k - 1 \in 1..n /\ ~ (k <= k - 1) /\ (k - 1) + 1 = k
    BY <2>2, <2>3
  <2>5. P(k - 1)
    <3> HIDE DEF P
    <3> QED BY <2>1, <2>4
  <2>6. t[k] = t[k - 1] + Delta
    BY <2>4 DEF Chained, Continuous
  <2>7. (k - 1) * Delta = ((k - 1) - 1) * Delta + Delta /\ ((k - 1) - 1) * Delta \in Int
    BY <1>0, <2>2
  <2>8. t[1] \in Int
    BY <2>2
  <2> DEFINE x == ((k - 1) - 1) * Delta
             y == (k - 1) * Delta
  <2>9. t[k - 1] = t[1] + x /\ y = x + Delta /\ x \in Int
    BY <2>5, <2>7
  <2> HIDE DEF x, y
  <2>10. t[k] = t[1] + y
    BY <1>0, <2>6, <2>8, <2>9
  <2> QED BY <2>2, <2>10 DEF y
<1> HIDE DEF P
<1>2. \A k \in 1..n : P(k)
  BY <1>1
<1> QED BY <1>2 DEF P

LEMMA ChainedGapless ==
  ASSUME NEW n \in Nat, NEW t \in [1..n -> Int], NEW T, T = {t[k] : k \in 1..n}, Chained(t, n)
  PROVE  Gapless(T, n)
<1>0. Delta \in Nat \ {0}
  BY MarketHubAssumption
<1>1. \A k \in 1..n : t[k] = t[1] + (k - 1) * Delta /\ t[k] \in Int /\ t[1] \in Int
  <2>1. \A k \in 1..n : t[k] = t[1] + (k - 1) * Delta
    BY ChainedIs, Zenon
  <2>2. \A k \in 1..n : t[k] \in Int /\ t[1] \in Int
    OBVIOUS
  <2> QED BY <2>1, <2>2, Zenon
<1>2. ASSUME NEW i \in 1..n, NEW j \in 1..n
      PROVE  /\ t[j] - t[i] = (j - i) * Delta
             /\ i < j => t[i] + Delta <= t[j]
  <2> DEFINE x == (i - 1) * Delta
             y == (j - 1) * Delta
             z == (j - i) * Delta
  <2>1. x \in Int /\ y \in Int /\ z \in Int /\ (i < j => x + Delta <= y) /\ z = y - x
    <3>1. i - 1 \in Int /\ j - 1 \in Int /\ (j - 1) - (i - 1) = j - i /\ (i < j => i - 1 < j - 1)
      OBVIOUS
    <3>2. x \in Int /\ y \in Int /\ (i - 1 < j - 1 => x + Delta <= y)
      BY <1>0, <3>1, Multiples
    <3>3. ((j - 1) - (i - 1)) * Delta = y - x
      BY <1>0, <3>1, Multiples
    <3> QED BY <3>1, <3>2, <3>3
  <2>2. t[i] = t[1] + x /\ t[j] = t[1] + y /\ t[1] \in Int
    BY <1>1
  <2> HIDE DEF x, y, z
  <2>3. t[j] - t[i] = z /\ (i < j => t[i] + Delta <= t[j])
    BY <1>0, <2>1, <2>2, SMTT(30)
  <2> QED BY <2>3 DEF z
<1>3. Cardinality(T) = n
  <2>1. \A i, j \in 1..n : t[i] = t[j] => i = j
    <3> SUFFICES ASSUME NEW i \in 1..n, NEW j \in 1..n, t[i] = t[j], i # j PROVE FALSE
      OBVIOUS
    <3>1. t[i] \in Int /\ (i < j \/ j < i)
      OBVIOUS
    <3>2. CASE i < j
      BY <1>0, <1>2, <3>1, <3>2
    <3>3. CASE j < i
      BY <1>0, <1>2, <3>1, <3>3
    <3> QED BY <3>1, <3>2, <3>3
  <2>2. t \in Bijection(1..n, T)
    BY <2>1 DEF Bijection, Injection, Surjection, IsInjective
  <2> QED BY <2>2, FS_CountingElements DEF ExistsBijection
<1>4. ASSUME NEW a \in T, NEW b \in T, a < b, NEW d \in 1..(b - a)
      PROVE  (d % Delta = 0) = (a + d \in T)
  <2>1. PICK i \in 1..n : a = t[i]
    OBVIOUS
  <2>2. PICK j \in 1..n : b = t[j]
    OBVIOUS
  <2>3. a \in Int /\ b \in Int /\ b - a = (j - i) * Delta /\ d \in Nat /\ 1 <= d /\ d <= b - a
    BY <1>1, <1>2, <2>1, <2>2
  <2>4. ASSUME d % Delta = 0 PROVE a + d \in T
    <3>1. PICK q \in Nat : d = q * Delta
      BY <1>0, <2>3, <2>4, Divides
    <3>2. ~ (j - i < q)
      <4> SUFFICES ASSUME j - i < q PROVE FALSE
        OBVIOUS
      <4>1. (j - i) * Delta + Delta <= q * Delta /\ j - i \in Int
        BY <1>0, Multiples
      <4> QED BY <1>0, <2>3, <3>1, <4>1
    <3>3. i + q \in 1..n /\ (i + q) - i = q
      BY <3>2
    <3>4. t[i + q] - t[i] = ((i + q) - i) * Delta /\ t[i + q] \in Int
      BY <1>1, <1>2, <3>3
    <3>5. t[i + q] = a + d
      BY <2>1, <2>3, <3>1, <3>3, <3>4, SMTT(30)
    <3> QED BY <3>3, <3>5
  <2>5. ASSUME a + d \in T PROVE d % Delta = 0
    <3>1. PICK k \in 1..n : a + d = t[k]
      BY <2>5
    <3>2. d = (k - i) * Delta
      BY <1>2, <2>1, <2>3, <3>1, SMTT(30)
    <3>3. k - i \in Nat
      <4> SUFFICES ASSUME k < i PROVE FALSE
        OBVIOUS
      <4>1. t[k] + Delta <= t[i] /\ t[k] \in Int /\ t[i] \in Int
        BY <1>1, <1>2
      <4>2. (a + d) + Delta <= a
        BY <2>1, <3>1, <4>1
      <4> QED BY <1>0, <2>3, <4>2
    <3> QED BY <1>0, <2>3, <3>2, <3>3, Divides
  <2>6. (d % Delta = 0) <=> (a + d \in T)
    BY <2>4, <2>5
  <2>7. (d % Delta = 0) \in BOOLEAN /\ (a + d \in T) \in BOOLEAN
    OBVIOUS
  <2> QED BY <2>6, <2>7
<1> QED BY <1>3, <1>4 DEF Gapless

LEMMA GaplessChained ==
  ASSUME NEW n \in Nat, NEW t \in [1..n -> Int], NEW T, T = {t[k] : k \in 1..n},
         \A i, j \in 1..n : i < j => t[i] <= t[j], Gapless(T, n)
  PROVE  Chained(t, n)
<1>0. Delta \in Nat \ {0}
  BY MarketHubAssumption
<1>1. \A i, j \in 1..n : t[i] = t[j] => i = j
  <2>1. t \in Surjection(1..n, T)
    BY DEF Surjection
  <2>2. IsFiniteSet(1..n) /\ Cardinality(1..n) = n
    BY FS_Interval
  <2>3. Cardinality(1..n) = Cardinality(T)
    BY <2>2 DEF Gapless
  <2>4. t \in Injection(1..n, T)
    BY <2>1, <2>2, <2>3, FS_SurjSameCardinalityImpliesInj
  <2> QED BY <2>4 DEF Injection, IsInjective
<1> SUFFICES ASSUME NEW k \in 1..(n - 1) PROVE t[k + 1] = t[k] + Delta
  BY DEF Chained, Continuous
<1> DEFINE a == t[k]
           b == t[k + 1]
<1>2. k \in 1..n /\ k + 1 \in 1..n /\ k < k + 1
  OBVIOUS
<1>3. a \in T /\ b \in T /\ a \in Int /\ b \in Int
  BY <1>2
<1>4. a < b
  <2>1. a <= b /\ a # b
    BY <1>1, <1>2
  <2> QED BY <1>3, <2>1
<1> HIDE DEF a, b
<1>5. \A d \in 1..(b - a) : (d % Delta = 0) = (a + d \in T)
  BY <1>3, <1>4 DEF Gapless
<1> DEFINE gap == b - a
<1>6. gap \in 1..(b - a) /\ a + gap = b /\ gap \in Nat
  BY <1>3, <1>4
<1> HIDE DEF gap
<1>7. gap % Delta = 0
  <2>1. (gap % Delta = 0) = (a + gap \in T)
    BY <1>5, <1>6
  <2> QED BY <1>3, <1>6, <2>1
<1>8. PICK q \in Nat : gap = q * Delta
  BY <1>0, <1>6, <1>7, Divides
<1>9. q # 0
  <2> SUFFICES ASSUME q = 0 PROVE FALSE
    OBVIOUS
  <2>1. gap = 0
    BY <1>0, <1>8
  <2> QED BY <1>6, <2>1
<1>10. Delta <= gap
  <2>1. 0 * Delta + Delta <= q * Delta /\ 0 * Delta = 0
    BY <1>0, <1>9, Multiples
  <2> QED BY <1>0, <1>8, <2>1
<1>11. a + Delta \in T
  <2>1. Delta \in 1..(b - a)
    BY <1>0, <1>3, <1>6, <1>10
  <2>2. Delta % Delta = 0
    <3>1. Delta = 1 * Delta
      BY <1>0
    <3> QED BY <1>0, <3>1, Divides
  <2>3. (Delta % Delta = 0) = (a + Delta \in T)
    BY <1>5, <2>1
  <2> QED BY <2>2, <2>3
<1>12. PICK j \in 1..n : t[j] = a + Delta
  BY <1>11
<1>13. ~ (j <= k)
  <2> SUFFICES ASSUME j <= k PROVE FALSE
    OBVIOUS
  <2>1. t[j] <= t[k]
    BY <1>2, <1>3 DEF a
  <2> QED BY <1>0, <1>3, <1>12, <2>1 DEF a
<1>14. b <= t[j]
  <2>1. j = k + 1 \/ k + 1 < j
    BY <1>13
  <2>2. b \in Int
    BY <1>3
  <2> QED BY <1>2, <2>1, <2>2 DEF b
<1>15. b = a + Delta
  BY <1>0, <1>3, <1>6, <1>10, <1>12, <1>14
<1> QED BY <1>15 DEF a, b

LEMMA CandlesTyped ==
  ASSUME NEW s \in Seq(Candles)
  PROVE  Len(s) \in Nat /\ DOMAIN s = 1..Len(s) /\ \A k \in 1..Len(s) : s[k].time \in Int
<1>1. Len(s) \in Nat /\ DOMAIN s = 1..Len(s) /\ \A k \in 1..Len(s) : s[k] \in Candles
  OBVIOUS
<1>2. \A c \in Candles : c.time \in Int
  BY CandlesAssumption
<1> QED BY <1>1, <1>2

LEMMA SortedIs ==
  ASSUME NEW s \in Seq(Candles)
  PROVE  \E p \in Bijection(1..Len(s), 1..Len(s)) :
           /\ SortedByTime(s) = [k \in 1..Len(s) |-> s[p[k]]]
           /\ \A i, j \in 1..Len(s) : i < j => s[p[i]].time <= s[p[j]].time
<1> DEFINE n == Len(s)
           Good(p) == \A i, j \in 1..n : i < j => s[p[i]].time <= s[p[j]].time
           t == [k \in 1..n |-> s[k].time]
           p == CHOOSE p \in Bijection(1..n, 1..n) : Good(p)
<1>1. n \in Nat /\ \A k \in 1..n : s[k].time \in Int
  BY CandlesTyped
<1>2. \E q : Sorts(q, t, n)
  BY <1>1, SortExists
<1>3. \E q \in Bijection(1..n, 1..n) : Good(q)
  <2>1. PICK q : Sorts(q, t, n)
    BY <1>2
  <2>2. q \in Bijection(1..n, 1..n) /\ \A i, j \in 1..n : i < j => t[q[i]] <= t[q[j]]
    <3> HIDE DEF t, n
    <3> QED BY <2>1 DEF Sorts
  <2>3. \A i \in 1..n : q[i] \in 1..n
    <3> HIDE DEF n
    <3> QED BY <2>2 DEF Bijection, Injection
  <2>4. \A i \in 1..n : t[q[i]] = s[q[i]].time
    BY <2>3
  <2>5. Good(q)
    <3> HIDE DEF t, n
    <3> QED BY <2>2, <2>4
  <2> QED BY <2>2, <2>5
<1>4. p \in Bijection(1..n, 1..n) /\ Good(p)
  <2> HIDE DEF n, Good
  <2> QED BY <1>3
<1>5. SortedByTime(s) = [k \in 1..n |-> s[p[k]]]
  BY DEF SortedByTime
<1> HIDE DEF p
<1> QED BY <1>4, <1>5

\* validate_candles accepts a list of closed candles exactly if, in whatever order
\* they came, each is sane, each time is there once and none between is missing.
LEMMA ValidatedIsWhole ==
  ASSUME NEW s \in Seq(Candles)
  PROVE  Validated(s) <=> Whole(s)
<1> DEFINE n == Len(s)
           r == SortedByTime(s)
           T == {s[k].time : k \in 1..n}
           t == [k \in 1..n |-> r[k].time]
<1>1. PICK p \in Bijection(1..n, 1..n) :
        /\ r = [k \in 1..n |-> s[p[k]]]
        /\ \A i, j \in 1..n : i < j => s[p[i]].time <= s[p[j]].time
  BY SortedIs
<1>2. /\ \A k \in 1..n : p[k] \in 1..n
      /\ \A x \in 1..n : \E k \in 1..n : p[k] = x
  <2> HIDE DEF n
  <2> QED BY DEF Bijection, Injection, Surjection
<1>3. n \in Nat /\ DOMAIN s = 1..n /\ \A k \in 1..n : s[k].time \in Int
  BY CandlesTyped
<1>4. \A k \in 1..n : r[k] = s[p[k]]
  BY <1>1
<1> HIDE DEF n, r
<1>5. t \in [1..n -> Int] /\ \A i, j \in 1..n : i < j => t[i] <= t[j]
  BY <1>1, <1>2, <1>3, <1>4
<1>6. \A k \in 1..n : t[k] = s[p[k]].time
  BY <1>4
<1> HIDE DEF t
<1>7. T = {t[k] : k \in 1..n}
  <2>1. \A k \in 1..n : \E j \in 1..n : s[k].time = t[j]
    BY <1>2, <1>6, SMTT(30)
  <2>2. \A k \in 1..n : \E j \in 1..n : t[k] = s[j].time
    BY <1>2, <1>6
  <2>3. ASSUME NEW x \in T PROVE x \in {t[k] : k \in 1..n}
    <3>1. PICK k \in 1..n : x = s[k].time
      OBVIOUS
    <3> QED BY <2>1, <3>1
  <2>4. ASSUME NEW x \in {t[k] : k \in 1..n} PROVE x \in T
    <3>1. PICK k \in 1..n : x = t[k]
      OBVIOUS
    <3> QED BY <2>2, <3>1
  <2> HIDE DEF T
  <2> QED BY <2>3, <2>4
<1>8. (\A k \in 1..n : Sane(r[k])) <=> (\A k \in 1..n : Sane(s[k]))
  <2>1. ASSUME \A k \in 1..n : Sane(r[k]), NEW k \in 1..n PROVE Sane(s[k])
    <3>1. PICK j \in 1..n : p[j] = k
      BY <1>2
    <3>2. r[j] = s[k]
      BY <1>4, <3>1
    <3> QED BY <2>1, <3>2
  <2>2. ASSUME \A k \in 1..n : Sane(s[k]), NEW k \in 1..n PROVE Sane(r[k])
    <3>1. p[k] \in 1..n /\ r[k] = s[p[k]]
      BY <1>2, <1>4
    <3> QED BY <2>2, <3>1
  <2> QED BY <2>1, <2>2
<1>9. Chained(t, n) <=> Gapless(T, n)
  <2> HIDE DEF T
  <2> QED BY <1>3, <1>5, <1>7, ChainedGapless, GaplessChained
<1>10. Validated(s) <=> (\A k \in 1..n : Sane(r[k])) /\ Chained(t, n)
  <2>1. \A k \in 1..(n - 1) : k \in 1..n /\ k + 1 \in 1..n
    BY <1>3
  <2>2. \A k \in 1..n : t[k] = r[k].time
    BY DEF t
  <2>3. Chained(t, n) <=> \A k \in 1..(n - 1) : Continuous(r[k].time, r[k + 1].time)
    BY <2>1, <2>2 DEF Chained
  <2> QED BY <2>3 DEF Validated, n, r
<1>11. Whole(s) <=> Gapless(T, n) /\ \A k \in 1..n : Sane(s[k])
  <2>1. T = {s[k].time : k \in DOMAIN s} /\ n = Len(s)
    BY <1>3 DEF n
  <2> HIDE DEF T
  <2> QED BY <1>3, <2>1 DEF Whole, Gapless
<1> QED BY <1>8, <1>9, <1>10, <1>11

---------------------------------------------------------------------------
(* The hub *)

\* The closed candles up to each place.
Keeping(a, s, n) ==
  /\ a[0] = <<>>
  /\ \A k \in 1..n : a[k] = IF s[k].closed THEN Append(a[k - 1], s[k]) ELSE a[k - 1]

LEMMA KeepingExists ==
  ASSUME NEW s \in Seq(Candles), NEW n \in Nat
  PROVE  \E a : Keeping(a, s, n)
<1> DEFINE Bad == {m \in 0..n : ~ \E a : Keeping(a, s, m)}
<1>1. Bad = {}
  <2> SUFFICES ASSUME Bad # {} PROVE FALSE
    OBVIOUS
  <2>1. PICK m \in Bad : \A y \in Bad : m <= y
    <3>1. Bad \in SUBSET Nat
      OBVIOUS
    <3> HIDE DEF Bad
    <3> QED BY <3>1, LeastNat
  <2>2. m \in 0..n /\ ~ \E a : Keeping(a, s, m)
    OBVIOUS
  <2>3. m # 0
    <3> SUFFICES ASSUME m = 0 PROVE FALSE
      OBVIOUS
    <3>1. Keeping([k \in 0..0 |-> <<>>], s, 0)
      BY DEF Keeping
    <3> QED BY <2>2, <3>1
  <2>4. m - 1 \in 0..n /\ ~ (m <= m - 1)
    BY <2>2, <2>3
  <2>5. PICK a : Keeping(a, s, m - 1)
    BY <2>1, <2>4
  <2> DEFINE next == IF s[m].closed THEN Append(a[m - 1], s[m]) ELSE a[m - 1]
             b == [k \in 0..m |-> IF k = m THEN next ELSE a[k]]
  <2>6. b[0] = <<>> /\ b[m] = next
    BY <2>2, <2>3, <2>5 DEF Keeping
  <2>7. \A k \in 0..m : k # m => b[k] = a[k]
    OBVIOUS
  <2> HIDE DEF b
  <2>8. ASSUME NEW k \in 1..m
        PROVE  b[k] = IF s[k].closed THEN Append(b[k - 1], s[k]) ELSE b[k - 1]
    <3>1. k \in 0..m /\ k - 1 \in 0..m /\ k - 1 # m
      BY <2>2
    <3>2. b[k - 1] = a[k - 1]
      BY <2>7, <3>1
    <3>3. CASE k = m
      BY <2>6, <3>2, <3>3
    <3>4. CASE k # m
      <4>1. k \in 1..(m - 1) /\ b[k] = a[k]
        BY <2>2, <2>7, <3>1, <3>4
      <4> QED BY <2>5, <3>2, <4>1 DEF Keeping
    <3> QED BY <3>3, <3>4
  <2>9. Keeping(b, s, m)
    BY <2>6, <2>8 DEF Keeping
  <2> QED BY <2>2, <2>9
<1>2. n \in 0..n
  OBVIOUS
<1> QED BY <1>1, <1>2

LEMMA ClosedTyped ==
  ASSUME NEW s \in Seq(Candles)
  PROVE  Closed(s) \in Seq(Candles)
<1> DEFINE n == Len(s)
           Eqn(a) == a = [k \in 0..n |->
                            IF k = 0 THEN <<>>
                            ELSE IF s[k].closed THEN Append(a[k - 1], s[k]) ELSE a[k - 1]]
           t == CHOOSE a : Eqn(a)
<1>0. n \in Nat /\ \A k \in 1..n : s[k] \in Candles
  OBVIOUS
<1>1. Closed(s) = t[n]
  BY DEF Closed
<1> HIDE DEF n
<1>2. PICK a : Keeping(a, s, n)
  BY <1>0, KeepingExists
<1> DEFINE b == [k \in 0..n |-> a[k]]
<1>3. \A k \in 0..n : k # 0 => k \in 1..n /\ k - 1 \in 0..n
  BY <1>0
<1>4. \A k \in 0..n : b[k] = IF k = 0 THEN <<>>
                             ELSE IF s[k].closed THEN Append(b[k - 1], s[k]) ELSE b[k - 1]
  BY <1>2, <1>3 DEF Keeping
<1>5. Eqn(b)
  BY <1>4, Zenon
<1>6. Eqn(t)
  BY <1>5, Zenon
<1> HIDE DEF t
<1>7. \A k \in 0..n : t[k] = IF k = 0 THEN <<>>
                             ELSE IF s[k].closed THEN Append(t[k - 1], s[k]) ELSE t[k - 1]
  BY <1>6, Zenon
<1> DEFINE Bad == {k \in 0..n : t[k] \notin Seq(Candles)}
<1>8. Bad = {}
  <2> SUFFICES ASSUME Bad # {} PROVE FALSE
    OBVIOUS
  <2>1. PICK k \in Bad : \A y \in Bad : k <= y
    <3>1. Bad \in SUBSET Nat
      OBVIOUS
    <3> HIDE DEF Bad
    <3> QED BY <3>1, LeastNat
  <2>2. k \in 0..n /\ t[k] \notin Seq(Candles)
    OBVIOUS
  <2>3. k # 0
    <3>1. t[0] = <<>> /\ <<>> \in Seq(Candles)
      BY <1>0, <1>7
    <3> QED BY <2>2, <3>1
  <2>4. k \in 1..n /\ k - 1 \in 0..n /\ ~ (k <= k - 1)
    BY <1>0, <2>2, <2>3
  <2>5. t[k - 1] \in Seq(Candles)
    BY <2>1, <2>4
  <2>6. t[k] = Append(t[k - 1], s[k]) \/ t[k] = t[k - 1]
    BY <1>7, <2>2, <2>3
  <2>7. s[k] \in Candles
    BY <1>0, <2>4
  <2>8. t[k] \in Seq(Candles)
    <3>1. Append(t[k - 1], s[k]) \in Seq(Candles)
      BY <2>5, <2>7
    <3> QED BY <2>5, <2>6, <3>1
  <2> QED BY <2>2, <2>8
<1>9. n \in 0..n
  BY <1>0
<1> QED BY <1>1, <1>8, <1>9

LEMMA BatchesTyped == \A batch \in Batches : batch \in Seq(Candles)
BY DEF Batches, BoundedSeq, SeqOf

\* The error of the last load is its failure, whatever came in between.
HubInv ==
  /\ hub \in [error : BOOLEAN, stale : BOOLEAN]
  /\ good = ~ hub.error

LEMMA HubBegins == HubInit => HubInv
<1> SUFFICES ASSUME HubInit PROVE HubInv
  OBVIOUS
<1>1. hub = [error |-> FALSE, stale |-> TRUE] /\ good = TRUE
  BY DEF HubInit
<1>2. hub \in [error : BOOLEAN, stale : BOOLEAN] /\ hub.error = FALSE
  BY <1>1
<1> QED BY <1>1, <1>2 DEF HubInv

LEMMA HubKept == HubInv /\ [HubNext]_hubVars => HubInv'
<1> SUFFICES ASSUME HubInv, [HubNext]_hubVars PROVE HubInv'
  OBVIOUS
<1>1. ASSUME NEW batch \in Batches, NEW raised \in BOOLEAN, HubLoads(batch, raised) PROVE HubInv'
  <2> DEFINE c == Closed(batch)
  <2>1. Validated(c) <=> Whole(c)
    <3>1. c \in Seq(Candles)
      BY BatchesTyped, ClosedTyped
    <3> HIDE DEF c
    <3> QED BY <3>1, ValidatedIsWhole
  <2>2. /\ good' = (~ raised /\ Whole(c))
        /\ hub' = IF ~ raised /\ Validated(c) THEN [error |-> FALSE, stale |-> FALSE]
                  ELSE [hub EXCEPT !.error = TRUE]
    BY <1>1 DEF HubLoads
  <2> HIDE DEF c
  <2>3. CASE ~ raised /\ Validated(c)
    <3>1. hub' = [error |-> FALSE, stale |-> FALSE] /\ good' = TRUE
      BY <2>1, <2>2, <2>3
    <3> QED BY <3>1 DEF HubInv
  <2>4. CASE ~ (~ raised /\ Validated(c))
    <3>1. hub' = [hub EXCEPT !.error = TRUE] /\ good' = FALSE
      BY <2>1, <2>2, <2>4
    <3> QED BY <3>1 DEF HubInv
  <2> QED BY <2>3, <2>4
<1>2. CASE HubPrices
  BY <1>2 DEF HubPrices, HubInv
<1>3. CASE HubAges
  BY <1>3 DEF HubAges, HubInv
<1>4. CASE UNCHANGED hubVars
  BY <1>4 DEF hubVars, HubInv
<1> QED BY <1>1, <1>2, <1>3, <1>4 DEF HubNext

\* Whatever the provider returns, in whatever order and number, and however many
\* prices come in between: the hub reports healthy only if the last candles it was
\* asked for were a whole series, and a whole series clears the error.
THEOREM HubAlwaysHonest == HubSpec => []HubHonest
<1>1. HubInv => HubHonest
  BY DEF HubInv, HubHonest, Healthy
<1> QED BY <1>1, HubBegins, HubKept, PTL DEF HubSpec
=============================================================================
