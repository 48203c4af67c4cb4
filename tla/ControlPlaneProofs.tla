------------------------- MODULE ControlPlaneProofs -------------------------
(***************************************************************************)
(* Theorems about module ControlPlane, for any number of requests,         *)
(* commands, background tasks, faults and crashes:                         *)
(*   - flags, tasks, database and requests keep their types, and the write *)
(*     lock of the database has one owner;                                 *)
(*   - if operators only engage the kill switch, an engaged switch is not  *)
(*     lost to the transactions and tasks that write it concurrently.      *)
(***************************************************************************)
EXTENDS ControlPlane, FiniteSetTheorems, TLAPS

(* The inductive invariant *)

\* The requests that have come past the point where they may order.
Acted == {a \in Actors : actor[a].pc \notin {"idle", "cycle"}}

\* One order per request at most.
OrdersCounted == orders \in Nat /\ orders <= Cardinality(Acted)

\* Nothing of a process survives its crash.
NothingLeft == ~up => writer = Nobody /\ tasks = {} /\ ~kill

\* A background task that is going to write the kill switch.
Pending == \E t \in tasks : t.flag = "kill"

\* With operators who only engage, no task writes the switch disengaged.
EngagingTasks == \A t \in tasks : t.flag = "kill" => t.value = TRUE

\* An engaged switch is stored, or a task is still to store it.
KillStored == (up /\ kill /\ ~lost) => (Pending \/ Restored)

\* A transaction that is about to overwrite both places the switch is stored in
\* has read it engaged, or a task that waits for its write lock will store it.
KillStaged ==
  \A a \in Actors :
    (up /\ kill /\ ~lost /\ actor[a].pc = "ready")
      => (Pending \/ actor[a].staged.kill \/ actor[a].staged.risk)

\* Types, counts and the write lock: for any commands.
Base == TypeOK /\ OrdersCounted /\ NothingLeft

\* What keeps the switch, for operators who only engage.
Engaged == EngagingTasks /\ KillStored /\ KillStaged

---------------------------------------------------------------------------
(* Background tasks *)

\* The writes a command spawns are one or two.
LEMMA WritesCounted ==
  ASSUME NEW v, NEW w
  PROVE  /\ Cardinality({v}) \in Nat \ {0}
         /\ Cardinality({v} \cup {w}) \in Nat \ {0} /\ Cardinality({v} \cup {}) \in Nat \ {0}
<1>1. IsFiniteSet({v}) /\ Cardinality({v}) = 1
  BY FS_Singleton
<1>2. IsFiniteSet({v} \cup {w})
  BY <1>1, FS_AddElement
<1>3. Cardinality({v} \cup {w}) \in Nat /\ (Cardinality({v} \cup {w}) = 0 => {v} \cup {w} = {})
  BY <1>2, FS_CardinalityType, FS_EmptySet
<1>4. {v} \cup {} = {v}
  OBVIOUS
<1> QED
  BY <1>1, <1>3, <1>4

\* loop.create_task keeps the tasks well typed.
LEMMA SpawnTypes ==
  ASSUME TypeOK, NEW writes, Spawn(writes), Cardinality(writes) \in Nat \ {0},
         \A w \in writes : w.flag \in {"kill", "paused", "enabled"} /\ w.value \in BOOLEAN
  PROVE  issued' \in 0..MaxIssued /\ tasks' \subseteq Task
<1>1. issued' \in 0..MaxIssued /\ issued + 1 \in 1..MaxIssued
  BY BoundsAssumption DEF TypeOK, Spawn
<1>2. \A w \in writes : [id |-> issued + 1, flag |-> w.flag, value |-> w.value] \in Task
  BY <1>1 DEF Task
<1> QED
  BY <1>1, <1>2 DEF TypeOK, Spawn

\* The writes of the handlers are well formed.
LEMMA CommandWrites ==
  ASSUME NEW flag \in {"kill", "paused", "enabled"}, NEW value \in BOOLEAN
  PROVE  /\ \A w \in {Write(flag, value)} :
              w.flag \in {"kill", "paused", "enabled"} /\ w.value \in BOOLEAN
         /\ Cardinality({Write(flag, value)}) \in Nat \ {0}
<1>1. Cardinality({Write(flag, value)}) \in Nat \ {0}
  BY WritesCounted
<1>2. Write(flag, value).flag = flag /\ Write(flag, value).value = value
  BY DEF Write
<1> QED
  BY <1>1, <1>2

\* So are those of the MVP handler, which also disables trading.
LEMMA KillWrites ==
  ASSUME NEW value \in BOOLEAN
  PROVE  LET writes == {Write("kill", value)} \cup IF value THEN {Write("enabled", FALSE)} ELSE {}
         IN  /\ \A w \in writes : w.flag \in {"kill", "paused", "enabled"} /\ w.value \in BOOLEAN
             /\ Cardinality(writes) \in Nat \ {0}
<1> DEFINE k == Write("kill", value)
           e == Write("enabled", FALSE)
<1>1. Cardinality({k} \cup {e}) \in Nat \ {0} /\ Cardinality({k} \cup {}) \in Nat \ {0}
  BY WritesCounted
<1>2. k.flag = "kill" /\ k.value = value /\ e.flag = "enabled" /\ e.value = FALSE
  BY DEF Write
<1> HIDE DEF k, e
<1>3. CASE value
  BY <1>1, <1>2, <1>3 DEF k, e
<1>4. CASE ~value
  BY <1>1, <1>2, <1>4 DEF k, e
<1> QED
  BY <1>3, <1>4

---------------------------------------------------------------------------
(* Counting the orders *)

\* The requests that have acted are finitely many.
LEMMA ActedFinite ==
  /\ IsFiniteSet(Acted) /\ Cardinality(Acted) \in Nat
  /\ Cardinality(Acted) <= Cardinality(Actors) /\ Cardinality(Actors) \in Nat
  BY ActorsAssumption, FS_Subset, FS_CardinalityType DEF Acted

\* A step that orders nothing and takes no request back keeps the count.
LEMMA CountKept ==
  ASSUME OrdersCounted, orders' = orders, Acted \subseteq Acted'
  PROVE  OrdersCounted'
<1>1. IsFiniteSet(Acted') /\ Cardinality(Acted) \in Nat /\ Cardinality(Acted') \in Nat
  <2>1. Acted' \subseteq Actors
    BY DEF Acted
  <2> QED
    BY <2>1, ActedFinite, ActorsAssumption, FS_Subset, FS_CardinalityType
<1>2. Cardinality(Acted) <= Cardinality(Acted')
  BY <1>1, FS_Subset
<1> QED
  BY <1>1, <1>2 DEF OrdersCounted

\* A request that may order has not acted before, and has afterwards.
LEMMA CountOne ==
  ASSUME OrdersCounted, orders' \in {orders, orders + 1}, Acted \subseteq Acted',
         NEW a \in Acted', a \notin Acted
  PROVE  OrdersCounted'
<1>1. IsFiniteSet(Acted') /\ Cardinality(Acted) \in Nat /\ Cardinality(Acted') \in Nat
  <2>1. Acted' \subseteq Actors
    BY DEF Acted
  <2> QED
    BY <2>1, ActedFinite, ActorsAssumption, FS_Subset, FS_CardinalityType
<1>2. Cardinality(Acted \cup {a}) = Cardinality(Acted) + 1
  BY ActedFinite, FS_AddElement
<1>3. Cardinality(Acted \cup {a}) <= Cardinality(Acted')
  BY <1>1, FS_Subset
<1> QED
  BY <1>1, <1>2, <1>3 DEF OrdersCounted

\* The count bounds the orders by the requests.
LEMMA OrdersBounded ==
  ASSUME NEW S, S \subseteq Actors, NEW n \in Nat, n <= Cardinality(S)
  PROVE  n \in 0..Cardinality(Actors)
<1>1. Cardinality(S) \in Nat /\ Cardinality(Actors) \in Nat /\ Cardinality(S) <= Cardinality(Actors)
  BY ActorsAssumption, FS_Subset, FS_CardinalityType
<1> QED
  BY <1>1

---------------------------------------------------------------------------
(* Base: the commands and the background tasks *)

\* A command changes one flag, or two, and creates tasks for them.
LEMMA CommandsBase ==
  ASSUME Base,
         \/ \E value \in BOOLEAN : SetKillSwitch(value) \/ TradingKillSwitch(value)
         \/ \E value \in BOOLEAN : SetPaused(value) \/ SetTradingEnabled(value)
  PROVE  Base'
<1>1. PICK value \in BOOLEAN :
        SetKillSwitch(value) \/ TradingKillSwitch(value) \/ SetPaused(value)
        \/ SetTradingEnabled(value)
  OBVIOUS
<1>2. issued' \in 0..MaxIssued /\ tasks' \subseteq Task
  BY <1>1, SpawnTypes, CommandWrites, KillWrites
     DEF Base, SetKillSwitch, TradingKillSwitch, SetPaused, SetTradingEnabled
<1>3. UNCHANGED <<up, crashes, faults, lost, orchKill, writer, db, actor, orders>> /\ up
  BY <1>1 DEF SetKillSwitch, TradingKillSwitch, SetPaused, SetTradingEnabled, env
<1>4. kill' \in BOOLEAN /\ paused' \in BOOLEAN /\ enabled' \in BOOLEAN
  BY <1>1 DEF Base, TypeOK, SetKillSwitch, TradingKillSwitch, SetPaused, SetTradingEnabled
<1>5. OrdersCounted'
  BY <1>3, CountKept DEF Base, Acted
<1> QED
  BY <1>2, <1>3, <1>4, <1>5 DEF Base, TypeOK, NothingLeft

\* A background task ends with its commit or without.
LEMMA TasksBase ==
  ASSUME Base, NEW t \in tasks, TaskCommits(t) \/ TaskFails(t)
  PROVE  Base'
<1>1. t \in Task
  BY DEF Base, TypeOK
<1>2. db' \in Database
  BY <1>1 DEF Base, TypeOK, TaskCommits, TaskFails, Database, Task
<1>3. faults' \in 0..MaxFaults /\ lost' \in BOOLEAN /\ tasks' \subseteq Task
  <2>1. faults' \in 0..MaxFaults
    BY BoundsAssumption DEF Base, TypeOK, TaskCommits, TaskFails, Raise
  <2> QED
    BY <2>1 DEF Base, TypeOK, TaskCommits, TaskFails
<1>4. UNCHANGED <<up, crashes, kill, paused, enabled, orchKill, issued, writer, actor, orders>> /\ up
  BY DEF TaskCommits, TaskFails, env
<1>5. OrdersCounted'
  BY <1>4, CountKept DEF Base, Acted
<1> QED
  BY <1>2, <1>3, <1>4, <1>5 DEF Base, TypeOK, NothingLeft

---------------------------------------------------------------------------
(* Base: the requests *)

\* A request moves on, with whatever it has staged; the others stay.
Moves(a, pc) ==
  /\ actor' \in [Actors -> Actor] /\ actor'[a].pc = pc
  /\ \A b \in Actors \ {a} : actor'[b] = actor[b]

\* Goto moves one request.
LEMMA GotoMoves ==
  ASSUME TypeOK, NEW a \in Actors, NEW pc \in PCs, Goto(a, pc)
  PROVE  /\ Moves(a, pc)
         /\ actor'[a].staged = actor[a].staged /\ actor'[a].ordered = actor[a].ordered
  BY DEF TypeOK, Goto, Moves, Actor

\* Where the steps of a request lead, and that they keep its shape.
LEMMA RequestMoves ==
  ASSUME TypeOK, NEW a \in Actors, Request(a)
  PROVE  \E pc \in PCs :
           /\ Moves(a, pc)
           /\ pc \in {"flushed", "ready"} <=> writer' = a
           /\ pc \in {"idle", "cycle"} => actor[a].pc \in {"idle", "cycle"} /\ orders' = orders
<1> DEFINE r == actor[a]
<1>1. /\ r \in Actor /\ kill \in BOOLEAN /\ paused \in BOOLEAN /\ enabled \in BOOLEAN
      /\ r.pc \in {"flushed", "ready"} <=> writer = a
      /\ a # Nobody
  BY ActorsAssumption DEF TypeOK
<1> USE DEF At, PCs
<1>2. CASE RunCycle(a) \/ RunStrategyTick(a) \/ \E oneShot \in BOOLEAN : TradingCycle(a, oneShot)
  <2>1. PICK kind \in {"cycle", "tick"} : At(a, "idle") /\ ShareOrchestrator(a, kind)
    BY <1>2 DEF RunCycle, RunStrategyTick, TradingCycle
  <2>2. [r EXCEPT !.pc = "cycle", !.kind = kind] \in Actor
    BY <1>1 DEF Actor, Kinds
  <2>3. Moves(a, "cycle")
    BY <2>1, <2>2 DEF ShareOrchestrator, Moves, TypeOK, Actor
  <2> QED
    BY <1>1, <2>1, <2>3 DEF ShareOrchestrator
<1>3. ASSUME NEW wanted \in BOOLEAN, CycleActs(a, wanted)
      PROVE  Moves(a, "persist") /\ r.pc = "cycle" /\ writer' = writer
  <2> DEFINE places == wanted /\ ~paused /\ ~orchKill
  <2>1. [r EXCEPT !.pc = "persist", !.ordered = places] \in Actor
    BY <1>1 DEF Actor
  <2> QED
    BY <1>3, <2>1 DEF CycleActs, Moves, TypeOK, Actor
<1>4. CASE CycleReturns(a)
  BY <1>1, <1>4, GotoMoves DEF CycleReturns, Return
<1>5. CASE PlaceOrder(a)
  BY <1>1, <1>5, GotoMoves DEF PlaceOrder
<1>6. CASE StageControls(a)
  <2> DEFINE st == [r.staged EXCEPT !.kill = kill, !.paused = paused, !.enabled = enabled]
  <2>1. st \in Database
    BY <1>1 DEF Actor, Database
  <2>2. [r EXCEPT !.pc = "staged", !.staged = st] \in Actor
    BY <1>1, <2>1 DEF Actor
  <2>3. actor' = [actor EXCEPT ![a] = [r EXCEPT !.pc = "staged", !.staged = st]]
    <3>1. r.staged \in Database
      BY <1>1 DEF Actor
    <3> QED
      BY <1>1, <1>6, <3>1, ZenonT(60) DEF StageControls, TypeOK, Actor, Database
  <2>4. Moves(a, "staged")
    BY <2>2, <2>3 DEF Moves, TypeOK, Actor
  <2> QED
    BY <1>1, <1>6, <2>4 DEF StageControls
<1>7. CASE Flush(a)
  BY <1>1, <1>7, GotoMoves DEF Flush
<1>8. CASE StageRisk(a)
  <2> DEFINE st == [r.staged EXCEPT !.risk = kill]
  <2>1. [r EXCEPT !.pc = "ready", !.staged = st] \in Actor
    BY <1>1 DEF Actor, Database
  <2>2. Moves(a, "ready")
    BY <1>8, <2>1 DEF StageRisk, Moves, TypeOK, Actor, Database
  <2> QED
    BY <1>1, <1>8, <2>2 DEF StageRisk
<1>9. CASE Commit(a) \/ PersistFails(a)
  <2>1. PICK pc \in {"tail", "done"} : Goto(a, pc)
    BY <1>9 DEF Commit, PersistFails, Return
  <2>2. writer' # a
    BY <1>1, <1>9 DEF Commit, PersistFails
  <2> QED
    BY <2>1, <2>2, GotoMoves
<1>10. CASE TickEnds(a)
  BY <1>1, <1>10, GotoMoves DEF TickEnds
<1> QED
  BY <1>1, <1>2, <1>3, <1>4, <1>5, <1>6, <1>7, <1>8, <1>9, <1>10 DEF Request

\* The flags, the tasks and the database after a step of a request.
LEMMA RequestTypes ==
  ASSUME TypeOK, NEW a \in Actors, Request(a)
  PROVE  /\ UNCHANGED <<up, crashes, kill, enabled, lost>> /\ up
         /\ faults' \in 0..MaxFaults /\ paused' \in BOOLEAN /\ orchKill' \in BOOLEAN
         /\ issued' \in 0..MaxIssued /\ tasks' \subseteq Task /\ db' \in Database
         /\ orders' \in {orders, orders + 1}
<1>1. CASE RunCycle(a) \/ RunStrategyTick(a) \/ \E oneShot \in BOOLEAN : TradingCycle(a, oneShot)
  BY <1>1 DEF RunCycle, RunStrategyTick, TradingCycle, ShareOrchestrator, At, TypeOK, env
<1>2. CASE (\E wanted \in BOOLEAN : CycleActs(a, wanted)) \/ CycleReturns(a) \/ PlaceOrder(a)
  BY <1>2 DEF CycleActs, CycleReturns, PlaceOrder, At, TypeOK, env
<1>3. CASE StageControls(a) \/ Flush(a) \/ StageRisk(a)
  BY <1>3 DEF StageControls, Flush, StageRisk, At, TypeOK, env
<1>4. CASE Commit(a)
  BY <1>4 DEF Commit, At, TypeOK, Actor, env
<1>5. CASE PersistFails(a)
  <2>1. faults' \in 0..MaxFaults
    BY <1>5, BoundsAssumption DEF PersistFails, Raise, TypeOK
  <2> QED
    BY <1>5, <2>1 DEF PersistFails, TypeOK, env
<1>6. CASE TickEnds(a)
  <2>1. issued' \in 0..MaxIssued /\ tasks' \subseteq Task
    BY <1>6, SpawnTypes, CommandWrites DEF TickEnds, TypeOK
  <2> QED
    BY <1>6, <2>1 DEF TickEnds, At, TypeOK, env
<1> QED
  BY <1>1, <1>2, <1>3, <1>4, <1>5, <1>6 DEF Request

\* The write lock goes from nobody to this request or from it to nobody.
LEMMA RequestLocks ==
  ASSUME TypeOK, NEW a \in Actors, Request(a)
  PROVE  writer' = writer \/ {writer, writer'} \subseteq {a, Nobody}
<1>1. CASE Flush(a)
  BY <1>1 DEF Flush
<1>2. CASE Commit(a)
  BY <1>2 DEF Commit, At, TypeOK
<1>3. CASE PersistFails(a)
  BY <1>3 DEF PersistFails
<1> QED
  BY <1>1, <1>2, <1>3 DEF Request, RunCycle, RunStrategyTick, TradingCycle, ShareOrchestrator,
     CycleActs, CycleReturns, PlaceOrder, StageControls, StageRisk, TickEnds

\* A step of a request keeps Base.
LEMMA RequestBase ==
  ASSUME Base, NEW a \in Actors, Request(a)
  PROVE  Base'
<1>1. PICK pc \in PCs :
        /\ Moves(a, pc)
        /\ pc \in {"flushed", "ready"} <=> writer' = a
        /\ pc \in {"idle", "cycle"} => actor[a].pc \in {"idle", "cycle"} /\ orders' = orders
  BY RequestMoves DEF Base
<1>2. \A b \in Actors : actor'[b].pc \in {"flushed", "ready"} <=> writer' = b
  <2>1. \A b \in Actors \ {a} : b # Nobody /\ (writer' = b <=> writer = b)
    BY RequestLocks, ActorsAssumption DEF Base
  <2> QED
    BY <1>1, <2>1 DEF Base, TypeOK, Moves
<1>3. OrdersCounted'
  <2>1. Acted \subseteq Acted'
    BY <1>1 DEF Acted, Moves
  <2>2. CASE orders' = orders
    BY <2>1, <2>2, CountKept DEF Base
  <2>3. CASE orders' # orders
    <3>1. a \in Acted' /\ a \notin Acted
      <4>1. actor[a].pc \in {"idle", "cycle"}
        BY <2>3 DEF Request, RunCycle, RunStrategyTick, TradingCycle, ShareOrchestrator,
           CycleActs, CycleReturns, PlaceOrder, StageControls, Flush, StageRisk, Commit,
           PersistFails, TickEnds, At
      <4> QED
        BY <1>1, <2>3, <4>1 DEF Acted, Moves
    <3> QED
      BY <2>1, <3>1, CountOne, RequestTypes DEF Base
  <2> QED
    BY <2>2, <2>3
<1>4. TypeOK'
  <2>1. orders' \in 0..Cardinality(Actors)
    <3>1. Acted' \subseteq Actors
      BY DEF Acted
    <3> QED
      BY <1>3, <3>1, OrdersBounded DEF OrdersCounted
  <2> QED
    BY <1>1, <1>2, <2>1, RequestTypes DEF Base, TypeOK, Moves
<1> QED
  BY <1>3, <1>4, RequestTypes DEF Base, NothingLeft

---------------------------------------------------------------------------
(* Base: crash and restart *)

\* The states of a fresh request are well typed.
LEMMA FreshTypes == Actor0 \in Actor /\ [Actor0 EXCEPT !.pc = "done"] \in Actor
  BY DEF Actor0, Actor, Database0, Database, PCs, Kinds

\* A crash ends every request and every task, and the count of the orders stands.
LEMMA CrashBase == ASSUME Base, Crash PROVE Base'
<1>1. actor' \in [Actors -> Actor] /\ \A a \in Actors : actor'[a].pc \in {"idle", "done"}
  BY FreshTypes DEF Crash, Actor0
<1>2. OrdersCounted'
  <2>1. Acted \subseteq Acted'
    BY DEF Acted, Crash, Actor0
  <2> QED
    BY <2>1, CountKept DEF Base, Crash
<1>3. TypeOK'
  <2>1. crashes' \in 0..MaxCrashes
    BY BoundsAssumption DEF Crash, Base, TypeOK
  <2>2. \A a \in Actors : actor'[a].pc \in {"flushed", "ready"} <=> writer' = a
    BY <1>1, ActorsAssumption DEF Crash
  <2> QED
    BY <1>1, <2>1, <2>2 DEF Crash, Base, TypeOK
<1> QED
  BY <1>2, <1>3 DEF Base, NothingLeft, Crash

\* Hydration reads Booleans.
LEMMA BootBase == ASSUME Base, Boot PROVE Base'
<1>1. OrdersCounted'
  BY CountKept DEF Base, Boot, Acted
<1>2. kill' \in BOOLEAN /\ paused' \in BOOLEAN /\ enabled' \in BOOLEAN
  BY DEF Boot, Restored, Base, TypeOK, Database
<1> QED
  BY <1>1, <1>2 DEF Boot, Base, TypeOK, NothingLeft

\* The first process starts with nothing stored and nothing under way.
LEMMA InitBase == Init => Base
<1> SUFFICES ASSUME Init PROVE Base
  OBVIOUS
<1>1. Cardinality(Acted) \in Nat /\ Cardinality(Actors) \in Nat
  BY ActedFinite
<1>2. OrdersCounted
  BY <1>1 DEF OrdersCounted, Init
<1>3. actor \in [Actors -> Actor] /\ \A a \in Actors : actor[a].pc = "idle"
  BY FreshTypes DEF Init, Actor0
<1>4. /\ crashes \in 0..MaxCrashes /\ faults \in 0..MaxFaults /\ issued \in 0..MaxIssued
      /\ orders \in 0..Cardinality(Actors)
  BY <1>1, BoundsAssumption DEF Init
<1>5. db \in Database
  BY DEF Init, Database0, Database
<1>6. \A a \in Actors : actor[a].pc \in {"flushed", "ready"} <=> writer = a
  BY <1>3, ActorsAssumption DEF Init
<1> QED
  BY <1>2, <1>3, <1>4, <1>5, <1>6 DEF Base, TypeOK, NothingLeft, Init

\* Every step keeps Base, whatever the operators command.
LEMMA NextBase == Base /\ [Next]_vars => Base'
<1> SUFFICES ASSUME Base, [Next]_vars PROVE Base'
  OBVIOUS
<1>1. KillCommands \subseteq BOOLEAN /\ PauseCommands \subseteq BOOLEAN /\ EnableCommands \subseteq BOOLEAN
  BY CommandsAssumption
<1>2. CASE Next
  BY <1>1, <1>2, CommandsBase, TasksBase, RequestBase, CrashBase, BootBase DEF Next
<1>3. CASE UNCHANGED vars
  BY <1>3 DEF vars, Base, TypeOK, OrdersCounted, Acted, NothingLeft
<1> QED
  BY <1>2, <1>3

\* Base holds throughout.
THEOREM BaseInvariance == Spec => []Base
  BY InitBase, NextBase, PTL DEF Spec

\* Flags, tasks, database and requests keep their types; a transaction that has
\* flushed holds the write lock alone, and no request orders twice.
THEOREM TypeCorrect == Spec => []TypeOK
  BY BaseInvariance, PTL DEF Base

---------------------------------------------------------------------------
(* The kill switch *)

\* Spawn adds tasks for the flags it is given, and takes none away.
LEMMA SpawnAdds ==
  ASSUME NEW writes, Spawn(writes)
  PROVE  /\ tasks \subseteq tasks'
         /\ \A t \in tasks' : t \in tasks \/ \E w \in writes : t.flag = w.flag /\ t.value = w.value
         /\ \A w \in writes : \E t \in tasks' : t.flag = w.flag
<1> DEFINE New(w) == [id |-> issued + 1, flag |-> w.flag, value |-> w.value]
<1>1. \A w \in writes : New(w).flag = w.flag /\ New(w).value = w.value
  OBVIOUS
<1>2. tasks' = tasks \cup {New(w) : w \in writes}
  BY DEF Spawn
<1> HIDE DEF New
<1> QED
  BY <1>1, <1>2

\* Commands of operators who only engage.
LEMMA CommandsEngaged ==
  ASSUME Engaged,
         \/ SetKillSwitch(TRUE) \/ TradingKillSwitch(TRUE)
         \/ \E value \in BOOLEAN : SetPaused(value) \/ SetTradingEnabled(value)
  PROVE  Engaged'
<1>1. UNCHANGED <<up, lost, db, actor>>
  BY DEF SetKillSwitch, TradingKillSwitch, SetPaused, SetTradingEnabled, env
<1>2. CASE SetKillSwitch(TRUE) \/ TradingKillSwitch(TRUE)
  <2>1. PICK writes :
          /\ Spawn(writes) /\ Write("kill", TRUE) \in writes
          /\ \A w \in writes : w.flag = "kill" => w.value = TRUE
    <3>1. Write("kill", TRUE).value = TRUE /\ Write("enabled", FALSE).flag = "enabled"
      BY DEF Write
    <3>2. SetKillSwitch(TRUE) => Spawn({Write("kill", TRUE)})
      BY DEF SetKillSwitch
    <3>3. TradingKillSwitch(TRUE) => Spawn({Write("kill", TRUE)} \cup {Write("enabled", FALSE)})
      BY DEF TradingKillSwitch
    <3>4. ASSUME SetKillSwitch(TRUE)
          PROVE  LET writes == {Write("kill", TRUE)}
                 IN  /\ Spawn(writes) /\ Write("kill", TRUE) \in writes
                     /\ \A w \in writes : w.flag = "kill" => w.value = TRUE
      BY <3>1, <3>2, <3>4
    <3>5. ASSUME TradingKillSwitch(TRUE)
          PROVE  LET writes == {Write("kill", TRUE)} \cup {Write("enabled", FALSE)}
                 IN  /\ Spawn(writes) /\ Write("kill", TRUE) \in writes
                     /\ \A w \in writes : w.flag = "kill" => w.value = TRUE
      BY <3>1, <3>3, <3>5
    <3> QED
      BY <1>2, <3>4, <3>5
  <2>2. Pending'
    BY <2>1, SpawnAdds DEF Pending, Write
  <2>3. EngagingTasks'
    BY <2>1, SpawnAdds DEF Engaged, EngagingTasks
  <2> QED
    BY <2>2, <2>3 DEF Engaged, KillStored, KillStaged
<1>3. ASSUME NEW value \in BOOLEAN, SetPaused(value) \/ SetTradingEnabled(value)
      PROVE  Engaged'
  <2>1. PICK flag \in {"paused", "enabled"} : Spawn({Write(flag, value)})
    BY <1>3 DEF SetPaused, SetTradingEnabled
  <2>2. Write(flag, value).flag # "kill"
    BY DEF Write
  <2>3. EngagingTasks' /\ (Pending => Pending')
    BY <2>1, <2>2, SpawnAdds DEF Engaged, EngagingTasks, Pending
  <2>4. kill' = kill
    BY <1>3 DEF SetPaused, SetTradingEnabled
  <2> QED
    BY <1>1, <2>3, <2>4 DEF Engaged, KillStored, KillStaged, Restored
<1> QED
  BY <1>2, <1>3

\* A task of the switch stores it; any other leaves it alone; none commits while a
\* transaction holds the write lock.
LEMMA TasksEngaged ==
  ASSUME Base, Engaged, NEW t \in tasks, TaskCommits(t) \/ TaskFails(t)
  PROVE  Engaged'
<1>1. EngagingTasks'
  BY DEF Engaged, EngagingTasks, TaskCommits, TaskFails
<1>2. CASE TaskFails(t)
  BY <1>1, <1>2 DEF Engaged, KillStored, KillStaged, TaskFails
<1>3. CASE TaskCommits(t)
  <2>1. \A a \in Actors : actor'[a].pc # "ready"
    BY <1>3, ActorsAssumption DEF TaskCommits, Base, TypeOK
  <2>2. UNCHANGED <<up, kill, lost>> /\ t \in Task
    BY <1>3 DEF TaskCommits, env, Base, TypeOK
  <2>3. CASE t.flag = "kill"
    <3>1. db'.kill = TRUE
      BY <1>3, <2>3 DEF TaskCommits, Base, TypeOK, Database, Engaged, EngagingTasks
    <3> QED
      BY <1>1, <2>1, <3>1 DEF Engaged, KillStored, KillStaged, Restored
  <2>4. CASE t.flag # "kill"
    <3>1. db'.kill = db.kill /\ db'.risk = db.risk
      BY <1>3, <2>2, <2>4 DEF TaskCommits, Base, TypeOK, Database, Task
    <3>2. Pending => Pending'
      BY <1>3, <2>4 DEF TaskCommits, Pending
    <3> QED
      BY <1>1, <2>1, <2>2, <3>1, <3>2 DEF Engaged, KillStored, KillStaged, Restored
  <2> QED
    BY <2>3, <2>4
<1> QED
  BY <1>2, <1>3

\* save_risk_state reads the switch behind the flush, so a transaction that had
\* staged it disengaged still stores it, or keeps the task that does so waiting.
LEMMA RequestEngaged ==
  ASSUME Base, Base', Engaged, NEW a \in Actors, Request(a)
  PROVE  Engaged'
<1>1. UNCHANGED <<up, kill, lost>> /\ up
  BY RequestTypes DEF Base
<1>2. EngagingTasks' /\ (Pending => Pending')
  <2>1. CASE UNCHANGED tasks
    BY <2>1 DEF Engaged, EngagingTasks, Pending
  <2>2. CASE Spawn({Write("kill", TRUE)})
    <3>1. Write("kill", TRUE).value = TRUE
      BY DEF Write
    <3>2. tasks \subseteq tasks' /\ \A t \in tasks' : t \in tasks \/ t.value = TRUE
      <4> DEFINE W == {Write("kill", TRUE)}
      <4>1. /\ tasks \subseteq tasks'
            /\ \A t \in tasks' : t \in tasks \/ \E w \in W : t.flag = w.flag /\ t.value = w.value
        BY <2>2, SpawnAdds
      <4> QED
        BY <3>1, <4>1
    <3> QED
      BY <3>2 DEF Engaged, EngagingTasks, Pending
  <2> QED
    BY <2>1, <2>2 DEF Request, RunCycle, RunStrategyTick, TradingCycle, ShareOrchestrator,
       CycleActs, CycleReturns, PlaceOrder, StageControls, Flush, StageRisk, Commit,
       PersistFails, TickEnds
<1>3. KillStored'
  <2>1. CASE Commit(a)
    <3>1. db'.kill = actor[a].staged.kill /\ db'.risk = actor[a].staged.risk /\ actor[a].pc = "ready"
      BY <2>1 DEF Commit, At
    <3> QED
      BY <1>1, <1>2, <3>1 DEF Engaged, KillStaged, KillStored, Restored
  <2>2. CASE UNCHANGED db
    BY <1>1, <1>2, <2>2 DEF Engaged, KillStored, Restored
  <2> QED
    BY <2>1, <2>2 DEF Request, RunCycle, RunStrategyTick, TradingCycle, ShareOrchestrator,
       CycleActs, CycleReturns, PlaceOrder, StageControls, Flush, StageRisk, PersistFails, TickEnds
<1>4. KillStaged'
  <2> SUFFICES ASSUME NEW b \in Actors, kill, ~lost, actor'[b].pc = "ready"
               PROVE  Pending' \/ actor'[b].staged.kill \/ actor'[b].staged.risk
    BY <1>1 DEF KillStaged
  <2>1. CASE b # a
    <3>1. actor'[b] = actor[b]
      BY <2>1, RequestMoves DEF Base, Moves
    <3> QED
      BY <1>1, <1>2, <3>1 DEF Engaged, KillStaged
  <2>2. CASE b = a
    <3>1. StageRisk(a)
      <4>1. ASSUME NEW pc \in PCs, Goto(a, pc), pc # "ready" PROVE FALSE
        BY <2>2, <4>1, GotoMoves DEF Base, Moves
      <4>2. ~CycleReturns(a) /\ ~PlaceOrder(a) /\ ~Flush(a) /\ ~Commit(a) /\ ~PersistFails(a) /\ ~TickEnds(a)
        <5>1. ~\E pc \in {"persist", "tail", "done", "flushed"} : Goto(a, pc)
          BY <4>1 DEF PCs
        <5> QED
          BY <5>1 DEF CycleReturns, PlaceOrder, Flush, Commit, PersistFails, TickEnds, Return
      <4>3. ~(RunCycle(a) \/ RunStrategyTick(a) \/ \E oneShot \in BOOLEAN : TradingCycle(a, oneShot))
        BY <2>2, ZenonT(60) DEF RunCycle, RunStrategyTick, TradingCycle, ShareOrchestrator, Base, TypeOK, Actor
      <4>4. ~StageControls(a) /\ ~\E wanted \in BOOLEAN : CycleActs(a, wanted)
        <5>1. ~StageControls(a)
          <6>1. ASSUME StageControls(a) PROVE actor'[a].pc = "staged"
            BY <6>1 DEF StageControls, Base, TypeOK, Actor, Database
          <6> QED
            BY <2>2, <6>1
        <5>2. ASSUME NEW wanted \in BOOLEAN, CycleActs(a, wanted) PROVE FALSE
          BY <2>2, <5>2 DEF CycleActs, Base, TypeOK, Actor
        <5> QED
          BY <5>1, <5>2
      <4> QED
        BY <4>2, <4>3, <4>4 DEF Request
    <3>2. actor'[a].staged.risk = kill
      BY <3>1 DEF StageRisk, Base, TypeOK, Actor, Database
    <3> QED
      BY <2>2, <3>2
  <2> QED
    BY <2>1, <2>2
<1> QED
  BY <1>2, <1>3, <1>4 DEF Engaged

\* A crash forgets the switch, and a restart restores it from where it is stored.
LEMMA RestartEngaged ==
  ASSUME Base, Engaged, Crash \/ Boot
  PROVE  Engaged'
<1>1. CASE Crash
  BY <1>1 DEF Crash, Engaged, EngagingTasks, KillStored, KillStaged
<1>2. CASE Boot
  <2>1. \A a \in Actors : actor'[a].pc # "ready"
    BY <1>2, ActorsAssumption DEF Boot, Base, TypeOK, NothingLeft
  <2> QED
    BY <1>2, <2>1 DEF Boot, Engaged, EngagingTasks, KillStored, KillStaged, Restored
<1> QED
  BY <1>1, <1>2

\* With operators who only engage, an engaged kill switch survives: once every
\* background write has gone through, a restart would engage it again, whatever
\* persist_paper_session transactions had staged before the command.
THEOREM KillDurableAlways == KillCommands \subseteq {TRUE} => (Spec => []KillDurable)
<1> SUFFICES ASSUME KillCommands \subseteq {TRUE} PROVE Spec => []KillDurable
  OBVIOUS
<1>1. Init => Engaged
  BY DEF Init, Engaged, EngagingTasks, KillStored, KillStaged
<1>2. Base /\ Base' /\ Engaged /\ [Next]_vars => Engaged'
  <2> SUFFICES ASSUME Base, Base', Engaged, [Next]_vars PROVE Engaged'
    OBVIOUS
  <2>1. PauseCommands \subseteq BOOLEAN /\ EnableCommands \subseteq BOOLEAN
    BY CommandsAssumption
  <2>2. CASE UNCHANGED vars
    BY <2>2 DEF vars, Engaged, EngagingTasks, KillStored, KillStaged, Pending, Restored
  <2>3. ASSUME NEW value \in KillCommands, SetKillSwitch(value) \/ TradingKillSwitch(value)
        PROVE  Engaged'
    <3>1. value = TRUE
      OBVIOUS
    <3> QED
      BY <2>3, <3>1, CommandsEngaged
  <2>4. ASSUME NEW value \in BOOLEAN, SetPaused(value) \/ SetTradingEnabled(value)
        PROVE  Engaged'
    BY <2>4, CommandsEngaged
  <2> QED
    BY <2>1, <2>2, <2>3, <2>4, TasksEngaged, RequestEngaged, RestartEngaged DEF Next
<1>3. Engaged => KillDurable
  BY DEF Engaged, KillStored, KillDurable, Pending
<1> QED
  BY <1>1, <1>2, <1>3, BaseInvariance, PTL DEF Spec
=============================================================================
