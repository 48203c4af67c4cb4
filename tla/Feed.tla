-------------------------------- MODULE Feed --------------------------------
(***************************************************************************)
(* The websocket client (app/market_data/websocket/client.py): tasks that  *)
(* connect, subscribe and receive, retry with a backoff, fall back on a    *)
(* REST call and begin again, while commands subscribe, unsubscribe, start *)
(* and stop.                                                               *)
(*                                                                         *)
(* The transport and the exchange are external: a connection is up or      *)
(* down and knows what was subscribed on it; what is sent arrives later,   *)
(* in the order of the sends, or is lost with the connection, and a send   *)
(* raises only when its connection is lost; messages arrive late, twice,   *)
(* out of order or not at all.  A message is its number, which is its id   *)
(* and its sequence.                                                       *)
(***************************************************************************)
EXTENDS Integers, FiniteSets, SequencesExt

CONSTANTS
  Symbols,
  MaxStarts,     \* bound: calls of start
  MaxAttempts,   \* attempts of one with_exponential_backoff (5)
  MaxFaults,     \* bound: refused or dropped connections, failing callbacks
  MaxRequests,   \* bound: subscribe and unsubscribe
  MaxSeq,        \* bound: messages are numbered 1..MaxSeq
  SeenCap        \* ids the client remembers (10000)

ASSUME FeedAssumption ==
  /\ {MaxStarts, MaxAttempts, SeenCap} \subseteq Nat \ {0}
  /\ {MaxFaults, MaxRequests, MaxSeq} \subseteq Nat
  /\ Symbols # {}

Runs == 1..MaxStarts

VARIABLES
  running,   \* _running
  current,   \* _task, 0 for None
  run,       \* per task: where it is, its attempt, the symbols left to subscribe
  stopping,  \* what a stop waits for: nothing, the transport, the task
  connected, \* metrics.connected
  subs,      \* subscriptions
  wire,      \* external: the connection, what is subscribed on it, and the
             \* symbols whose last request on its way there adds or drops them
  feed,      \* _seen_ids, _last_seq, whether sequence_gaps was ever counted
  received,  \* history: the first message past the duplicate check, and all of them
  overlap,   \* history: start was called with a task alive, or during a stop
  faults, requests  \* used so far, of the bounds

client == <<running, current, run, stopping, connected, subs, wire>>
feedVars == <<client, feed, received, overlap, faults, requests>>

---------------------------------------------------------------------------
(* The websocket client *)

Alive(t) == run[t].pc \notin {"none", "ended", "raised"}
At(t, pc) == run[t].pc = pc
TaskAt(pc, attempt, left) == [pc |-> pc, attempt |-> attempt, left |-> left]
Goes(t, pc) == run' = [run EXCEPT ![t].pc = pc]

Down  == [up |-> FALSE, subs |-> {}, adds |-> {}, drops |-> {}]
Fresh == [Down EXCEPT !.up = TRUE]

\* transport.send of a request: it is on its way, if there is a connection.
Sends(w, s, adds) ==
  IF ~ w.up THEN w
  ELSE IF adds THEN [w EXCEPT !.adds = @ \cup {s}, !.drops = @ \ {s}]
  ELSE [w EXCEPT !.adds = @ \ {s}, !.drops = @ \cup {s}]

\* start: no look at a task that may be there already.
Start ==
  /\ \E t \in Runs :
       /\ At(t, "none") /\ \A u \in 1..(t - 1) : ~ At(u, "none")
       /\ current' = t
       /\ Goes(t, "top")
  /\ running' = TRUE
  /\ overlap' = (overlap \/ stopping # "no" \/ \E t \in Runs : Alive(t))
  /\ UNCHANGED <<stopping, connected, subs, wire, feed, received, faults, requests>>

\* stop closes the transport and waits for it ...
StopCloses ==
  /\ stopping = "no"
  /\ \E t \in Runs : ~ At(t, "none")
  /\ stopping' = "transport"
  /\ running' = FALSE
  /\ wire' = Down
  /\ UNCHANGED <<current, run, connected, subs, feed, received, overlap, faults, requests>>

\* ... cancels the task that _task names by now, and waits for it.  The exception
\* of a task that has raised leaves stop here: _task and connected stay as they are.
StopCancels ==
  /\ stopping = "transport"
  /\ \/ /\ current # 0 /\ Alive(current)
        /\ stopping' = "task"
        /\ run' = [run EXCEPT ![current] = TaskAt("cancelled", 1, {})]
        /\ UNCHANGED <<current, connected>>
     \/ /\ current # 0 /\ At(current, "raised")
        /\ stopping' = "no"
        /\ UNCHANGED <<current, connected, run>>
     \/ /\ current # 0 => At(current, "ended")
        /\ stopping' = "no" /\ current' = 0 /\ connected' = FALSE
        /\ UNCHANGED run
  /\ UNCHANGED <<running, subs, wire, feed, received, overlap, faults, requests>>

\* The cancelled task is over and stop clears _task, whatever it names by now.
StopEnds ==
  /\ stopping = "task"
  /\ stopping' = "no"
  /\ run' = [t \in Runs |-> IF At(t, "cancelled") THEN TaskAt("ended", 1, {}) ELSE run[t]]
  /\ current' = 0 /\ connected' = FALSE
  /\ UNCHANGED <<running, subs, wire, feed, received, overlap, faults, requests>>

\* _run_loop.
RunLoop(t) ==
  /\ At(t, "top")
  /\ run' = [run EXCEPT ![t] = TaskAt(IF running THEN "connect" ELSE "ended", 1, {})]
  /\ UNCHANGED <<running, current, stopping, connected, subs, wire>>

\* Mutant of AttemptFails: the last attempt ends the task.
AttemptFailsForGood(t) ==
  /\ IF run[t].attempt < MaxAttempts
     THEN /\ run' = [run EXCEPT ![t] = TaskAt("backoff", @.attempt + 1, {})]
          /\ UNCHANGED connected
     ELSE /\ run' = [run EXCEPT ![t] = TaskAt("ended", 1, {})]
          /\ connected' = FALSE
  /\ UNCHANGED <<running, current, stopping, subs, wire>>

\* An attempt raised: with_exponential_backoff sleeps and tries again; after
\* the last one _run_loop counts a disconnect.  Only then connected is cleared.
AttemptFails(t) ==
  /\ IF run[t].attempt < MaxAttempts
     THEN /\ run' = [run EXCEPT ![t] = TaskAt("backoff", @.attempt + 1, {})]
          /\ UNCHANGED connected
     ELSE /\ run' = [run EXCEPT ![t] = TaskAt(IF subs # {} THEN "fallback" ELSE "top", 1, {})]
          /\ connected' = FALSE
  /\ UNCHANGED <<running, current, stopping, subs, wire>>

BackoffEnds(t) ==
  /\ At(t, "backoff")
  /\ Goes(t, "connect")
  /\ UNCHANGED <<running, current, stopping, connected, subs, wire>>

\* Mutant of Connects: only what is new is subscribed.
ConnectsNewOnly(t) ==
  /\ At(t, "connect")
  /\ wire' = Fresh
  /\ connected' = TRUE
  /\ run' = [run EXCEPT ![t].pc = "subscribe", ![t].left = Symbols \ subs]
  /\ UNCHANGED <<running, current, stopping, subs>>

\* The first part of _connect_and_consume; running is not looked at.
Connects(t) ==
  /\ At(t, "connect")
  /\ wire' = Fresh
  /\ connected' = TRUE
  /\ run' = [run EXCEPT ![t].pc = "subscribe", ![t].left = IF subs # {} THEN subs ELSE Symbols]
  /\ UNCHANGED <<running, current, stopping, subs>>

\* Its loop over the symbols: subscribe adds the symbol again whatever happened to
\* it since the list was taken, and if connected awaits the send.
Subscribes(t) ==
  /\ At(t, "subscribe")
  /\ \E s \in run[t].left :
       /\ subs' = subs \cup {s}
       /\ wire' = IF connected THEN Sends(wire, s, TRUE) ELSE wire
       /\ run' = [run EXCEPT ![t].left = @ \ {s},
                             ![t].pc = IF connected THEN "send" ELSE "subscribe"]
  /\ UNCHANGED <<running, current, stopping, connected>>

\* The send returns.
Sent(t) ==
  /\ At(t, "send") /\ wire.up
  /\ Goes(t, "subscribe")
  /\ UNCHANGED <<running, current, stopping, connected, subs, wire>>

\* Its loop over the messages.
Listens(t) ==
  \/ /\ At(t, "subscribe") /\ run[t].left = {}
     /\ Goes(t, IF running THEN "recv" ELSE "top")
     /\ UNCHANGED <<running, current, stopping, connected, subs, wire>>
  \/ /\ At(t, "handler")
     /\ Goes(t, IF running THEN "recv" ELSE "top")
     /\ UNCHANGED <<running, current, stopping, connected, subs, wire>>

\* send and recv raise on a connection that is gone; the symbol of the send stays
\* subscribed, the ones after it were never added.
Loses(t) ==
  /\ ~ wire.up
  /\ At(t, "recv") \/ At(t, "send")
  /\ AttemptFails(t)

\* rest_fallback returns.
FallsBack(t) ==
  /\ At(t, "fallback")
  /\ Goes(t, "top")
  /\ UNCHANGED <<running, current, stopping, connected, subs, wire>>

TaskStep(t) ==
  /\ \/ RunLoop(t) \/ BackoffEnds(t) \/ Connects(t) \/ Subscribes(t) \/ Sent(t)
     \/ Listens(t) \/ Loses(t) \/ FallsBack(t)
  /\ UNCHANGED <<feed, received, overlap, faults, requests>>

\* Faults: connect is refused, the tick handler raises, or rest_fallback
\* does, which no one catches: the task is over and running stays set.
TaskFails(t) ==
  /\ faults < MaxFaults
  /\ faults' = faults + 1
  /\ \/ (At(t, "connect") \/ At(t, "handler")) /\ AttemptFails(t)
     \/ /\ At(t, "fallback")
        /\ Goes(t, "raised")
        /\ UNCHANGED <<running, current, stopping, connected, subs, wire>>
  /\ UNCHANGED <<feed, received, overlap, requests>>

\* External: the exchange drops the connection, and what was on its way is lost.
Drops ==
  /\ wire.up
  /\ faults < MaxFaults
  /\ faults' = faults + 1
  /\ wire' = Down
  /\ UNCHANGED <<running, current, run, stopping, connected, subs, feed, received, overlap,
                 requests>>

\* External: the last request on a symbol reaches the exchange.
Arrives(s) ==
  /\ s \in wire.adds \cup wire.drops
  /\ wire' = [wire EXCEPT !.subs = IF s \in wire.adds THEN @ \cup {s} ELSE @ \ {s},
                          !.adds = @ \ {s}, !.drops = @ \ {s}]
  /\ UNCHANGED <<running, current, run, stopping, connected, subs, feed, received, overlap,
                 faults, requests>>

\* subscribe and unsubscribe by a caller, up to the await of the send, which
\* returns or raises to him with nothing left to do.
Commands(s, adds) ==
  /\ requests < MaxRequests
  /\ requests' = requests + 1
  /\ subs' = IF adds THEN subs \cup {s} ELSE subs \ {s}
  /\ wire' = IF connected THEN Sends(wire, s, adds) ELSE wire
  /\ UNCHANGED <<running, current, run, stopping, connected, feed, received, overlap, faults>>

---------------------------------------------------------------------------
(* Messages *)

\* Mutant of Sequenced: one missing message is no gap.
SequencedLoosely(f, n) ==
  [f EXCEPT !.gap = @ \/ (f.last # 0 /\ n > f.last + 2), !.last = n]

\* The sequence check: a step up by more than one is a gap; the last number
\* is taken over in either direction.
Sequenced(f, n) ==
  [f EXCEPT !.gap = @ \/ (f.last # 0 /\ n > f.last + 1), !.last = n]

\* deque(maxlen=SeenCap).
Remembered(ids, n) ==
  IF Len(ids) < SeenCap THEN Append(ids, n) ELSE Append(Tail(ids), n)

\* _handle_message: a duplicate leaves nothing; any other message is marked
\* as seen before its handler runs, future-dated ones are then put aside.
Receives(t, n, future) ==
  /\ At(t, "recv")
  /\ wire.up
  /\ IF \E k \in DOMAIN feed.seen : feed.seen[k] = n
     THEN UNCHANGED <<feed, received>> /\ Goes(t, IF running THEN "recv" ELSE "top")
     ELSE /\ feed' = Sequenced([feed EXCEPT !.seen = Remembered(@, n)], n)
          /\ received' = [first |-> IF received.all = {} THEN n ELSE received.first,
                         all |-> received.all \cup {n}]
          /\ Goes(t, IF ~ future THEN "handler" ELSE IF running THEN "recv" ELSE "top")
  /\ UNCHANGED <<running, current, stopping, connected, subs, wire, overlap, faults,
                 requests>>

---------------------------------------------------------------------------
(* The specification *)

FeedInit ==
  /\ running = FALSE
  /\ current = 0
  /\ run = [t \in Runs |-> TaskAt("none", 1, {})]
  /\ stopping = "no"
  /\ connected = FALSE
  /\ subs = {}
  /\ wire = Down
  /\ feed = [seen |-> <<>>, last |-> 0, gap |-> FALSE]
  /\ received = [first |-> 0, all |-> {}]
  /\ overlap = FALSE
  /\ faults = 0
  /\ requests = 0

FeedNext ==
  \/ Start \/ StopCloses \/ StopCancels \/ StopEnds
  \/ \E t \in Runs : TaskStep(t) \/ TaskFails(t)
  \/ \E t \in Runs, n \in 1..MaxSeq, future \in BOOLEAN : Receives(t, n, future)
  \/ \E s \in Symbols, adds \in BOOLEAN : Commands(s, adds)
  \/ \E s \in Symbols : Arrives(s)
  \/ Drops

\* The event loop runs a task that can run: sleeps end, a connection that is
\* not refused is made, sends and callbacks return, a failed recv raises, a
\* cancelled task ends.
FeedFairness == WF_feedVars(StopEnds) /\ \A t \in Runs : WF_feedVars(TaskStep(t))
FeedSpec == FeedInit /\ [][FeedNext]_feedVars /\ FeedFairness

---------------------------------------------------------------------------
(* Properties *)

\* Some task has made its subscriptions and waits for messages or a handler.
Listening == \E t \in Runs : run[t].pc \in {"recv", "handler"}

\* Whatever was subscribed and unsubscribed while the connection was being
\* lost, retried and made again, and whichever sends were lost with it: when a
\* client that was never started twice at once, or during a stop, listens on a
\* connection and nothing is on its way there, the exchange sends what the client
\* believes it subscribed to (subscriptions).
SubscriptionsAgree ==
  (Listening /\ wire.up /\ wire.adds \cup wire.drops = {} /\ ~ overlap) => wire.subs = subs

\* A hole is never silent: while no gap was counted, every number between the
\* first message and the highest one has been received, in whatever order,
\* across reconnects, and with duplicates the client has forgotten about.
GapsNoticed ==
  ~ feed.gap => \A n \in 1..MaxSeq :
    (received.first < n /\ \E k \in received.all : k > n) => n \in received.all

\* A started client listens on a connection again, however many attempts fail,
\* unless it is stopped or its REST fallback raises.
FeedRecovers ==
  LET Fed == running /\ current # 0 /\ ~ At(current, "raised")
  IN  Fed ~> ((Listening /\ wire.up) \/ ~ Fed)
=============================================================================
