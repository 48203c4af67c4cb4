---------------------------- MODULE MCMarketData ----------------------------
EXTENDS Feed, MarketHub

Candle(time, high, closed) ==
  [time |-> time, open |-> 2, high |-> high, low |-> 1, close |-> 2, volume |-> 1,
   closed |-> closed]

\* Candles two apart, one between them, one still open, one with a high below
\* its open.
MCCandles == {Candle(0, 3, TRUE), Candle(2, 3, TRUE), Candle(3, 3, TRUE), Candle(4, 3, TRUE),
              Candle(4, 3, FALSE), Candle(2, 1, TRUE)}

\* The websocket client and the hub share no variable, so a step of the one
\* commutes with every step of the other: a behaviour of this instance
\* exercises one of them.
MCInit == FeedInit /\ HubInit
\* Nor do the numbers of the messages meet the subscriptions in the client: a
\* behaviour with messages after the first has no requests, and what is sent from
\* then on does not arrive.
ClientSteps ==
  /\ loads = 0
  /\ FeedNext
  /\ \/ received'.all \subseteq {1} /\ (requests' > 0 => ~ overlap')
     \/ requests' = 0 /\ ~ overlap' /\ wire'.subs \subseteq wire.subs
  /\ UNCHANGED hubVars
HubSteps == (\A t \in Runs : run[t].pc = "none") /\ HubNext /\ UNCHANGED feedVars
MCNext == ClientSteps \/ HubSteps
MCSpec == MCInit /\ [][MCNext]_<<feedVars, hubVars>> /\ FeedFairness
=============================================================================
