----------------------------- MODULE PublicFeed -----------------------------
(***************************************************************************)
(* BinancePublicMarketStream: run reads one combined stream, observe keeps   *)
(* its integrity counters, health sums them up.  The combined stream carries *)
(* a depth stream, whose messages have update ids and a time, best prices    *)
(* (bookTicker), which have neither, and trades and candles, which have a    *)
(* time: "trade" is one such stream.  Messages of a connection arrive in     *)
(* order, those of a lost connection never do.  The counters of health are   *)
(* the set of those that are not zero; the reconnect back-off is a delay of  *)
(* arbitrary length.                                                         *)
(***************************************************************************)
EXTENDS Integers, Sequences

CONSTANTS StaleAfter, MaxEventDelay,
          MaxUpdateId,   \* bound on the exchange's depth updates
          MaxInFlight,   \* bound on the messages among which others are sent
          MaxFeedTime,   \* bound on the clock
          MaxFeedFaults  \* bound on disconnects, poison, repeats, clock steps

ASSUME FeedAssumption ==
  StaleAfter \in Nat /\ MaxEventDelay \in Nat /\ MaxUpdateId \in Nat
    /\ MaxFeedTime \in Nat /\ MaxFeedFaults \in Nat /\ MaxInFlight \in Nat

VARIABLES emittedAt,   \* the exchange's time of each depth update, by update id
          wire,        \* messages in flight on the connection
          link,        \* "up", "down" or "ended" (run has returned)
          stopEvent,   \* stop_event is set
          counted,     \* the counters of health that are not zero
          lastMessageAt, lastDepthFinal,   \* -1 stands for None
          lastEventTime,   \* by stream
          feedNow,     \* monotonic and wall clock
          observed,    \* history: updates observe has seen
          depthHeardAt,    \* history: when it saw the last of them
          downSince,   \* history: when the connection was lost
          stepped,     \* history: the clock has gone backwards
          feedFaults

feedVars == <<emittedAt, wire, link, stopEvent, counted, lastMessageAt, lastDepthFinal,
              lastEventTime, feedNow, observed, depthHeardAt, downSince, stepped, feedFaults>>
feedHistory == <<observed, depthHeardAt, downSince, stepped>>

Unset == -1
Streams == {"depth", "trade", "bookTicker"}

FeedInit ==
  /\ emittedAt = <<>> /\ wire = <<>> /\ link = "down" /\ stopEvent = FALSE
  /\ counted = {} /\ observed = {} /\ stepped = FALSE /\ feedFaults = 0
  /\ lastMessageAt = Unset /\ lastDepthFinal = Unset
  /\ lastEventTime = [s \in Streams |-> Unset]
  /\ feedNow = 0 /\ depthHeardAt = Unset /\ downSince = 0

-----------------------------------------------------------------------------
(* The exchange and the clock.                                             *)

DepthMessage(first, final, time) ==
  [stream |-> "depth", first |-> first, final |-> final, time |-> time]

\* n updates in one message, [U, u], which is lost when no connection is up.
FeedEmit(n) ==
  LET first == Len(emittedAt) + 1
      final == Len(emittedAt) + n
  IN  /\ final <= MaxUpdateId
      /\ emittedAt' = emittedAt \o [i \in 1..n |-> feedNow]
      /\ wire' = IF link = "up"
                 THEN Append(wire, DepthMessage(first, final, feedNow))
                 ELSE wire
      /\ UNCHANGED <<link, stopEvent, counted, lastMessageAt, lastDepthFinal,
                     lastEventTime, feedNow, feedHistory, feedFaults>>

\* A message of another stream, which says nothing of the depth.
FeedEmitOther(other) ==
  /\ link = "up" /\ Len(wire) < MaxInFlight
  /\ wire' = Append(wire, [stream |-> other, first |-> Unset, final |-> Unset,
                           time |-> IF other = "trade" THEN feedNow ELSE Unset])
  /\ UNCHANGED <<emittedAt, link, stopEvent, counted, lastMessageAt, lastDepthFinal,
                 lastEventTime, feedNow, feedHistory, feedFaults>>

\* An old depth message is sent again on the connection.
FeedRepeat(first, final) ==
  /\ link = "up" /\ feedFaults < MaxFeedFaults
  /\ wire' = Append(wire, DepthMessage(first, final, emittedAt[final]))
  /\ feedFaults' = feedFaults + 1
  /\ UNCHANGED <<emittedAt, link, stopEvent, counted, lastMessageAt, lastDepthFinal,
                 lastEventTime, feedNow, feedHistory>>

FeedTick ==
  /\ feedNow < MaxFeedTime
  /\ feedNow' = feedNow + 1
  /\ UNCHANGED <<emittedAt, wire, link, stopEvent, counted, lastMessageAt, lastDepthFinal,
                 lastEventTime, feedHistory, feedFaults>>

FeedClockBack ==
  /\ feedNow > 0 /\ feedFaults < MaxFeedFaults
  /\ feedNow' = feedNow - 1
  /\ stepped' = TRUE
  /\ feedFaults' = feedFaults + 1
  /\ UNCHANGED <<emittedAt, wire, link, stopEvent, counted, lastMessageAt, lastDepthFinal,
                 lastEventTime, observed, depthHeardAt, downSince>>

-----------------------------------------------------------------------------
(* observe and health.                                                     *)

Timed(e) == e.time # Unset
Older(e) == Timed(e) /\ lastEventTime[e.stream] # Unset /\ e.time < lastEventTime[e.stream]

\* Mutation of TimeCounters: a late event is not counted.
TimeCountersWithoutDelay(e) == {c \in {"out_of_order_events"} : Older(e)}

TimeCounters(e) ==
  {c \in {"out_of_order_events"} : Older(e)}
    \cup {c \in {"delayed_events"} : Timed(e) /\ feedNow - e.time > MaxEventDelay}

NewestTime(e) ==
  IF Timed(e) /\ ~Older(e) THEN [lastEventTime EXCEPT ![e.stream] = e.time]
  ELSE lastEventTime

\* Only a depth message has its update ids looked at.
IsDepth(e) == e.stream = "depth"

DepthCounters(e) ==
  {c \in {"out_of_order_events"} :
     IsDepth(e) /\ lastDepthFinal # Unset /\ e.final <= lastDepthFinal}
    \cup {c \in {"sequence_gaps"} : /\ IsDepth(e) /\ lastDepthFinal # Unset
                                    /\ e.final > lastDepthFinal
                                    /\ e.first > lastDepthFinal + 1}

NewestFinal(e) ==
  IF IsDepth(e) /\ (lastDepthFinal = Unset \/ e.final > lastDepthFinal)
    THEN e.final ELSE lastDepthFinal

ClockAnomaly == lastMessageAt # Unset /\ feedNow < lastMessageAt
\* Mutation of IsStale: the age of the last message does not count.
IsStaleWithoutAge == lastMessageAt = Unset \/ ClockAnomaly

IsStale == \/ lastMessageAt = Unset
           \/ ClockAnomaly
           \/ feedNow - lastMessageAt > StaleAfter

Healthy == ~IsStale /\ counted = {}

\* health: asking is_stale with a clock that went backwards is itself counted.
AskHealth ==
  /\ ClockAnomaly
  /\ counted' = counted \cup {"clock_anomaly"}
  /\ UNCHANGED <<emittedAt, wire, link, stopEvent, lastMessageAt, lastDepthFinal,
                 lastEventTime, feedNow, feedHistory, feedFaults>>

-----------------------------------------------------------------------------
(* run.                                                                    *)

SetStop ==
  /\ ~stopEvent /\ stopEvent' = TRUE
  /\ UNCHANGED <<emittedAt, wire, link, counted, lastMessageAt, lastDepthFinal,
                 lastEventTime, feedNow, feedHistory, feedFaults>>

\* Mutation of FeedConnect: the new connection starts a new sequence.
FeedConnectForgets ==
  /\ link = "down"
  /\ link' = IF stopEvent THEN "ended" ELSE "up"
  /\ lastDepthFinal' = Unset
  /\ downSince' = IF stopEvent THEN downSince ELSE Unset
  /\ UNCHANGED <<emittedAt, wire, stopEvent, counted, lastMessageAt, lastEventTime,
                 feedNow, observed, depthHeardAt, stepped, feedFaults>>

\* The loop's test of stop_event, and a connection that is established.
FeedConnect ==
  /\ link = "down"
  /\ link' = IF stopEvent THEN "ended" ELSE "up"
  /\ downSince' = IF stopEvent THEN downSince ELSE Unset
  /\ UNCHANGED <<emittedAt, wire, stopEvent, counted, lastMessageAt, lastDepthFinal,
                 lastEventTime, feedNow, observed, depthHeardAt, stepped, feedFaults>>

\* The connection fails or is closed, with what is in flight; asleep afterwards.
FeedDisconnect ==
  /\ link = "up" /\ feedFaults < MaxFeedFaults
  /\ link' = IF stopEvent THEN "ended" ELSE "down"
  /\ wire' = <<>>
  /\ downSince' = feedNow
  /\ feedFaults' = feedFaults + 1
  /\ UNCHANGED <<emittedAt, stopEvent, counted, lastMessageAt, lastDepthFinal,
                 lastEventTime, feedNow, observed, depthHeardAt, stepped>>

\* A message that parse rejects, or a depth message whose update ids observe
\* cannot read (timed: its time was noted before): counted and skipped, and
\* stop_event is not looked at.
FeedPoison(timed) ==
  LET e == Head(wire)
  IN  /\ link = "up" /\ wire # <<>> /\ feedFaults < MaxFeedFaults
      /\ timed => IsDepth(e)
      /\ wire' = Tail(wire)
      /\ lastMessageAt' = feedNow
      /\ counted' = counted \cup {"bad_messages"}
           \cup {c \in {"clock_anomaly"} : ClockAnomaly}
           \cup (IF timed THEN TimeCounters(e) ELSE {})
      /\ lastEventTime' = IF timed THEN NewestTime(e) ELSE lastEventTime
      /\ feedFaults' = feedFaults + 1
      /\ UNCHANGED <<emittedAt, link, stopEvent, lastDepthFinal, feedNow, feedHistory>>

\* observe, then the handler; raised: it failed, which costs the connection.
FeedReceive(raised) ==
  LET e == Head(wire)
  IN  /\ link = "up" /\ wire # <<>>
      /\ raised => feedFaults < MaxFeedFaults
      /\ lastMessageAt' = feedNow
      /\ counted' = counted \cup TimeCounters(e) \cup DepthCounters(e)
           \cup {c \in {"clock_anomaly"} : ClockAnomaly}
      /\ lastEventTime' = NewestTime(e)
      /\ lastDepthFinal' = NewestFinal(e)
      /\ observed' = IF IsDepth(e) THEN observed \cup e.first..e.final ELSE observed
      /\ depthHeardAt' = IF IsDepth(e) THEN feedNow ELSE depthHeardAt
      /\ link' = IF stopEvent THEN "ended" ELSE IF raised THEN "down" ELSE "up"
      /\ wire' = IF link' = "up" THEN Tail(wire) ELSE <<>>
      /\ downSince' = IF link' = "up" THEN downSince ELSE feedNow
      /\ feedFaults' = IF raised THEN feedFaults + 1 ELSE feedFaults
      /\ UNCHANGED <<emittedAt, stopEvent, feedNow, stepped>>

FeedNext ==
  \/ \E n \in 1..2 : FeedEmit(n)
  \/ \E other \in Streams \ {"depth"} : FeedEmitOther(other)
  \/ \E first, final \in DOMAIN emittedAt : first <= final /\ FeedRepeat(first, final)
  \/ FeedTick \/ FeedClockBack \/ AskHealth \/ SetStop
  \/ FeedConnect \/ FeedDisconnect
  \/ \E timed \in BOOLEAN : FeedPoison(timed)
  \/ \E raised \in BOOLEAN : FeedReceive(raised)

FeedSpec == FeedInit /\ [][FeedNext]_feedVars

-----------------------------------------------------------------------------
(* Properties.                                                             *)

\* observe ("Track packet integrity without silently repairing or reordering
\* data"): an update that never arrived between two that did, whether a lost
\* connection, a poisoned message or a reconnect swallowed it, is a counted gap,
\* or an out-of-order event when the older one is a repeat of one never seen.
MissedIsCounted ==
  (\E u \in DOMAIN emittedAt \ observed : \E a, b \in observed : a < u /\ u < b)
    => counted \cap {"sequence_gaps", "out_of_order_events"} # {}

\* health: while the clock only moves forward, a feed without a counted anomaly
\* has the whole depth up to the delay limit before the last depth message it
\* heard: every update of that age that followed the first one seen has been
\* observed, even across reconnects.
DepthIsCurrent ==
  Healthy /\ ~stepped =>
    \A u \in DOMAIN emittedAt :
      /\ \E first \in observed : first <= u
      /\ emittedAt[u] < depthHeardAt - MaxEventDelay
      => u \in observed

\* is_stale: a connection that is gone for longer than the limit is noticed,
\* whichever of its streams spoke last.
LostLinkIsStale ==
  link # "up" /\ ~stepped /\ feedNow - downSince > StaleAfter => IsStale

\* BinancePublicMarketStream.health: what it counts and what it calls healthy
\* are so, through reconnects, poisoned messages and clock steps.
HealthIsTruthful == MissedIsCounted /\ DepthIsCurrent /\ LostLinkIsStale

\* What health does not promise: every message refreshes last_message_at, so a
\* depth stream that went silent with a lost connection stays healthy for as
\* long as trades or best prices come in.
HealthySeesSilentDepth ==
  Healthy /\ ~stepped =>
    \A u \in DOMAIN emittedAt :
      /\ \E first \in observed : first <= u
      /\ emittedAt[u] < feedNow - StaleAfter - MaxEventDelay
      => u \in observed
=============================================================================
