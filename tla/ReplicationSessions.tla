------------------------- MODULE ReplicationSessions -------------------------
(***************************************************************************)
(* The sessions of a backfill, and what a client does before and after them,*)
(* keep the invariant.                                                      *)
(***************************************************************************)
EXTENDS ReplicationInvariant, Backfill

USE SMTT(30)

------------------------------------------------------------------------------
(* The client's constructor.                                                  *)
\* The subscription puts the tracker at the last write.
LEMMA SubscribeStep ==
  ASSUME Inv, Subscribe
  PROVE  Inv'
<1> USE DEF Inv
<1>1. /\ UNCHANGED <<log, pstore, writes, session, pre, backfiller, to_backfiller,
                     to_backfillee, tokens, store, meta>>
      /\ client.phase = "starting"
      /\ remote' = [state |-> "async", started |-> Len(log), acked |-> 0]
      /\ client' = [client EXCEPT !.phase = "registered", !.completed = Len(log),
                                  !.subscribed = Len(log), !.tracker = Tracker(Len(log))]
  BY Zenon DEF Subscribe, primary_vars, backfill_vars, store_vars
<1>2. Len(log) \in Nat /\ NumKeys \in Nat
  BY BoundsAssumption DEF Types
<1>3. client' \in Client /\ remote' \in Remote
  <2>2. Tracker(Len(log)) \in [prev : Nat, entries : Seq([right : Nat, ts : Nat])]
    BY <1>2 DEF Tracker
  <2> QED
    BY <1>1, <1>2, <2>2, Zenon DEF Remote, Types, Client, Phases
<1>4. /\ client'.phase = "registered" /\ client'.completed = Len(log)
      /\ client'.subscribed = Len(log) /\ client'.tracker = Tracker(Len(log))
      /\ client'.tracker.entries = <<>> /\ client'.tracker.prev = Len(log)
      /\ client'.start = client.start
  BY <1>1, Zenon DEF Types, Client, Tracker
<1>13. Contiguous'
  BY <1>1, Zenon DEF Contiguous, Reached
<1>14. ItemsTrue'
  <2>1. InFlight = {} /\ InFlight' = InFlight
    BY <1>1, NoneInFlight, ZenonT(40) DEF InFlight
  <2> QED
    BY <2>1, Zenon DEF ItemsTrue
<1> QED
  BY <1>1, <1>3, <1>2, <1>4, ContentSame, <1>13, <1>14 DEF Types, Bounded, True,
     TokensInOrder, Streamed, Ordered, Frontier, threshold, get_backfill_threshold,
     get_max_timestamp, Protocol, Pending, PreOrder, Untouched, Known, Backfilling

\* The intros put the common versions where the stores are.
LEMMA CreateBackfilleeStep ==
  ASSUME Inv, CreateBackfillee
  PROVE  Inv'
<1> USE DEF Inv
<1> DEFINE cv == [k \in Keys |-> CommonVersion(k)]
<1>1. /\ UNCHANGED <<log, pstore, remote, writes, session, to_backfiller, to_backfillee,
                     tokens, store, meta>>
      /\ client.phase = "registered" /\ client' = [client EXCEPT !.phase = "paused"]
      /\ backfiller' = [NoBackfiller EXCEPT !.common = cv]
      /\ pre' = [NoPre EXCEPT !.common = cv]
  BY Zenon DEF CreateBackfillee, primary_vars, dispatch_vars, store_vars
<1>2. \A k \in Keys : /\ meta[k] \in {Old} \cup Nat
                      /\ CommonVersion(k) \in Nat /\ CommonVersion(k) <= pstore
                      /\ IF meta[k] = Old THEN CommonVersion(k) = 0 ELSE CommonVersion(k) <= meta[k]
  BY DEF Types, CommonVersion, Old
<1>3. cv \in [Keys -> Nat] /\ \A k \in Keys : cv[k] = CommonVersion(k)
  BY <1>2, Zenon
<1> HIDE DEF cv
<1>4. NumKeys \in Nat /\ NumKeys > 0
  BY BoundsAssumption
<1>5. /\ client' \in Client /\ client'.phase = "paused" /\ client'.tracker = client.tracker
      /\ client'.completed = client.completed /\ client'.subscribed = client.subscribed
      /\ client'.start = client.start
  BY <1>1, Zenon DEF Types, Client, Phases
<1>6. /\ backfiller' \in Backfiller /\ backfiller'.common = cv /\ backfiller'.session = None
      /\ backfiller'.pre_right = 0
  BY <1>1, <1>3, <1>4 DEF Backfiller, NoBackfiller
<1>8. /\ threshold' = threshold /\ threshold = 0 /\ tokens = <<>> /\ to_backfiller = <<>>
      /\ get_max_timestamp(client.tracker) = client.completed
  BY <1>1, <1>5, Zenon DEF threshold, Frontier, PreOrder
<1>17. ItemsTrue'
  <2>1. InFlight = {} /\ InFlight' = InFlight
    BY <1>1, NoneInFlight, Zenon DEF InFlight
  <2> QED
    BY <2>1, Zenon DEF ItemsTrue
<1> QED
  BY <1>1, <1>5, <1>6, <1>3, <1>4, ContentSame, <1>8, <1>17, <1>2 DEF Types, Bounded, True,
     TokensInOrder, Streamed, Frontier, Protocol, Pending, Contiguous, Reached, PreOrder,
     Untouched, Keys, Known, Pre, NoPre

\* The throttler lock is acquired: the start timestamp is not before the newest entry.
LEMMA StartBackfillStep ==
  ASSUME Inv, StartBackfill
  PROVE  Inv'
<1> USE DEF Inv
<1>1. /\ UNCHANGED <<log, pstore, remote, writes, session, pre, backfiller, to_backfiller,
                     to_backfillee, tokens, store, meta>>
      /\ client.phase = "paused"
      /\ client' = [client EXCEPT !.phase = "synchronizing", !.start = client.completed]
  BY Zenon DEF StartBackfill, primary_vars, dispatch_vars, backfill_vars, store_vars
<1>2. /\ client' \in Client /\ client'.phase = "synchronizing"
      /\ client'.tracker = client.tracker /\ client'.completed = client.completed
      /\ client'.subscribed = client.subscribed /\ client'.start = client.completed
  BY <1>1, Zenon DEF Types, Client, Phases
<1>3. threshold' = threshold
  BY <1>2, Zenon DEF threshold
<1>4. InFlight = {} /\ InFlight' = InFlight
  BY <1>1, NoneInFlight, Zenon DEF InFlight
<1>12. PreOrder'
  BY <1>1, <1>2, Zenon DEF PreOrder, Backfilling
<1>13. Untouched'
  BY <1>1, <1>2, <1>3, Zenon DEF Untouched, Backfilling
<1>14. Known'
  BY <1>1, <1>2, <1>3, <1>4, ContentSame DEF Known, Backfilling
<1> QED
  BY <1>1, <1>2, ContentSame, <1>3, ClientTypes, <1>4, <1>12, <1>13, <1>14 DEF Types,
     Bounded, TokensInOrder, True, Streamed, Frontier, Protocol, Pending, Contiguous,
     Reached, ItemsTrue

\* The replica_t takes over when the tracker's newest timestamp has been
\* streamed, so that every key is at the last write.
LEMMA BecomeStreamingStep ==
  ASSUME NatIsWellOrdered, Inv, BecomeStreaming
  PROVE  Inv'
<1> USE DEF Inv
<1>1. /\ UNCHANGED <<log, pstore, remote, writes, session, pre, backfiller, to_backfiller,
                     to_backfillee, tokens, store, meta>>
      /\ client.phase = "finishing"
      /\ client.completed >= get_max_timestamp(client.tracker)
      /\ client' = [client EXCEPT !.phase = "streaming", !.end = client.completed]
  BY Zenon DEF BecomeStreaming, WritesCaughtUp, primary_vars, dispatch_vars, backfill_vars,
     store_vars
<1>2. /\ client' \in Client /\ client'.phase = "streaming"
      /\ client'.tracker = client.tracker /\ client'.completed = client.completed
  BY <1>1, Zenon DEF Types, Client, Phases
<1>7. Streamed'
  BY <1>1, ClientTypes, BoundsAssumption, TimestampBounds, <1>2 DEF Streamed, Frontier,
     threshold, Keys
<1>9. Protocol' /\ Contiguous'
  BY <1>1, <1>2 DEF Protocol, Pending, Contiguous, Reached
<1>11. PreOrder' /\ Untouched' /\ Known'
  BY <1>2, Zenon DEF PreOrder, Untouched, Known, Backfilling
<1> QED
  BY <1>1, <1>2, ContentSame, <1>7, <1>9, NoneInFlight, <1>11 DEF Types, Bounded,
     TokensInOrder, Frontier, True, ItemsTrue, InFlight

------------------------------------------------------------------------------
(* The messages.                                                              *)
\* r is q and possibly more messages of a type.
MoreOf(q, r, type) ==
    /\ \A i \in DOMAIN q : i \in DOMAIN r /\ r[i] = q[i]
    /\ \A i \in DOMAIN r : r[i].type # type => i \in DOMAIN q

\* send_ack_items() appends acks and nothing else.
LEMMA AckMessagesProps ==
  ASSUME Types
  PROVE  /\ to_backfiller \o AckMessages(session) \in Seq(ToBackfiller)
         /\ MoreOf(to_backfiller, to_backfiller \o AckMessages(session), "ack_items")
<1>1. to_backfiller \in Seq(ToBackfiller)
  BY Zenon DEF Types
<1>2. CASE session.unacked = session.mem_size
  BY <1>1, <1>2 DEF MoreOf, AckMessages
<1>3. CASE session.unacked # session.mem_size
  BY SessionTypes, <1>3, <1>1, AppendProps DEF ToBackfiller, AckMessages, MoreOf
<1> QED
  BY <1>2, <1>3, Zenon

\* What the invariant says of the queue does not depend on acks.
LEMMA MoreAcks ==
  ASSUME NEW q, NEW r, MoreOf(q, r, "ack_items")
  PROVE  /\ Pending(r, "begin_session") <=> Pending(q, "begin_session")
         /\ Pending(r, "end_session") <=> Pending(q, "end_session")
         /\ \A i \in DOMAIN r : r[i].type \in {"pre_items", "begin_session", "end_session"} =>
                i \in DOMAIN q /\ r[i] = q[i]
         /\ \A i \in DOMAIN q : i \in DOMAIN r /\ r[i] = q[i]
BY Zenon DEF MoreOf, Pending

\* The sessions' protocol does not look at acks and pre-items.
LEMMA ProtocolSame ==
  ASSUME Protocol, client'.phase = client.phase, threshold' = threshold,
         session'.threshold = session.threshold, session'.items = session.items,
         session'.sent_end = session.sent_end, session'.got_ack = session.got_ack,
         session'.refused = session.refused, backfiller'.session = backfiller.session,
         to_backfillee' = to_backfillee, NEW d \in Nat,
         Pending(to_backfiller', "begin_session") <=> Pending(to_backfiller, "begin_session"),
         Pending(to_backfiller', "end_session") <=> Pending(to_backfiller, "end_session"),
         \A i \in DOMAIN to_backfiller' :
             to_backfiller'[i].type \in {"begin_session", "end_session"} =>
                 /\ i \in Nat /\ i + d \in DOMAIN to_backfiller
                 /\ to_backfiller'[i] = to_backfiller[i + d]
  PROVE  Protocol'
BY DEF Protocol

\* What the backfiller knows stays known while the pre-items on their way stay there.
LEMMA KnownStays ==
  ASSUME Known, log' = log, store' = store, pre'.sent = pre.sent,
         Backfilling' = Backfilling, threshold' = threshold, InFlight' = InFlight,
         backfiller'.common = backfiller.common, backfiller'.pre_items = backfiller.pre_items,
         \A i \in DOMAIN to_backfiller : to_backfiller[i].type = "pre_items" =>
             \E j \in DOMAIN to_backfiller' : to_backfiller'[j] = to_backfiller[i]
  PROVE  Known'
<1>1. \A k, v : Content(k, v)' = Content(k, v)
  BY ContentSame, Zenon
<1> SUFFICES ASSUME Backfilling, NEW k \in threshold + 1 .. pre.sent
             PROVE  \/ \E x \in InFlight : x.key = k
                    \/ store[k] = Content(k, backfiller.common[k])
                    \/ k \in backfiller.pre_items
                    \/ \E i \in DOMAIN to_backfiller' :
                           /\ to_backfiller'[i].type = "pre_items"
                           /\ to_backfiller'[i].key = k /\ to_backfiller'[i].has
  BY <1>1 DEF Known
<1>2. \/ \E x \in InFlight : x.key = k
      \/ store[k] = Content(k, backfiller.common[k])
      \/ k \in backfiller.pre_items
      \/ \E i \in DOMAIN to_backfiller :
             /\ to_backfiller[i].type = "pre_items"
             /\ to_backfiller[i].key = k /\ to_backfiller[i].has
  BY Zenon DEF Known
<1> QED
  BY <1>2, Zenon

\* The chunks on their way stay true.
LEMMA ItemsTrueStays ==
  ASSUME ItemsTrue, InFlight' = InFlight, UNCHANGED <<log, pstore, store, meta>>,
         pre'.sent = pre.sent, backfiller'.common = backfiller.common,
         client'.start = client.start, client'.tracker = client.tracker,
         session'.refused = session.refused
  PROVE  ItemsTrue'
<1>1. /\ \A k, v : Content(k, v)' = Content(k, v)
      /\ log' = log /\ pstore' = pstore /\ store' = store /\ meta' = meta
  BY ContentSame, Zenon
<1>2. ASSUME NEW x \in InFlight'
      PROVE  /\ x.key <= pre'.sent /\ x.version = backfiller'.common[x.key]
             /\ client'.start <= x.version /\ meta'[x.key] <= x.version /\ x.version <= pstore'
             /\ ~ x.has => store'[x.key] = Content(x.key, x.version)'
             /\ ~ session'.refused => get_max_timestamp(client'.tracker) <= x.version
  BY <1>1, Zenon DEF ItemsTrue
<1>3. \A x, y \in InFlight' : x.key < y.key => x.version <= y.version
  BY Zenon DEF ItemsTrue
<1> QED
  BY <1>2, <1>3, Zenon DEF ItemsTrue

\* So does the order of the pre-items on their way.
LEMMA PreOrderStays ==
  ASSUME PreOrder, Backfilling, Backfilling', pre'.sent = pre.sent,
         backfiller'.pre_right = backfiller.pre_right,
         \A i \in DOMAIN to_backfiller' : to_backfiller'[i].type = "pre_items" =>
             i \in DOMAIN to_backfiller /\ to_backfiller'[i] = to_backfiller[i]
  PROVE  PreOrder'
<1>1. client'.phase \notin {"starting", "registered"}
  BY Zenon DEF Backfilling
<1>2. /\ backfiller.pre_right <= pre.sent
      /\ \A i \in DOMAIN to_backfiller : to_backfiller[i].type = "pre_items" =>
             to_backfiller[i].key \in backfiller.pre_right + 1 .. pre.sent
      /\ \A i, j \in DOMAIN to_backfiller :
             /\ i < j /\ to_backfiller[i].type = "pre_items"
             /\ to_backfiller[j].type = "pre_items"
             => to_backfiller[i].key < to_backfiller[j].key
  BY Zenon DEF PreOrder
<1> QED
  BY <1>1, <1>2, Zenon DEF PreOrder

------------------------------------------------------------------------------
(* The session on the secondary.                                              *)
\* ack_periodically().
LEMMA SendAckItemsStep ==
  ASSUME Inv, SendAckItems
  PROVE  Inv'
<1> USE DEF Inv
<1>1. /\ UNCHANGED <<log, pstore, remote, writes, client, pre, backfiller, to_backfillee,
                     tokens, store, meta>>
      /\ to_backfiller' = to_backfiller \o AckMessages(session)
      /\ session' = [session EXCEPT !.unacked = session.mem_size]
      /\ client.phase = "session"
  BY Zenon DEF SendAckItems, primary_vars, dispatch_vars, store_vars
<1>2. to_backfiller' \in Seq(ToBackfiller) /\ MoreOf(to_backfiller, to_backfiller', "ack_items")
  BY <1>1, AckMessagesProps, Zenon
<1>3. /\ session' \in Session /\ session'.threshold = session.threshold
      /\ session'.items = session.items /\ session'.sent_end = session.sent_end
      /\ session'.got_ack = session.got_ack /\ session'.refused = session.refused
  BY <1>1, Zenon DEF Types, Session
<1>4. UNCHANGED <<log, pstore, remote, writes, client, pre, backfiller, to_backfillee,
                  tokens, store, meta>> /\ client.phase = "session"
  BY <1>1, Zenon
<1>5. threshold' = threshold /\ InFlight' = InFlight /\ Reached' = Reached
  BY <1>3, <1>4 DEF threshold, InFlight, Reached
<1>8. Protocol'
  <2>1. /\ Pending(to_backfiller', "begin_session") <=> Pending(to_backfiller, "begin_session")
        /\ Pending(to_backfiller', "end_session") <=> Pending(to_backfiller, "end_session")
        /\ \A i \in DOMAIN to_backfiller' :
               to_backfiller'[i].type \in {"pre_items", "begin_session", "end_session"} =>
                   i \in DOMAIN to_backfiller /\ to_backfiller'[i] = to_backfiller[i]
    BY <1>2, MoreAcks, Zenon
  <2>3. \A i \in DOMAIN to_backfiller' :
            to_backfiller'[i].type \in {"begin_session", "end_session"} =>
                /\ i \in Nat /\ i + 0 \in DOMAIN to_backfiller
                /\ to_backfiller'[i] = to_backfiller[i + 0]
    BY <2>1 DEF Types
  <2> QED
    BY <1>3, <1>4, <1>5, <2>1, <2>3, ProtocolSame, Zenon
<1>9. Types'
  BY <1>2, <1>3, <1>4, Zenon DEF Types
<1>14. Bounded' /\ TokensInOrder' /\ Streamed' /\ Frontier'
  BY <1>4, <1>5, Zenon DEF Bounded, TokensInOrder, Streamed, Frontier
<1>10. True' /\ Untouched'
  BY <1>4, <1>5, ContentSame, Zenon DEF True, Untouched, Backfilling
<1>15. ItemsTrue'
  BY <1>3, <1>4, <1>5, ItemsTrueStays, Zenon
<1>11. Contiguous'
  BY <1>3, <1>4, <1>5, Zenon DEF Contiguous
<1>12. PreOrder'
  <2>1. Backfilling /\ Backfilling'
    BY <1>4, Zenon DEF Backfilling
  <2>2. \A i \in DOMAIN to_backfiller' : to_backfiller'[i].type = "pre_items" =>
            i \in DOMAIN to_backfiller /\ to_backfiller'[i] = to_backfiller[i]
    BY <1>2, MoreAcks, Zenon
  <2> QED
    BY <1>4, <2>1, <2>2, PreOrderStays, Zenon
<1>13. Known'
  <2>1. Backfilling' = Backfilling
    BY <1>4, Zenon DEF Backfilling
  <2>2. \A i \in DOMAIN to_backfiller :
            i \in DOMAIN to_backfiller' /\ to_backfiller'[i] = to_backfiller[i]
    BY <1>2, MoreAcks, Zenon
  <2> QED
    BY <1>4, <1>5, <2>1, <2>2, KnownStays, Zenon
<1> QED
  BY <1>8, <1>9, <1>10, <1>11, <1>12, <1>13, <1>14, <1>15

\* go() returns: nothing of the session is left on its way.
LEMMA SessionDoneStep ==
  ASSUME Inv, SessionDone
  PROVE  Inv'
<1> USE DEF Inv
<1>1. /\ UNCHANGED <<log, pstore, remote, writes, pre, backfiller, to_backfillee,
                     tokens, store, meta>>
      /\ to_backfiller' = to_backfiller \o AckMessages(session)
      /\ session' = NoSession
      /\ client' = [client EXCEPT !.phase =
             IF get_backfill_threshold(client.tracker) = NumKeys THEN "finishing" ELSE "paused"]
      /\ client.phase = "session" /\ session.got_ack /\ session.items = <<>>
  BY Zenon DEF SessionDone, primary_vars, dispatch_vars, store_vars
<1>2. to_backfiller' \in Seq(ToBackfiller) /\ MoreOf(to_backfiller, to_backfiller', "ack_items")
  BY <1>1, AckMessagesProps, Zenon
<1>3. /\ session' \in Session /\ session'.items = <<>> /\ session'.threshold = 0
      /\ ~ session'.sent_end /\ ~ session'.got_ack
      /\ Len(session'.items) = 0 /\ DOMAIN session'.items = {}
  BY <1>1, BoundsAssumption DEF NoSession, Session
<1>4. UNCHANGED <<log, pstore, remote, writes, pre, backfiller, to_backfillee,
                  tokens, store, meta>> /\ client.phase = "session"
  BY <1>1, Zenon
<1>5. /\ client' \in Client
      /\ client'.phase = IF threshold = NumKeys THEN "finishing" ELSE "paused"
      /\ client'.tracker = client.tracker /\ client'.completed = client.completed
      /\ client'.subscribed = client.subscribed /\ client'.start = client.start
  BY <1>1, Zenon DEF Types, Client, Phases, threshold
<1>6. threshold' = threshold
  BY <1>5, Zenon DEF threshold
<1>7. /\ backfiller.session = None
      /\ ~ Pending(to_backfiller, "begin_session") /\ ~ Pending(to_backfiller, "end_session")
      /\ ~ Pending(to_backfillee, "items") /\ ~ Pending(to_backfillee, "ack_end_session")
  BY <1>1, Zenon DEF Protocol
<1>9. InFlight = {} /\ InFlight' = {}
  BY <1>1, <1>3, <1>7, Zenon DEF InFlight, Pending
<1>14. Frontier'
  BY <1>4, BoundsAssumption, ClientTypes, ThresholdBound, <1>5, <1>6 DEF Streamed,
     threshold, Frontier
<1>17. ItemsTrue'
  BY <1>9, Zenon DEF ItemsTrue
<1>10. Backfilling /\ Backfilling'
  BY <1>4, <1>5, Zenon DEF Backfilling
<1>11. /\ \A i \in DOMAIN to_backfiller' : to_backfiller'[i].type = "pre_items" =>
              i \in DOMAIN to_backfiller /\ to_backfiller'[i] = to_backfiller[i]
       /\ \A i \in DOMAIN to_backfiller :
              i \in DOMAIN to_backfiller' /\ to_backfiller'[i] = to_backfiller[i]
       /\ ~ Pending(to_backfiller', "begin_session") /\ ~ Pending(to_backfiller', "end_session")
  <2>1. \A i \in DOMAIN to_backfiller' : to_backfiller'[i].type = "pre_items" =>
            i \in DOMAIN to_backfiller /\ to_backfiller'[i] = to_backfiller[i]
    BY <1>2, MoreAcks, Zenon
  <2>2. \A i \in DOMAIN to_backfiller :
            i \in DOMAIN to_backfiller' /\ to_backfiller'[i] = to_backfiller[i]
    BY <1>2, MoreAcks, Zenon
  <2>3. ~ Pending(to_backfiller', "begin_session") /\ ~ Pending(to_backfiller', "end_session")
    BY <1>2, <1>7, MoreAcks, Zenon
  <2> QED
    BY <2>1, <2>2, <2>3, Zenon
<1>12. Types'
  BY <1>2, <1>3, <1>4, <1>5, Zenon DEF Types
<1>13. Bounded' /\ TokensInOrder' /\ True'
  BY <1>4, <1>5, ContentSame, Zenon DEF Bounded, TokensInOrder, True
<1>15. Streamed'
  BY <1>4, <1>5, <1>6, Zenon DEF Streamed
<1>16. Protocol'
  <2>1. /\ \A i \in DOMAIN to_backfiller' : to_backfiller'[i].type \notin {"begin_session", "end_session"}
        /\ \A i \in DOMAIN to_backfillee' : to_backfillee'[i].type \notin {"items", "ack_end_session"}
    BY <1>4, <1>7, <1>11, Zenon DEF Pending
  <2>2. /\ ~ Pending(to_backfillee', "items") /\ ~ Pending(to_backfillee', "ack_end_session")
        /\ backfiller'.session = None /\ client'.phase # "session"
    BY <1>4, <1>5, <1>7, Zenon
  <2> QED
    BY <1>3, <1>11, <2>1, <2>2, Zenon DEF Protocol
<1>18. PreOrder'
  BY <1>4, <1>10, <1>11, PreOrderStays, Zenon
<1>19. Untouched'
  BY <1>4, <1>5, <1>6, Zenon DEF Untouched, Backfilling
<1>20. Known'
  <2>1. Backfilling' = Backfilling
    BY <1>10
  <2> QED
    BY <1>4, <1>6, <1>9, <1>11, <2>1, KnownStays, Zenon
<1>21. Contiguous'
  BY <1>3, <1>4, <1>7, BoundsAssumption DEF Contiguous, Reached, Pending
<1> QED
  BY <1>12, <1>13, <1>14, <1>15, <1>16, <1>17, <1>18, <1>19, <1>20, <1>21, Zenon

\* run() ends a session that has reached the end of the range.
LEMMA ReachEndStep ==
  ASSUME Inv, ReachEnd
  PROVE  Inv'
<1> USE DEF Inv
<1> DEFINE q == to_backfiller \o AckMessages(session)
<1>1. /\ UNCHANGED <<log, pstore, remote, writes, client, pre, backfiller, to_backfillee,
                     tokens, store, meta>>
      /\ to_backfiller' = q \o EndMessages
      /\ session' = [session EXCEPT !.unacked = session.mem_size, !.sent_end = TRUE]
      /\ client.phase = "session" /\ session.threshold = NumKeys /\ ~ session.sent_end
  BY Zenon DEF ReachEnd, primary_vars, dispatch_vars, store_vars
<1>2. q \in Seq(ToBackfiller) /\ MoreOf(to_backfiller, q, "ack_items")
  BY AckMessagesProps, Zenon
<1>3. /\ session' \in Session /\ session'.threshold = NumKeys
      /\ session.threshold = NumKeys
      /\ session'.items = session.items /\ session'.sent_end
      /\ session'.got_ack = session.got_ack /\ session'.refused = session.refused
  BY <1>1, Zenon DEF Types, Session
<1>4. UNCHANGED <<log, pstore, remote, writes, client, pre, backfiller, to_backfillee,
                  tokens, store, meta>> /\ client.phase = "session"
  BY <1>1, Zenon
<1>5. threshold' = threshold /\ InFlight' = InFlight /\ Reached' = Reached
  BY <1>3, <1>4, Zenon DEF threshold, InFlight, Reached
<1>6. /\ ~ Pending(to_backfiller, "begin_session") /\ ~ Pending(to_backfiller, "end_session")
      /\ backfiller.session # None
  BY <1>1, BoundsAssumption DEF Protocol
<1>7. ~ Pending(q, "end_session") /\ ~ Pending(q, "begin_session")
  BY <1>2, <1>6, MoreAcks, Zenon
<1>8. /\ to_backfiller' \in Seq(ToBackfiller) /\ ~ Pending(to_backfiller', "begin_session")
      /\ \A i, j \in DOMAIN to_backfiller' :
             to_backfiller'[i].type = "end_session" /\ to_backfiller'[j].type = "end_session" => i = j
      /\ \A i \in DOMAIN to_backfiller' : to_backfiller'[i].type = "pre_items" =>
             i \in DOMAIN to_backfiller /\ to_backfiller'[i] = to_backfiller[i]
      /\ \A i \in DOMAIN to_backfiller :
             i \in DOMAIN to_backfiller' /\ to_backfiller'[i] = to_backfiller[i]
  <2> HIDE DEF q
  <2>1. /\ to_backfiller' \in Seq(ToBackfiller) /\ ~ Pending(to_backfiller', "begin_session")
        /\ \A i, j \in DOMAIN to_backfiller' :
               to_backfiller'[i].type = "end_session" /\ to_backfiller'[j].type = "end_session" => i = j
        /\ \A i \in DOMAIN to_backfiller' : to_backfiller'[i].type = "pre_items" =>
               i \in DOMAIN q /\ to_backfiller'[i] = q[i]
        /\ \A i \in DOMAIN q : i \in DOMAIN to_backfiller' /\ to_backfiller'[i] = q[i]
    BY <1>1, <1>2, <1>7, MoreEnd, Zenon
  <2> QED
    BY <2>1, <1>2, MoreAcks
<1>9. Types'
  BY <1>3, <1>4, <1>8, Zenon DEF Types
<1>10. Bounded' /\ True' /\ TokensInOrder' /\ Streamed' /\ Frontier'
  BY <1>4, <1>5, ContentSame, ZenonT(40) DEF Bounded, True, TokensInOrder, Streamed, Frontier
<1>11. Protocol'
  BY <1>3, <1>4, <1>5, <1>6, <1>8 DEF Protocol, Pending
<1>12. Contiguous'
  BY <1>3, <1>4, <1>5 DEF Contiguous
<1>13. ItemsTrue'
  BY <1>3, <1>4, <1>5, ItemsTrueStays, Zenon
<1>14. PreOrder'
  <2>1. Backfilling /\ Backfilling'
    BY <1>4, Zenon DEF Backfilling
  <2> QED
    BY <1>4, <1>8, <2>1, PreOrderStays, Zenon
<1>15. Untouched'
  BY <1>4, <1>5, Zenon DEF Untouched, Backfilling
<1>16. Known'
  <2>1. Backfilling' = Backfilling
    BY <1>4, Zenon DEF Backfilling
  <2> QED
    BY <1>4, <1>5, <1>8, <2>1, KnownStays, Zenon
<1> QED
  BY <1>9, <1>10, <1>11, <1>12, <1>13, <1>14, <1>15, <1>16, Zenon

\* go() begins a session where the tracker ends.
LEMMA GoStep ==
  ASSUME Inv, Go
  PROVE  Inv'
<1> USE DEF Inv
<1> DEFINE m == [type |-> "begin_session", threshold |-> threshold]
           n == Len(to_backfiller) + 1
<1>1. /\ UNCHANGED <<log, pstore, remote, writes, pre, backfiller, to_backfillee,
                     tokens, store, meta>>
      /\ client.phase = "synchronizing" /\ client.start <= pstore
      /\ client' = [client EXCEPT !.phase = "session"]
      /\ session' = [NoSession EXCEPT !.threshold = threshold]
      /\ to_backfiller' = Append(to_backfiller, m)
  BY ClientTypes, Zenon DEF Types, Go, Synchronized, threshold, primary_vars, dispatch_vars,
     store_vars
<1>2. UNCHANGED <<log, pstore, remote, writes, pre, backfiller, to_backfillee,
                  tokens, store, meta>> /\ client.phase = "synchronizing"
  BY <1>1, Zenon
<1>3. threshold \in 0 .. NumKeys /\ threshold < NumKeys /\ NumKeys \in Nat
  BY <1>2, BoundsAssumption, ClientTypes, ThresholdBound, Zenon DEF Streamed, threshold, Frontier
<1>4. m \in ToBackfiller /\ m.type = "begin_session" /\ m.threshold = threshold
  BY <1>3, Zenon DEF ToBackfiller
<1>5. /\ session' \in Session /\ session'.threshold = threshold /\ session'.items = <<>>
      /\ ~ session'.sent_end /\ ~ session'.got_ack /\ ~ session'.refused
      /\ Len(session'.items) = 0 /\ DOMAIN session'.items = {}
  <2>2. session' = [threshold |-> threshold, items |-> <<>>, mem_size |-> 0, unacked |-> 0,
                    sent_end |-> FALSE, got_ack |-> FALSE, refused |-> FALSE]
    BY <1>1, Zenon DEF NoSession
  <2> QED
    BY <1>3, <2>2 DEF Session
<1>6. /\ client' \in Client /\ client'.phase = "session"
      /\ client'.tracker = client.tracker /\ client'.completed = client.completed
      /\ client'.subscribed = client.subscribed /\ client'.start = client.start
  BY <1>1, Zenon DEF Types, Client, Phases
<1>7. threshold' = threshold
  BY <1>6, Zenon DEF threshold
<1> HIDE DEF m
<1>8. /\ to_backfiller' \in Seq(ToBackfiller)
      /\ DOMAIN to_backfiller' = DOMAIN to_backfiller \cup {n} /\ to_backfiller'[n] = m
      /\ \A i \in DOMAIN to_backfiller : to_backfiller'[i] = to_backfiller[i]
  BY <1>1, <1>4, AppendProps DEF Types
<1> HIDE DEF n
<1>9. /\ backfiller.session = None
      /\ ~ Pending(to_backfiller, "begin_session") /\ ~ Pending(to_backfiller, "end_session")
      /\ ~ Pending(to_backfillee, "items") /\ ~ Pending(to_backfillee, "ack_end_session")
  BY <1>2, Zenon DEF Protocol
<1>10. /\ \A i \in DOMAIN to_backfiller' : to_backfiller'[i].type = "pre_items" =>
              i \in DOMAIN to_backfiller /\ to_backfiller'[i] = to_backfiller[i]
       /\ \A i \in DOMAIN to_backfiller :
              i \in DOMAIN to_backfiller' /\ to_backfiller'[i] = to_backfiller[i]
       /\ \A i \in DOMAIN to_backfiller' : to_backfiller'[i].type = "begin_session" =>
              i = n /\ to_backfiller'[i].threshold = threshold
       /\ ~ Pending(to_backfiller', "end_session") /\ Pending(to_backfiller', "begin_session")
  BY <1>4, <1>8, <1>9, Zenon DEF Pending
<1>11. InFlight' = {} /\ InFlight = {}
  BY <1>2, <1>5, <1>9, NoneInFlight, Zenon DEF InFlight, Pending
<1>12. Types'
  BY <1>2, <1>5, <1>6, <1>8, Zenon DEF Types
<1>13. Bounded' /\ TokensInOrder'
  BY <1>2, <1>6, Zenon DEF Bounded, TokensInOrder
<1>14. True'
  BY <1>2, ContentSame, Zenon DEF True
<1>15. Streamed'
  BY <1>2, <1>6, <1>7, Zenon DEF Streamed
<1>16. Frontier'
  <2>1. /\ client.subscribed \in Nat /\ client.start \in Nat /\ pstore \in Nat
        /\ get_max_timestamp(client.tracker) \in Nat
    BY ClientTypes, Zenon DEF Types
  <2>2. /\ client.subscribed <= client.completed /\ client.subscribed <= client.start
        /\ \/ get_max_timestamp(client.tracker) <= pstore
           \/ get_max_timestamp(client.tracker) <= client.start
    BY <1>2, Zenon DEF Frontier
  <2>3. client.start <= pstore
    BY <1>1, Zenon
  <2>4. get_max_timestamp(client.tracker) <= pstore
    BY <2>1, <2>2, <2>3
  <2> QED
    BY <1>2, <1>6, <1>7, <2>2, <2>3, <2>4, Zenon DEF Frontier
<1>17. Protocol'
  <2>1. /\ \A i \in DOMAIN to_backfiller' : to_backfiller'[i].type # "end_session"
        /\ \A i \in DOMAIN to_backfillee' : to_backfillee'[i].type # "ack_end_session"
    BY <1>2, <1>9, <1>10, Zenon DEF Pending
  <2>2. threshold <= threshold
    BY <1>3
  <2>3. ~ Pending(to_backfillee', "items") /\ ~ Pending(to_backfillee', "ack_end_session")
        /\ backfiller'.session = None
    BY <1>2, <1>9, Zenon
  <2> QED
    BY <1>3, <1>5, <1>6, <1>7, <1>10, <2>1, <2>2, <2>3, Zenon DEF Protocol
<1>18. Contiguous'
  BY <1>2, <1>3, <1>5, <1>9 DEF Contiguous, Reached, Pending
<1>19. ItemsTrue'
  BY <1>11, Zenon DEF ItemsTrue
<1>20. PreOrder'
  <2>1. Backfilling /\ Backfilling'
    BY <1>2, <1>6, Zenon DEF Backfilling
  <2> QED
    BY <1>2, <1>10, <2>1, PreOrderStays, Zenon
<1>21. Untouched'
  BY <1>2, <1>6, <1>7, Zenon DEF Untouched, Backfilling
<1>22. Known'
  <2>1. Backfilling' = Backfilling
    BY <1>2, <1>6 DEF Backfilling
  <2> QED
    BY <1>2, <1>7, <1>10, <1>11, <2>1, KnownStays, Zenon
<1> QED
  BY <1>12, <1>13, <1>14, <1>15, <1>16, <1>17, <1>18, <1>19, <1>20, <1>21, <1>22

\* The pre-items of the next key say whether the secondary's data is not that
\* of the common version.
LEMMA SendPreItemsStep ==
  ASSUME Inv, SendPreItems
  PROVE  Inv'
<1> USE DEF Inv
<1> DEFINE k == pre.sent + 1
           has == Diverges(k)
           m == [type |-> "pre_items", key |-> k, has |-> has]
           n == Len(to_backfiller) + 1
<1>1. /\ UNCHANGED <<log, pstore, remote, writes, client, session, backfiller, to_backfillee,
                     tokens, store, meta>>
      /\ Backfilling /\ pre.sent < NumKeys
      /\ pre' = [pre EXCEPT !.sent = k, !.unacked = @ + Size(has)]
      /\ to_backfiller' = Append(to_backfiller, m)
  BY Zenon DEF SendPreItems, primary_vars, dispatch_vars, store_vars
<1>2. UNCHANGED <<log, pstore, remote, writes, client, session, backfiller, to_backfillee,
                  tokens, store, meta>> /\ Backfilling
  BY <1>1, Zenon
<1>3. k \in Keys /\ k \in 0 .. NumKeys /\ pre.sent \in Nat /\ pre.unacked + Size(has) \in Int
  BY <1>1, PreTypes, BoundsAssumption DEF Keys, Size
<1>4. has \in BOOLEAN
  BY Zenon DEF Diverges
<1> HIDE DEF has
<1>5. m \in ToBackfiller /\ m.type = "pre_items" /\ m.key = k /\ m.has = has
  BY <1>3, <1>4, Zenon DEF ToBackfiller
<1>6. pre' \in Pre /\ pre'.sent = k /\ pre'.common = pre.common
  BY <1>1, <1>3, Zenon DEF Types, Pre
<1> HIDE DEF m
<1>7. /\ to_backfiller' \in Seq(ToBackfiller)
      /\ DOMAIN to_backfiller' = DOMAIN to_backfiller \cup {n} /\ to_backfiller'[n] = m
      /\ \A i \in DOMAIN to_backfiller : to_backfiller'[i] = to_backfiller[i] /\ i < n /\ i \in Nat
      /\ n \in Nat
  BY <1>1, <1>5, AppendProps DEF Types
<1> HIDE DEF n
<1>8. /\ \A i \in DOMAIN to_backfiller :
             i \in DOMAIN to_backfiller' /\ to_backfiller'[i] = to_backfiller[i]
      /\ \A i \in DOMAIN to_backfiller' :
             to_backfiller'[i].type \in {"begin_session", "end_session"} =>
                 i \in DOMAIN to_backfiller /\ to_backfiller'[i] = to_backfiller[i]
  BY <1>5, <1>7, Zenon
<1>9. threshold' = threshold /\ InFlight' = InFlight /\ Reached' = Reached
  BY <1>2, Zenon DEF threshold, InFlight, Reached
<1>11. Bounded' /\ True' /\ TokensInOrder' /\ Streamed' /\ Frontier' /\ Contiguous'
  <2>1. Bounded' /\ True' /\ TokensInOrder'
    BY <1>2, <1>9, ContentSame, Zenon DEF Bounded, True, TokensInOrder
  <2>2. Streamed' /\ Frontier'
    BY <1>2, <1>9, Zenon DEF Streamed, Frontier
  <2>3. Contiguous'
    BY <1>2, <1>9, Zenon DEF Contiguous
  <2> QED
    BY <2>1, <2>2, <2>3, Zenon
<1>12. Protocol'
  <2>1. /\ Pending(to_backfiller', "begin_session") <=> Pending(to_backfiller, "begin_session")
        /\ Pending(to_backfiller', "end_session") <=> Pending(to_backfiller, "end_session")
    BY <1>8, Zenon DEF Pending
  <2>2. \A i \in DOMAIN to_backfiller' :
            to_backfiller'[i].type \in {"begin_session", "end_session"} =>
                /\ i \in Nat /\ i + 0 \in DOMAIN to_backfiller
                /\ to_backfiller'[i] = to_backfiller[i + 0]
    BY <1>7, <1>8
  <2> QED
    BY <1>2, <1>9, <2>1, <2>2, ProtocolSame, Zenon
<1>13. ItemsTrue'
  BY InFlightTypes, <1>3, <1>6, <1>2, <1>9, ContentSame DEF ItemsTrue, Keys
<1>14. PreOrder'
  <2>1. /\ backfiller.pre_right \in Nat /\ backfiller.pre_right <= pre.sent
        /\ \A i \in DOMAIN to_backfiller : to_backfiller[i].type = "pre_items" =>
               to_backfiller[i].key \in backfiller.pre_right + 1 .. pre.sent
    BY <1>2, PreTypes DEF PreOrder
  <2>2. backfiller.pre_right <= k
    BY <1>3, <2>1
  <2>3. \A i \in DOMAIN to_backfiller' : to_backfiller'[i].type = "pre_items" =>
            to_backfiller'[i].key \in backfiller.pre_right + 1 .. k
    BY <1>3, <1>5, <1>7, <2>1
  <2>4. ASSUME NEW i \in DOMAIN to_backfiller', NEW j \in DOMAIN to_backfiller', i < j,
               to_backfiller'[i].type = "pre_items", to_backfiller'[j].type = "pre_items"
        PROVE  to_backfiller'[i].key < to_backfiller'[j].key
    BY <1>7, <2>4, <1>5, <2>1, <1>3, <1>2 DEF PreOrder
  <2>5. client.phase \notin {"starting", "registered"}
    BY <1>2, Zenon DEF Backfilling
  <2> QED
    BY <1>2, <1>6, <2>2, <2>3, <2>4, <2>5, Zenon DEF PreOrder
<1>15. Untouched'
  BY <1>2, <1>3, <1>6, ClientTypes, <1>9 DEF Backfilling, Untouched
<1>16. Known'
  <2>1. ~ has => store[k] = Content(k, backfiller.common[k])
    <3> SUFFICES ASSUME ~ has PROVE store[k] = Content(k, backfiller.common[k])
      BY Zenon
    <3>1. \A t \in store[k] : t # Old /\ ~ (t > pre.common[k])
      BY Zenon DEF has, Diverges
    <3>2. /\ k \in pre.sent + 1 .. NumKeys /\ pre.common[k] = backfiller.common[k]
          /\ IF meta[k] = Old THEN pre.common[k] = 0 ELSE pre.common[k] <= meta[k]
      BY <1>1, <1>3, BoundsAssumption DEF Untouched
    <3>3. pre.common[k] \in Nat /\ meta[k] \in {Old} \cup Nat
      BY <1>3, PreTypes, Zenon DEF Types
    <3> HIDE DEF k
    <3>4. CASE meta[k] = Old
      BY <3>1, <1>3, <3>4, <3>2 DEF True, Content
    <3>5. CASE meta[k] # Old
      BY <1>3, <3>2, <3>3, <3>5, <3>1 DEF True, Content
    <3> QED
      BY <3>4, <3>5, Zenon
  <2>2. has => \E i \in DOMAIN to_backfiller' :
                   /\ to_backfiller'[i].type = "pre_items"
                   /\ to_backfiller'[i].key = k /\ to_backfiller'[i].has
    BY <1>5, <1>7, Zenon
  <2>3. \A l \in threshold + 1 .. pre'.sent : l \in threshold + 1 .. pre.sent \/ l = k
    BY <1>3, <1>6, ClientTypes
  <2>5. store[k] = Content(k, backfiller.common[k])
           \/ \E i \in DOMAIN to_backfiller' :
                   /\ to_backfiller'[i].type = "pre_items"
                   /\ to_backfiller'[i].key = k /\ to_backfiller'[i].has
    BY <1>4, <2>1, <2>2, Zenon
  <2> HIDE DEF k
  <2> QED
    BY <1>2, <1>9, <2>3, <1>8, <2>5, ContentSame DEF Known
<1> QED
  BY <1>2, <1>6, <1>7, <1>11, <1>12, <1>13, <1>14, <1>15, <1>16, Zenon DEF Types

------------------------------------------------------------------------------
(* The handlers of the backfiller.                                            *)
\* on_ack_items().
LEMMA OnAckItemsStep ==
  ASSUME Inv, OnBackfilleeMessage, Head(to_backfiller).type = "ack_items"
  PROVE  Inv' /\ InFlight' = InFlight
<1> USE DEF Inv
<1> DEFINE m == Head(to_backfiller)
<1>1. /\ UNCHANGED <<log, pstore, remote, writes, client, session, pre, tokens, store, meta>>
      /\ to_backfiller # <<>> /\ to_backfiller' = Tail(to_backfiller)
      /\ to_backfillee' = to_backfillee
      /\ backfiller' = [backfiller EXCEPT !.unacked = @ - m.size]
  BY DEF Types, OnBackfilleeMessage, primary_vars, dispatch_vars, store_vars
<1>2. /\ to_backfiller' \in Seq(ToBackfiller) /\ m \in ToBackfiller
      /\ \A i \in DOMAIN to_backfiller' :
             i \in Nat /\ i + 1 \in DOMAIN to_backfiller /\ to_backfiller'[i] = to_backfiller[i + 1]
      /\ \A i \in DOMAIN to_backfiller : to_backfiller[i].type # "ack_items" =>
             i - 1 \in DOMAIN to_backfiller' /\ to_backfiller'[i - 1] = to_backfiller[i]
      /\ \A i \in DOMAIN to_backfiller : i \in Nat
  BY <1>1, TailProps DEF Types
<1>4. /\ backfiller' \in Backfiller /\ backfiller'.common = backfiller.common
      /\ backfiller'.pre_items = backfiller.pre_items /\ backfiller'.session = backfiller.session
      /\ backfiller'.pre_right = backfiller.pre_right
  <2>1. m.size \in Int
    BY <1>2, ToBackfillerTypes, Zenon
  <2> HIDE DEF m
  <2>2. backfiller \in Backfiller /\ backfiller.unacked - m.size \in Int
    BY <2>1, PreTypes DEF Types
  <2> QED
    BY <1>1, <2>2, Zenon DEF Backfiller
<1>5. /\ UNCHANGED <<log, pstore, remote, writes, client, session, pre, tokens, store, meta>>
      /\ to_backfillee' = to_backfillee
  BY <1>1, Zenon
<1>6. threshold' = threshold /\ InFlight' = InFlight /\ Reached' = Reached
  BY <1>5, Zenon DEF threshold, InFlight, Reached
<1>7. Types'
  BY <1>2, <1>4, <1>5, Zenon DEF Types
<1>8. Bounded' /\ True' /\ TokensInOrder' /\ Streamed' /\ Frontier'
  BY <1>5, <1>6, ContentSame, Zenon DEF Bounded, True, TokensInOrder, Streamed, Frontier
<1>9. Protocol'
  BY <1>2, <1>1, Rest, <1>4, <1>5, <1>6, ProtocolSame, Zenon DEF Types
<1>10. Contiguous'
  BY <1>4, <1>5, <1>6, Zenon DEF Contiguous
<1>11. ItemsTrue'
  BY <1>4, <1>5, <1>6, ItemsTrueStays, Zenon
<1>12. PreOrder'
  <2>1. client.phase \notin {"starting", "registered"}
    BY <1>1, Zenon DEF PreOrder
  <2> QED
    BY <1>2, <1>4, <1>5, <2>1 DEF PreOrder, Backfilling
<1>13. Untouched'
  BY <1>4, <1>5, <1>6, Zenon DEF Untouched, Backfilling
<1>14. Known'
  <2>1. \A i \in DOMAIN to_backfiller : to_backfiller[i].type = "pre_items" =>
            \E j \in DOMAIN to_backfiller' : to_backfiller'[j] = to_backfiller[i]
    BY <1>2, Zenon
  <2>2. Backfilling' = Backfilling
    BY <1>5, Zenon DEF Backfilling
  <2> QED
    BY <1>4, <1>5, <1>6, <2>1, <2>2, KnownStays, Zenon
<1> QED
  BY <1>7, <1>8, <1>9, <1>10, <1>11, <1>12, <1>13, <1>14, <1>6, Zenon

\* What the pre-items say is not lost when they come.
LEMMA OnPreItemsStep ==
  ASSUME Inv, OnBackfilleeMessage, Head(to_backfiller).type = "pre_items"
  PROVE  Inv' /\ InFlight' = InFlight
<1> USE DEF Inv
<1> DEFINE m == Head(to_backfiller)
<1>1. /\ UNCHANGED <<log, pstore, remote, writes, client, session, pre, tokens, store, meta>>
      /\ to_backfiller # <<>> /\ to_backfiller' = Tail(to_backfiller)
      /\ to_backfillee' = to_backfillee
      /\ backfiller' = [backfiller EXCEPT !.pre_right = m.key,
                            !.pre_items = @ \cup IF m.has THEN {m.key} ELSE {}]
  BY DEF Types, OnBackfilleeMessage, primary_vars, dispatch_vars, store_vars
<1>2. /\ to_backfiller' \in Seq(ToBackfiller) /\ m \in ToBackfiller
      /\ \A i \in DOMAIN to_backfiller' :
             i \in Nat /\ i + 1 \in DOMAIN to_backfiller /\ to_backfiller'[i] = to_backfiller[i + 1]
      /\ \A i \in DOMAIN to_backfiller : i # 1 =>
             i - 1 \in DOMAIN to_backfiller' /\ to_backfiller'[i - 1] = to_backfiller[i]
      /\ \A i \in DOMAIN to_backfiller : i \in Nat
      /\ 1 \in DOMAIN to_backfiller /\ to_backfiller[1] = m
  BY <1>1, TailProps DEF Types
<1>3. /\ Pending(to_backfiller', "begin_session") <=> Pending(to_backfiller, "begin_session")
      /\ Pending(to_backfiller', "end_session") <=> Pending(to_backfiller, "end_session")
  BY <1>1, Rest, Zenon DEF Types
<1>4. m.key \in Keys /\ m.has \in BOOLEAN /\ m.type = "pre_items" /\ m.key \in 0 .. NumKeys
  BY <1>2, ToBackfillerTypes DEF Keys
<1> HIDE DEF m
<1>5. /\ backfiller' \in Backfiller /\ backfiller'.common = backfiller.common
      /\ backfiller'.pre_items = backfiller.pre_items \cup IF m.has THEN {m.key} ELSE {}
      /\ backfiller'.session = backfiller.session
      /\ backfiller'.pre_right = m.key
  BY <1>1, <1>4, Zenon DEF Types, Backfiller
<1>6. /\ UNCHANGED <<log, pstore, remote, writes, client, session, pre, tokens, store, meta>>
      /\ to_backfillee' = to_backfillee
  BY <1>1, Zenon
<1>7. threshold' = threshold /\ InFlight' = InFlight /\ Reached' = Reached
  BY <1>6, Zenon DEF threshold, InFlight, Reached
<1>8. Types'
  BY <1>2, <1>5, <1>6, Zenon DEF Types
<1>9. Bounded' /\ True' /\ TokensInOrder' /\ Streamed' /\ Frontier'
  BY <1>6, <1>7, ContentSame, Zenon DEF Bounded, True, TokensInOrder, Streamed, Frontier
<1>10. Protocol'
  BY <1>2, <1>3, <1>5, <1>6, <1>7, ProtocolSame, Zenon
<1>11. Contiguous'
  BY <1>5, <1>6, <1>7, Zenon DEF Contiguous
<1>12. ItemsTrue'
  BY <1>5, <1>6, <1>7, ItemsTrueStays, Zenon
<1>13. PreOrder'
  <2> SUFFICES ASSUME Backfilling
               PROVE  /\ m.key <= pre.sent
                      /\ \A i \in DOMAIN to_backfiller' : to_backfiller'[i].type = "pre_items" =>
                             to_backfiller'[i].key \in m.key + 1 .. pre.sent
                      /\ \A i, j \in DOMAIN to_backfiller' :
                             /\ i < j /\ to_backfiller'[i].type = "pre_items"
                             /\ to_backfiller'[j].type = "pre_items"
                             => to_backfiller'[i].key < to_backfiller'[j].key
    BY <1>5, <1>6, <1>1, Zenon DEF PreOrder, Backfilling
  <2>2. /\ \A i \in DOMAIN to_backfiller : to_backfiller[i].type = "pre_items" =>
               to_backfiller[i].key \in backfiller.pre_right + 1 .. pre.sent
        /\ \A i, j \in DOMAIN to_backfiller :
               /\ i < j /\ to_backfiller[i].type = "pre_items"
               /\ to_backfiller[j].type = "pre_items"
               => to_backfiller[i].key < to_backfiller[j].key
    BY Zenon DEF PreOrder
  <2>3. m.key <= pre.sent /\ m.key \in Nat /\ pre.sent \in Nat
    BY <1>2, <1>4, <2>2, PreTypes
  <2>4. ASSUME NEW i \in DOMAIN to_backfiller', to_backfiller'[i].type = "pre_items"
        PROVE  to_backfiller'[i].key \in m.key + 1 .. pre.sent
    <3>1. /\ i + 1 \in DOMAIN to_backfiller /\ to_backfiller'[i] = to_backfiller[i + 1]
          /\ 1 < i + 1
      BY <1>2, <2>4
    <3>2. m.key < to_backfiller[i + 1].key
      BY <1>2, <1>4, <2>2, <2>4, <3>1, Zenon
    <3> QED
      BY <2>3, <3>1, <3>2, <2>2, <2>4, PreTypes
  <2>5. \A i, j \in DOMAIN to_backfiller' :
            /\ i < j /\ to_backfiller'[i].type = "pre_items"
            /\ to_backfiller'[j].type = "pre_items"
            => to_backfiller'[i].key < to_backfiller'[j].key
    BY <1>2, <2>2
  <2> QED
    BY <2>3, <2>4, <2>5, Zenon
<1>14. Untouched'
  BY <1>5, <1>6, <1>7, Zenon DEF Untouched, Backfilling
<1>15. Known'
  <2>1. backfiller.pre_items \subseteq backfiller'.pre_items
    BY <1>5, Zenon
  <2>2. \A k, i : /\ i \in DOMAIN to_backfiller /\ to_backfiller[i].type = "pre_items"
                  /\ to_backfiller[i].key = k /\ to_backfiller[i].has
                  => \/ k \in backfiller'.pre_items
                     \/ \E j \in DOMAIN to_backfiller' :
                            /\ to_backfiller'[j].type = "pre_items"
                            /\ to_backfiller'[j].key = k /\ to_backfiller'[j].has
    <3> TAKE k, i
    <3> HAVE /\ i \in DOMAIN to_backfiller /\ to_backfiller[i].type = "pre_items"
             /\ to_backfiller[i].key = k /\ to_backfiller[i].has
    <3>1. CASE i = 1
      BY <1>2, <1>5, <3>1, Zenon
    <3>2. CASE i # 1
      BY <1>2, <3>2
    <3> QED
      BY <3>1, <3>2, Zenon
  <2> QED
    BY <1>5, <1>6, <1>7, <2>1, <2>2, ContentSame DEF Known, Backfilling
<1> QED
  BY <1>8, <1>9, <1>10, <1>11, <1>12, <1>13, <1>14, <1>15, <1>7, Zenon

\* on_begin_session() finds no session.
LEMMA OnBeginSessionStep ==
  ASSUME Inv, OnBackfilleeMessage, Head(to_backfiller).type = "begin_session"
  PROVE  Inv' /\ InFlight' = InFlight
<1> USE DEF Inv
<1> DEFINE m == Head(to_backfiller)
<1>1. /\ UNCHANGED <<log, pstore, remote, writes, client, session, pre, tokens, store, meta>>
      /\ to_backfiller # <<>> /\ to_backfiller' = Tail(to_backfiller)
      /\ to_backfillee' = to_backfillee
      /\ backfiller' = [backfiller EXCEPT !.session = m.threshold]
  BY DEF Types, OnBackfilleeMessage, primary_vars, dispatch_vars, store_vars
<1>2. /\ to_backfiller' \in Seq(ToBackfiller) /\ m \in ToBackfiller
      /\ \A i \in DOMAIN to_backfiller' :
             i \in Nat /\ i + 1 \in DOMAIN to_backfiller /\ to_backfiller'[i] = to_backfiller[i + 1]
      /\ \A i \in DOMAIN to_backfiller : i # 1 =>
             i - 1 \in DOMAIN to_backfiller' /\ to_backfiller'[i - 1] = to_backfiller[i]
      /\ \A i \in DOMAIN to_backfiller : i \in Nat
      /\ 1 \in DOMAIN to_backfiller /\ to_backfiller[1] = m
  BY <1>1, TailProps DEF Types
<1>4. m.type = "begin_session" /\ m.threshold \in 0 .. NumKeys /\ m.threshold = session.threshold
  <2>1. m.type = "begin_session" /\ m.threshold \in 0 .. NumKeys
    BY <1>2, ToBackfillerTypes, Zenon
  <2>2. m.threshold = session.threshold
    BY <1>2, <2>1, ZenonT(40) DEF Protocol
  <2> QED
    BY <2>1, <2>2, ZenonT(40)
<1>5. ~ Pending(to_backfiller', "begin_session")
  BY <1>2, <1>4 DEF Pending, Protocol
<1> HIDE DEF m
<1>6. /\ backfiller' \in Backfiller /\ backfiller'.common = backfiller.common
      /\ backfiller'.pre_items = backfiller.pre_items /\ backfiller'.session = session.threshold
      /\ backfiller'.pre_right = backfiller.pre_right
  BY <1>1, <1>4, Zenon DEF Types, Backfiller
<1>7. /\ UNCHANGED <<log, pstore, remote, writes, client, session, pre, tokens, store, meta>>
      /\ to_backfillee' = to_backfillee
  BY <1>1, Zenon
<1>8. threshold' = threshold /\ InFlight' = InFlight /\ Reached' = Reached
  BY <1>7, Zenon DEF threshold, InFlight, Reached
<1>9. /\ session.items = <<>> /\ session.threshold < NumKeys /\ ~ session.sent_end
      /\ ~ session.got_ack /\ client.phase = "session"
      /\ ~ Pending(to_backfiller', "end_session")
      /\ ~ Pending(to_backfillee, "items") /\ ~ Pending(to_backfillee, "ack_end_session")
  BY <1>1, Rest, Zenon DEF Protocol, Types
<1>10. /\ backfiller'.session # None
       /\ \A i \in DOMAIN to_backfiller' :
              to_backfiller'[i].type \notin {"begin_session", "end_session"}
  BY <1>4, <1>5, <1>6, <1>9, BoundsAssumption DEF None, Pending
<1>11. Types'
  BY <1>2, <1>6, <1>7, Zenon DEF Types
<1>12. Bounded' /\ True' /\ TokensInOrder' /\ Streamed' /\ Frontier'
  BY <1>7, <1>8, ContentSame, Zenon DEF Bounded, True, TokensInOrder, Streamed, Frontier
<1>13. Protocol'
  BY <1>5, <1>7, <1>8, <1>9, <1>10, ZenonT(40) DEF Protocol
<1>14. Contiguous'
  <2>1. Reached = session.threshold /\ Reached \in Nat
    BY <1>9, SessionTypes DEF Reached
  <2>2. \A i \in DOMAIN to_backfillee' : to_backfillee'[i].type # "items"
    BY <1>7, <1>9, ZenonT(40) DEF Pending
  <2>3. \A i \in DOMAIN session'.items : session'.items[i].key = session'.threshold + i
    BY <1>7, Zenon DEF Contiguous
  <2>4. /\ Reached' <= NumKeys /\ Reached' <= backfiller'.session
        /\ ~ (backfiller'.session > Reached')
    BY <1>6, <1>8, <1>9, <2>1, SessionTypes, BoundsAssumption
  <2> QED
    BY <2>2, <2>3, <2>4, Zenon DEF Contiguous
<1>15. ItemsTrue'
  BY <1>6, <1>7, <1>8, ContentSame, ZenonT(40) DEF ItemsTrue
<1>16. PreOrder'
  BY <1>9, <1>2, <1>6, <1>7 DEF PreOrder, Backfilling
<1>17. Untouched'
  BY <1>6, <1>7, <1>8, Zenon DEF Untouched, Backfilling
<1>18. Known'
  BY <1>2, <1>4, <1>7, <1>6, <1>8, KnownStays, Zenon DEF Backfilling
<1> QED
  BY <1>11, <1>12, <1>13, <1>14, <1>15, <1>16, <1>17, <1>18, <1>8, Zenon

\* on_end_session() finds the session that it ends.
LEMMA OnEndSessionStep ==
  ASSUME Inv, OnBackfilleeMessage, Head(to_backfiller).type = "end_session"
  PROVE  Inv' /\ InFlight' = InFlight
<1> USE DEF Inv
<1> DEFINE m == Head(to_backfiller)
           ack == [type |-> "ack_end_session"]
           n == Len(to_backfillee) + 1
<1>1. /\ UNCHANGED <<log, pstore, remote, writes, client, session, pre, tokens, store, meta>>
      /\ to_backfiller # <<>> /\ to_backfiller' = Tail(to_backfiller)
      /\ to_backfillee' = to_backfillee \o <<ack>>
      /\ backfiller' = [backfiller EXCEPT !.session = None]
  BY Zenon DEF OnBackfilleeMessage, primary_vars, dispatch_vars, store_vars
<1>2. /\ to_backfiller' \in Seq(ToBackfiller) /\ m \in ToBackfiller
      /\ \A i \in DOMAIN to_backfiller' :
             i \in Nat /\ i + 1 \in DOMAIN to_backfiller /\ to_backfiller'[i] = to_backfiller[i + 1]
      /\ \A i \in DOMAIN to_backfiller : i # 1 =>
             i - 1 \in DOMAIN to_backfiller' /\ to_backfiller'[i - 1] = to_backfiller[i]
      /\ \A i \in DOMAIN to_backfiller : i \in Nat
      /\ 1 \in DOMAIN to_backfiller /\ to_backfiller[1] = m /\ m.type = "end_session"
  BY <1>1, TailProps DEF Types
<1>4. ~ Pending(to_backfiller', "end_session")
  <2> SUFFICES ASSUME NEW i \in DOMAIN to_backfiller', to_backfiller'[i].type = "end_session"
               PROVE  FALSE
    BY Zenon DEF Pending
  <2>1. i + 1 \in DOMAIN to_backfiller /\ to_backfiller[i + 1].type = "end_session" /\ i + 1 # 1
    <3>1. i \in Nat /\ i >= 1
      BY <1>2
    <3> QED
      BY <1>2, <3>1
  <2> QED
    BY <1>2, <2>1, ZenonT(40) DEF Protocol
<1>5. ack \in ToBackfillee /\ ack.type = "ack_end_session"
  BY ZenonT(40) DEF ToBackfillee
<1> HIDE DEF m, ack
<1>6. /\ to_backfillee' \in Seq(ToBackfillee)
      /\ DOMAIN to_backfillee' = DOMAIN to_backfillee \cup {n} /\ to_backfillee'[n] = ack
      /\ \A i \in DOMAIN to_backfillee : to_backfillee'[i] = to_backfillee[i] /\ i < n /\ i \in Nat
      /\ n \in Nat
  BY <1>5, <1>1, AppendProps DEF Types
<1> HIDE DEF n
<1>7. /\ backfiller' \in Backfiller /\ backfiller'.common = backfiller.common
      /\ backfiller'.pre_items = backfiller.pre_items /\ backfiller'.session = None
      /\ backfiller'.pre_right = backfiller.pre_right
  BY <1>1, Zenon DEF Types, Backfiller
<1>8. UNCHANGED <<log, pstore, remote, writes, client, session, pre, tokens, store, meta>>
  BY <1>1, Zenon
<1>9. /\ client.phase = "session" /\ session.sent_end /\ backfiller.session # None
      /\ ~ session.got_ack
      /\ ~ Pending(to_backfiller, "begin_session")
      /\ ~ Pending(to_backfillee, "ack_end_session")
  BY <1>1, Rest, Zenon DEF Protocol, Types
<1>10. ~ Pending(to_backfiller', "begin_session")
  BY <1>1, <1>9, Rest, Zenon DEF Types
<1>11. /\ \A i \in DOMAIN to_backfillee' : to_backfillee'[i].type = "items" =>
              i \in DOMAIN to_backfillee /\ to_backfillee'[i] = to_backfillee[i]
       /\ \A i \in DOMAIN to_backfillee :
              i \in DOMAIN to_backfillee' /\ to_backfillee'[i] = to_backfillee[i]
       /\ \A i \in DOMAIN to_backfillee' : to_backfillee'[i].type = "ack_end_session" => i = n
       /\ \A i \in DOMAIN to_backfillee' : to_backfillee'[i].type = "items" => i < n
  BY <1>5, <1>6, <1>9, Zenon DEF Pending
<1>12. threshold' = threshold /\ InFlight' = InFlight /\ Reached' = Reached
  BY <1>8, <1>11 DEF threshold, InFlight, Reached
<1>13. Types'
  BY <1>2, <1>6, <1>7, <1>8, Zenon DEF Types
<1>14. Bounded' /\ True' /\ TokensInOrder' /\ Streamed' /\ Frontier'
  BY <1>8, <1>12, ContentSame, Zenon DEF Bounded, True, TokensInOrder, Streamed, Frontier
<1>15. Protocol'
  <2>1. \A i \in DOMAIN to_backfiller' :
            to_backfiller'[i].type \notin {"begin_session", "end_session"}
    BY <1>4, <1>10, Zenon DEF Pending
  <2> QED
    BY <1>4, <1>7, <1>8, <1>9, <1>10, <1>11, <1>12, <2>1, Zenon DEF Protocol
<1>16. Contiguous'
  <2>1. /\ Reached <= NumKeys
        /\ \A i \in DOMAIN session.items : session.items[i].key = session.threshold + i
    BY Zenon DEF Contiguous
  <2>2. ASSUME NEW i \in DOMAIN to_backfillee', to_backfillee'[i].type = "items"
        PROVE  /\ to_backfillee'[i].item.key > Reached
               /\ to_backfillee'[i].item.key > Reached + 1 =>
                      \E j \in DOMAIN to_backfillee' :
                          /\ to_backfillee'[j].type = "items"
                          /\ to_backfillee'[j].item.key = to_backfillee'[i].item.key - 1
    <3>1. i \in DOMAIN to_backfillee /\ to_backfillee'[i] = to_backfillee[i]
      BY <1>11, <2>2, Zenon
    <3>2. /\ to_backfillee[i].item.key > Reached
          /\ to_backfillee[i].item.key > Reached + 1 =>
                 \E j \in DOMAIN to_backfillee :
                     /\ to_backfillee[j].type = "items"
                     /\ to_backfillee[j].item.key = to_backfillee[i].item.key - 1
      BY <2>2, <3>1, Zenon DEF Contiguous
    <3> QED
      BY <1>11, <3>1, <3>2, ZenonT(40)
  <2>3. \A i, j \in DOMAIN to_backfillee' :
            /\ i < j /\ to_backfillee'[i].type = "items" /\ to_backfillee'[j].type = "items"
            => to_backfillee'[i].item.key < to_backfillee'[j].item.key
    BY <1>11 DEF Contiguous
  <2> QED
    BY <1>7, <1>8, <1>12, <2>1, <2>2, <2>3, Zenon DEF Contiguous
<1>17. ItemsTrue'
  BY <1>7, <1>8, <1>12, ContentSame, ZenonT(40) DEF ItemsTrue
<1>18. PreOrder'
  BY <1>9, <1>2, <1>7, <1>8 DEF PreOrder, Backfilling
<1>19. Untouched'
  BY <1>7, <1>8, <1>12, ZenonT(40) DEF Untouched, Backfilling
<1>20. Known'
  <2>1. Backfilling' = Backfilling
    BY <1>7, <1>8, Zenon DEF Backfilling
  <2>2. ASSUME NEW i \in DOMAIN to_backfiller, to_backfiller[i].type = "pre_items"
        PROVE  i - 1 \in DOMAIN to_backfiller' /\ to_backfiller'[i - 1] = to_backfiller[i]
    BY <1>2, <2>2
  <2>3. \A i \in DOMAIN to_backfiller : to_backfiller[i].type = "pre_items" =>
            \E j \in DOMAIN to_backfiller' : to_backfiller'[j] = to_backfiller[i]
    BY <2>2, Zenon
  <2> QED
    BY <1>7, <1>8, <1>12, <2>1, <2>3, KnownStays, Zenon
<1> QED
  BY <1>13, <1>14, <1>15, <1>16, <1>17, <1>18, <1>19, <1>20, <1>12, Zenon

\* The four handlers of the backfiller.
LEMMA OnBackfilleeMessageStep ==
  ASSUME Inv, OnBackfilleeMessage
  PROVE  Inv' /\ InFlight' = InFlight
<1>1. to_backfiller \in Seq(ToBackfiller) /\ to_backfiller # <<>>
  BY Zenon DEF Inv, Types, OnBackfilleeMessage
<1> QED
  BY <1>1, ToBackfillerTypes, OnPreItemsStep, OnBeginSessionStep, OnEndSessionStep,
     OnAckItemsStep

------------------------------------------------------------------------------
(* The handlers of the backfillee.                                            *)
\* on_ack_pre_items().
LEMMA OnAckPreItemsStep ==
  ASSUME Inv, OnBackfillerMessage, Head(to_backfillee).type = "ack_pre_items"
  PROVE  Inv' /\ InFlight' = InFlight
<1> USE DEF Inv
<1> DEFINE m == Head(to_backfillee)
<1>1. /\ UNCHANGED <<log, pstore, remote, writes, client, backfiller, to_backfiller,
                     tokens, store, meta>>
      /\ to_backfillee # <<>> /\ to_backfillee' = Tail(to_backfillee)
      /\ session' = session /\ pre' = [pre EXCEPT !.unacked = @ - m.size]
  BY Zenon DEF OnBackfillerMessage, primary_vars, dispatch_vars, store_vars
<1>2. /\ to_backfillee' \in Seq(ToBackfillee) /\ m \in ToBackfillee
      /\ \A i \in DOMAIN to_backfillee' :
             i \in Nat /\ i + 1 \in DOMAIN to_backfillee /\ to_backfillee'[i] = to_backfillee[i + 1]
      /\ \A i \in DOMAIN to_backfillee : i # 1 =>
             i - 1 \in DOMAIN to_backfillee' /\ to_backfillee'[i - 1] = to_backfillee[i]
      /\ \A i \in DOMAIN to_backfillee : i \in Nat
      /\ 1 \in DOMAIN to_backfillee /\ to_backfillee[1] = m /\ m.type = "ack_pre_items"
  BY <1>1, TailProps DEF Types
<1>3. /\ Pending(to_backfillee', "items") <=> Pending(to_backfillee, "items")
      /\ Pending(to_backfillee', "ack_end_session") <=> Pending(to_backfillee, "ack_end_session")
  BY <1>1, Rest, Zenon DEF Types
<1>4. pre' \in Pre /\ pre'.sent = pre.sent /\ pre'.common = pre.common
  <2>1. m.size \in Int
    BY <1>2, ToBackfilleeTypes, Zenon
  <2> HIDE DEF m
  <2>2. pre \in Pre /\ pre.unacked - m.size \in Int
    BY <2>1, PreTypes DEF Types
  <2> QED
    BY <1>1, <2>2, Zenon DEF Pre
<1>5. UNCHANGED <<log, pstore, remote, writes, client, backfiller, to_backfiller, session,
                  tokens, store, meta>>
  BY <1>1, Zenon
<1>6. /\ \A i \in DOMAIN to_backfillee : to_backfillee[i].type = "items" =>
             i - 1 \in DOMAIN to_backfillee' /\ to_backfillee'[i - 1] = to_backfillee[i]
      /\ \A i \in DOMAIN to_backfillee' :
             i + 1 \in DOMAIN to_backfillee /\ to_backfillee'[i] = to_backfillee[i + 1]
  BY <1>2, Zenon
<1>7. threshold' = threshold /\ Reached' = Reached
  BY <1>5, Zenon DEF threshold, Reached
<1>8. InFlight' = InFlight
  BY <1>5, <1>6 DEF InFlight
<1>9. Types'
  BY <1>2, <1>4, <1>5, Zenon DEF Types
<1>10. Bounded' /\ True' /\ TokensInOrder' /\ Streamed' /\ Frontier'
  BY <1>5, <1>7, ContentSame, Zenon DEF Bounded, True, TokensInOrder, Streamed, Frontier
<1>11. Protocol'
  <2>1. \A i, j \in DOMAIN to_backfillee' :
           to_backfillee'[i].type = "ack_end_session" =>
               /\ to_backfillee'[j].type = "ack_end_session" => i = j
               /\ to_backfillee'[j].type = "items" => j < i
    <3> SUFFICES ASSUME NEW i \in DOMAIN to_backfillee', NEW j \in DOMAIN to_backfillee',
                        to_backfillee'[i].type = "ack_end_session"
                 PROVE  /\ to_backfillee'[j].type = "ack_end_session" => i = j
                        /\ to_backfillee'[j].type = "items" => j < i
      BY Zenon
    <3>1. /\ to_backfillee'[j].type = "ack_end_session" => i + 1 = j + 1
          /\ to_backfillee'[j].type = "items" => j + 1 < i + 1
      BY <1>6, ZenonT(40) DEF Protocol
    <3> QED
      BY <1>2, <3>1
  <2> QED
    BY <1>3, <1>5, <1>7, <2>1, ZenonT(40) DEF Protocol
<1>12. Contiguous'
  <2>1. ASSUME NEW i \in DOMAIN to_backfillee', to_backfillee'[i].type = "items"
        PROVE  /\ to_backfillee'[i].item.key > Reached
               /\ backfiller.session # None => to_backfillee'[i].item.key <= backfiller.session
               /\ to_backfillee'[i].item.key > Reached + 1 =>
                      \E j \in DOMAIN to_backfillee' :
                          /\ to_backfillee'[j].type = "items"
                          /\ to_backfillee'[j].item.key = to_backfillee'[i].item.key - 1
    BY <1>6, <2>1 DEF Contiguous
  <2>2. \A i, j \in DOMAIN to_backfillee' :
            /\ i < j /\ to_backfillee'[i].type = "items" /\ to_backfillee'[j].type = "items"
            => to_backfillee'[i].item.key < to_backfillee'[j].item.key
    <3> SUFFICES ASSUME NEW i \in DOMAIN to_backfillee', NEW j \in DOMAIN to_backfillee', i < j,
                        to_backfillee'[i].type = "items", to_backfillee'[j].type = "items"
                 PROVE  to_backfillee'[i].item.key < to_backfillee'[j].item.key
      BY Zenon
    <3>1. /\ i + 1 \in DOMAIN to_backfillee /\ to_backfillee'[i] = to_backfillee[i + 1]
          /\ j + 1 \in DOMAIN to_backfillee /\ to_backfillee'[j] = to_backfillee[j + 1]
          /\ i + 1 < j + 1
      BY <1>2
    <3> QED
      BY <3>1 DEF Contiguous
  <2>3. backfiller.session # None /\ backfiller.session > Reached =>
            \E j \in DOMAIN to_backfillee' :
                /\ to_backfillee'[j].type = "items"
                /\ to_backfillee'[j].item.key = backfiller.session
    BY <1>6 DEF Contiguous
  <2>4. /\ Reached <= NumKeys
        /\ \A i \in DOMAIN session.items : session.items[i].key = session.threshold + i
        /\ backfiller.session # None => Reached <= backfiller.session
    BY Zenon DEF Contiguous
  <2> QED
    BY <1>5, <1>7, <2>1, <2>2, <2>3, <2>4, Zenon DEF Contiguous
<1>13. ItemsTrue'
  BY <1>4, <1>5, <1>8, ContentSame DEF ItemsTrue
<1>14. PreOrder' /\ Untouched'
  BY <1>4, <1>5, <1>7, Zenon DEF PreOrder, Untouched, Backfilling
<1>15. Known'
  <2>1. \A i \in DOMAIN to_backfiller : to_backfiller[i].type = "pre_items" =>
            \E j \in DOMAIN to_backfiller' : to_backfiller'[j] = to_backfiller[i]
    BY <1>5, Zenon
  <2>2. Backfilling' = Backfilling
    BY <1>5, Zenon DEF Backfilling
  <2> QED
    BY <1>4, <1>5, <1>7, <1>8, <2>1, <2>2, KnownStays, Zenon
<1> QED
  BY <1>9, <1>10, <1>11, <1>12, <1>13, <1>14, <1>15, <1>8, Zenon

\* on_ack_end_session() comes after the session's last chunk.
LEMMA OnAckEndSessionStep ==
  ASSUME Inv, OnBackfillerMessage, Head(to_backfillee).type = "ack_end_session"
  PROVE  Inv' /\ InFlight' = InFlight
<1> USE DEF Inv
<1> DEFINE m == Head(to_backfillee)
<1>1. /\ UNCHANGED <<log, pstore, remote, writes, client, backfiller, to_backfiller,
                     tokens, store, meta>>
      /\ to_backfillee # <<>> /\ to_backfillee' = Tail(to_backfillee)
      /\ session' = [session EXCEPT !.got_ack = TRUE] /\ pre' = pre
  BY Zenon DEF OnBackfillerMessage, primary_vars, dispatch_vars, store_vars
<1>2. /\ to_backfillee' \in Seq(ToBackfillee) /\ m \in ToBackfillee
      /\ \A i \in DOMAIN to_backfillee' :
             i \in Nat /\ i + 1 \in DOMAIN to_backfillee /\ to_backfillee'[i] = to_backfillee[i + 1]
      /\ \A i \in DOMAIN to_backfillee : i \in Nat /\ i >= 1
      /\ \A i \in DOMAIN to_backfillee' : i + 1 # 1
      /\ 1 \in DOMAIN to_backfillee /\ to_backfillee[1] = m /\ m.type = "ack_end_session"
  BY <1>1, TailProps DEF Types
<1>3. Pending(to_backfillee, "ack_end_session")
  BY <1>2, Zenon DEF Pending
<1>4. /\ session' \in Session /\ session'.threshold = session.threshold
      /\ session'.items = session.items /\ session'.sent_end = session.sent_end
      /\ session'.got_ack /\ session'.refused = session.refused
  BY <1>1, Zenon DEF Types, Session
<1>5. UNCHANGED <<log, pstore, remote, writes, client, backfiller, to_backfiller, pre,
                  tokens, store, meta>>
  BY <1>1, Zenon
<1>6. /\ \A i \in DOMAIN to_backfillee : to_backfillee[i].type # "items"
      /\ \A i \in DOMAIN to_backfillee' :
             to_backfillee'[i].type \notin {"items", "ack_end_session"}
  <2>1. \A i \in DOMAIN to_backfillee :
            /\ to_backfillee[i].type = "ack_end_session" => 1 = i
            /\ to_backfillee[i].type = "items" => i < 1
    BY <1>2, Zenon DEF Protocol
  <2> QED
    BY <1>2, <2>1
<1>7. /\ client.phase = "session" /\ ~ session.got_ack /\ backfiller.session = None
      /\ ~ Pending(to_backfiller, "begin_session")
  BY <1>3, Zenon DEF Protocol
<1>8. threshold' = threshold /\ Reached' = Reached
  BY <1>4, <1>5, Zenon DEF threshold, Reached
<1>9. InFlight' = InFlight
  BY <1>4, <1>6, Zenon DEF InFlight
<1>10. Types'
  BY <1>2, <1>4, <1>5, Zenon DEF Types
<1>11. Bounded' /\ True' /\ TokensInOrder' /\ Streamed' /\ Frontier'
  BY <1>5, <1>8, ContentSame, Zenon DEF Bounded, True, TokensInOrder, Streamed, Frontier
<1>12. Protocol'
  <2>1. ~ Pending(to_backfillee', "items") /\ ~ Pending(to_backfillee', "ack_end_session")
    BY <1>6, Zenon DEF Pending
  <2>2. \A i \in DOMAIN to_backfiller : to_backfiller[i].type # "begin_session"
    BY <1>7, Zenon DEF Pending
  <2> QED
    BY <1>4, <1>5, <1>6, <1>7, <1>8, <2>1, <2>2, Zenon DEF Protocol
<1>13. Contiguous'
  BY <1>4, <1>5, <1>6, <1>7, <1>8, Zenon DEF Contiguous
<1>14. ItemsTrue'
  BY <1>4, <1>5, <1>9, ItemsTrueStays, Zenon
<1>15. PreOrder' /\ Untouched'
  BY <1>5, <1>8, Zenon DEF PreOrder, Untouched, Backfilling
<1>16. Known'
  BY <1>5, <1>8, <1>9, ContentSame DEF Known, Backfilling
<1> QED
  BY <1>10, <1>11, <1>12, <1>13, <1>14, <1>15, <1>16, <1>9, Zenon
==============================================================================
