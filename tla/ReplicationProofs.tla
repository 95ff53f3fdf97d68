-------------------------- MODULE ReplicationProofs --------------------------
(***************************************************************************)
(* What the secondary's metainfo, its tracker, its reads and its acks       *)
(* promise follows from the invariant of ReplicationInvariant, for any      *)
(* number of keys and any throttles, writes, preemptions and restarts.      *)
(***************************************************************************)
EXTENDS ReplicationSteps, ReplicationSessions, Replication

USE SMTT(30)

------------------------------------------------------------------------------
(* The invariant is one.                                                      *)
\* No client, no messages, and a store that says the truth.
Fresh ==
    /\ client = NoClient /\ session = NoSession /\ pre = NoPre /\ backfiller = NoBackfiller
    /\ remote = NoRemote /\ writes = {} /\ tokens = <<>>
    /\ to_backfiller = <<>> /\ to_backfillee = <<>>
    /\ log \in Seq(SUBSET Keys) /\ pstore \in Nat /\ pstore <= Len(log)
    /\ store \in [Keys -> SUBSET Int] /\ meta \in [Keys -> {Old} \cup Nat]
    /\ \A k \in Keys : meta[k] <= Len(log)
    /\ True

\* A client that has not started finds the invariant whatever its store holds.
LEMMA FreshInv == Fresh => Inv
<1> SUFFICES ASSUME Fresh PROVE Inv
  BY Zenon
<1>1. Types
  BY BoundsAssumption DEF Fresh, NoClient, Tracker, Client, Phases, NoSession, Session,
     NoPre, NoBackfiller, Pre, Backfiller, NoRemote, Remote, Types
<1>2. Bounded /\ True /\ TokensInOrder /\ Streamed /\ Frontier
  BY BoundsAssumption DEF Fresh, NoClient, Tracker, NoRemote, Bounded, TokensInOrder,
     Streamed, Ordered, Frontier, threshold, get_backfill_threshold, get_max_timestamp
<1>3. InFlight = {}
  BY DEF Fresh, NoSession, InFlight
<1>4. Protocol /\ ItemsTrue /\ Contiguous
  BY <1>3, BoundsAssumption DEF Fresh, NoClient, NoSession, NoBackfiller, Protocol, Pending,
     ItemsTrue, Contiguous, Reached
<1>5. PreOrder /\ Untouched /\ Known
  BY DEF Fresh, NoClient, Backfilling, PreOrder, Untouched, Known
<1> QED
  BY <1>1, <1>2, <1>4, <1>5, Zenon DEF Inv

\* The program starts in the invariant.
LEMMA InitInv == Init => Inv
BY FreshInv, ChangesAssumption DEF Init, Old, True, Fresh

\* A client that is destroyed leaves a store that says the truth.
LEMMA RestartStep ==
  ASSUME Inv, Restart
  PROVE  Inv'
<1>1. Fresh'
  BY ContentSame, Zenon DEF Restart, primary_vars, Inv, True, Fresh, Types, Bounded
<1> QED
  BY <1>1, FreshInv, PTL

\* The three handlers of the backfillee.
LEMMA OnBackfillerMessageStep ==
  ASSUME Inv, OnBackfillerMessage
  PROVE  Inv' /\ InFlight' = InFlight
<1>1. to_backfillee \in Seq(ToBackfillee) /\ to_backfillee # <<>>
  BY Zenon DEF Inv, Types, OnBackfillerMessage
<1>2. Head(to_backfillee) \in ToBackfillee
  BY <1>1
<1>3. Head(to_backfillee).type \in {"items", "ack_pre_items", "ack_end_session"}
  BY <1>2, ToBackfilleeTypes, Zenon
<1> QED
  BY <1>3, OnItemsStep, OnAckEndSessionStep, OnAckPreItemsStep, Zenon

\* Every step keeps the invariant.
LEMMA InvStep ==
  ASSUME NatIsWellOrdered, Inv, [Next]_vars
  PROVE  Inv'
<1>1. CASE \E keys \in Changes : SpawnWrite(keys)
  BY <1>1, SpawnWriteStep, Zenon
<1>2. CASE Read \/ LocalWrite \/ BackgroundWrite \/ OnReady \/ \E r \in reads : ServeRead(r)
  BY <1>2, PrimarySteps, Zenon
<1>3. CASE Commit(TRUE) \/ Commit(FALSE)
  BY <1>3, CommitStep, Zenon
<1>4. CASE Restart
  BY <1>4, RestartStep, Zenon
<1>5. CASE Subscribe \/ CreateBackfillee \/ StartBackfill \/ Go \/ BecomeStreaming
  BY <1>5, SubscribeStep, CreateBackfilleeStep, StartBackfillStep, GoStep,
     BecomeStreamingStep, Zenon
<1>6. CASE SendAckItems \/ ReachEnd \/ SessionDone \/ SendPreItems
  BY <1>6, SendAckItemsStep, ReachEndStep, SessionDoneStep, SendPreItemsStep, Zenon
<1>7. CASE OnBackfillerMessage \/ OnBackfilleeMessage \/ SendItems
  BY <1>7, OnBackfillerMessageStep, OnBackfilleeMessageStep, SendItemsStep, Zenon
<1>8. CASE StoreWrite
  BY <1>8, StoreWriteStep, Zenon
<1>9. CASE \E w \in writes : OnWriteAsync(w) \/ OnWriteSync(w)
  BY <1>9, WriteSteps, Zenon
<1>10. CASE UNCHANGED vars
  <2>1. UNCHANGED <<log, pstore, remote, writes, client, session, pre, backfiller,
                    to_backfiller, to_backfillee, tokens, store, meta>>
    BY <1>10, Zenon DEF vars, primary_vars, dispatch_vars, backfill_vars, store_vars
  <2>2. Types' /\ Bounded' /\ TokensInOrder'
    BY <2>1, Zenon DEF Inv, Types, Bounded, TokensInOrder
  <2>3. threshold' = threshold /\ InFlight' = InFlight /\ Reached' = Reached
    BY <2>1, Zenon DEF threshold, InFlight, Reached
  <2>4. True' /\ Streamed' /\ Frontier' /\ Contiguous'
    <3>1. True'
      BY <2>1, ContentSame, Zenon DEF Inv, True
    <3>2. Streamed' /\ Frontier'
      BY <2>1, <2>3, Zenon DEF Inv, Streamed, Frontier
    <3>3. Contiguous'
      BY <2>1, <2>3, Zenon DEF Inv, Contiguous
    <3> QED
      BY <3>1, <3>2, <3>3
  <2>5. Protocol' /\ ItemsTrue'
    <3>1. Protocol'
      BY <2>1, <2>3, ZenonT(40) DEF Inv, Protocol
    <3>2. ItemsTrue'
      BY <2>1, <2>3, ContentSame, ZenonT(40) DEF Inv, ItemsTrue
    <3> QED
      BY <3>1, <3>2
  <2>6. PreOrder' /\ Untouched'
    BY <2>1, <2>3, ZenonT(40) DEF Inv, PreOrder, Untouched, Backfilling
  <2>7. Known'
    BY <2>1, <2>3, ContentSame DEF Inv, Known, Backfilling
  <2> QED
    BY <2>2, <2>4, <2>5, <2>6, <2>7, ZenonT(40) DEF Inv
<1> QED
  BY <1>1, <1>2, <1>3, <1>4, <1>5, <1>6, <1>7, <1>8, <1>9, <1>10, ZenonT(40) DEF Next, Progress

------------------------------------------------------------------------------
(* What follows from it.                                                      *)
\* What the metainfo says follows from the invariant.
LEMMA MetainfoTrue ==
  ASSUME NatIsWellOrdered, Inv
  PROVE  MetainfoIsTrue
BY FirstToken, BoundsAssumption DEF Inv, True, Token, Keys, MetainfoIsTrue

\* A chain of write tokens ends at the version it leads to.
LEMMA ChainEnds ==
  ASSUME Inv, NEW key \in Keys, NEW final \in Nat, Chain(tokens, meta, key, final)
  PROVE  FinalVersion(key) = final
<1> DEFINE later == {i \in DOMAIN tokens : key <= tokens[i].right}
<1>1. /\ Len(tokens) \in Nat /\ DOMAIN tokens = 1 .. Len(tokens)
      /\ \A i \in DOMAIN tokens : tokens[i].ts \in Nat
      /\ \A i, j \in DOMAIN tokens : i < j => tokens[i].ts < tokens[j].ts
  BY TokenTypes, Zenon DEF Inv, TokensInOrder
<1>2. /\ meta[key] \in Nat /\ meta[key] <= final
      /\ \A t \in Nat : (\E i \in later : tokens[i].ts = t) <=> t \in meta[key] + 1 .. final
  BY Zenon DEF Inv, Types, Chain
<1>3. CASE later = {}
  BY <1>2, <1>3 DEF FinalVersion
<1>4. CASE later # {}
  <2>1. PICK i \in later : TRUE
    BY <1>4, Zenon
  <2>4. PICK j \in later : tokens[j].ts = final
    BY <1>2, <1>1, <2>1
  <2>5. \A l \in later : l <= j
    BY <1>1, <1>2, <2>4
  <2> DEFINE c == CHOOSE l \in later : \A m \in later : m <= l
  <2> HIDE DEF c
  <2> QED
    BY <2>4, <1>4, <1>1, <2>5 DEF FinalVersion
<1> QED
  BY <1>3, <1>4, Zenon

\* What the tracker says follows from the invariant.
LEMMA TrackerTrue ==
  ASSUME NatIsWellOrdered, Inv
  PROVE  TrackerIsTrue
BY ClientTypes, ChainEnds, BoundsAssumption, ThresholdBound, TimestampBounds DEF Inv,
   Streamed, TrackerIsTrue, Mode, threshold, Keys

\* No step takes a key to an older version, whatever is interrupted, because a
\* chunk is never older than the key it brings and a write is the next one.
LEMMA NoRewind ==
  ASSUME NatIsWellOrdered, Inv, [Next]_vars, NEW k \in Keys
  PROVE  meta'[k] >= meta[k]
<1>1. meta \in [Keys -> {Old} \cup Nat] /\ meta[k] \in Int
  BY DEF Inv, Types, Old
<1>2. CASE UNCHANGED meta
  BY <1>1, <1>2
<1>3. CASE StoreWrite
  BY <1>3, FirstToken, <1>1 DEF StoreWrite, Inv, Token
<1>4. ASSUME NEW more \in BOOLEAN, Commit(more)
      PROVE  meta'[k] >= meta[k]
  BY <1>4, SessionTypes, <1>1, ItemTypes DEF Commit, Inv, ItemsTrue, InFlight
<1> QED
  BY <1>2, <1>3, <1>4, ZenonT(40) DEF Next, Progress, SpawnWrite, Read, Restart, LocalWrite,
     BackgroundWrite, OnReady, Subscribe, CreateBackfillee, StartBackfill, Go,
     BecomeStreaming, SendAckItems, ReachEnd, SessionDone, SendPreItems,
     OnBackfillerMessage, OnBackfilleeMessage, SendItems, OnWriteAsync, OnWriteSync,
     ServeRead, vars, store_vars

------------------------------------------------------------------------------
(* Reads.                                                                     *)
\* A secondary that is ahead of the primary's store has acked a write that the
\* dispatcher timestamped after the secondary had subscribed, and no write that
\* was acked by anyone is later than that.
Acked ==
    /\ most_recent_acked_write_timestamp \in Nat
    /\ most_recent_acked_write_timestamp <= Len(log)
    /\ reads \subseteq Nat
    /\ client.subscribed <= client.completed
    /\ remote.acked # 0 =>
           remote.acked > client.subscribed /\ \A k \in Keys : meta[k] >= remote.acked
    /\ remote.state # "none" =>
           \/ most_recent_acked_write_timestamp <= pstore
           \/ most_recent_acked_write_timestamp <= client.subscribed
           \/ most_recent_acked_write_timestamp <= remote.acked
    /\ client.phase = "starting" => remote.acked = 0
    /\ \A r \in reads : \A k \in Keys : meta[k] >= r
    /\ \A i \in DOMAIN tokens :
           /\ tokens[i].ts > client.subscribed
           /\ tokens[i].sync => tokens[i].right = NumKeys /\ client.phase = "streaming"

LEMMA AckedTypes ==
  ASSUME Types
  PROVE  /\ Len(log) \in Nat /\ pstore \in Nat
         /\ remote.acked \in Nat /\ remote.started \in Nat
         /\ remote.state \in {"none", "async", "ready"}
         /\ \A k \in Keys : meta[k] \in Int
BY DEF Types, Remote, Old

\* Steps that acknowledge nothing and send no read.
LEMMA QuietStep ==
  ASSUME NatIsWellOrdered, Inv, Inv', Acked, [Next]_vars,
         most_recent_acked_write_timestamp' = most_recent_acked_write_timestamp,
         reads' \subseteq reads, remote'.acked = remote.acked,
         remote'.state # "none" => remote.state # "none",
         client'.subscribed = client.subscribed, client'.completed = client.completed,
         client.phase = "streaming" => client'.phase = "streaming",
         client'.phase = "starting" => client.phase = "starting",
         tokens' = tokens, pstore' = pstore, Len(log') >= Len(log)
  PROVE  Acked'
<1>1. Types /\ Types'
  BY Zenon DEF Inv
<1>3. /\ Len(log) \in Nat /\ Len(log') \in Nat /\ remote.acked \in Nat
      /\ \A k \in Keys : meta[k] \in Int /\ meta'[k] \in Int
  BY <1>1, AckedTypes DEF Types, Old
<1>6. /\ remote'.acked # 0 =>
             remote'.acked > client'.subscribed /\ \A k \in Keys : meta'[k] >= remote'.acked
      /\ \A r \in reads' : \A k \in Keys : meta'[k] >= r
  BY NoRewind, <1>3 DEF Acked
<1> QED
  BY <1>3, <1>1, ClientTypes, <1>6 DEF Acked

\* A write token for the next write.
LEMMA TokenStep ==
  ASSUME Inv, Acked, NEW w \in writes, OnWriteAsync(w) \/ OnWriteSync(w)
  PROVE  Acked'
<1>1. /\ UNCHANGED <<log, pstore, most_recent_acked_write_timestamp, remote, reads, meta>>
      /\ w.ts = client.completed + 1
  BY Zenon DEF OnWriteAsync, OnWriteSync, primary_vars
<1>2. client \in Client /\ Types
  BY Zenon DEF Inv, Types
<1>3. /\ client'.subscribed = client.subscribed /\ client'.completed = w.ts
      /\ client'.phase = client.phase
  BY <1>2, Zenon DEF OnWriteAsync, OnWriteSync, Client
<1>4. client.subscribed \in Nat /\ client.completed \in Nat
  BY <1>2, ClientTypes, Zenon
<1>5. PICK right : \/ tokens' = tokens
                   \/ tokens' = Append(tokens, [ts |-> w.ts, right |-> right, sync |-> FALSE])
                   \/ /\ tokens' = Append(tokens, [ts |-> w.ts, right |-> NumKeys, sync |-> TRUE])
                      /\ client.phase = "streaming"
  BY Zenon DEF OnWriteAsync, OnWriteSync, Inv, Bounded
<1> DEFINE Good(t) == /\ t.ts > client.subscribed
                      /\ t.sync => t.right = NumKeys /\ client.phase = "streaming"
<1>6. \A i \in DOMAIN tokens' : Good(tokens'[i])
  <2>3. \A i \in DOMAIN tokens : Good(tokens[i])
    BY Zenon DEF Acked
  <2>4. CASE tokens' = tokens
    BY <2>3, <2>4, Zenon
  <2>5. ASSUME NEW t, tokens' = Append(tokens, t), Good(t)
        PROVE  \A i \in DOMAIN tokens' : Good(tokens'[i])
    BY <1>2, TokenTypes, <2>5, <2>3 DEF Types
  <2> QED
    BY <1>5, <1>1, <1>4, <2>4, <2>5 DEF Acked
<1> QED
  BY <1>1, <1>3, <1>6, <1>4 DEF Acked

\* A store write, and its ack.
LEMMA AckStep ==
  ASSUME NatIsWellOrdered, Inv, Inv', Acked, StoreWrite
  PROVE  Acked'
<1> DEFINE w == Head(tokens)
<1>1. /\ tokens # <<>> /\ tokens' = Tail(tokens) /\ UNCHANGED <<log, pstore, reads>>
      /\ meta' = [k \in Keys |-> IF k <= w.right THEN w.ts ELSE meta[k]]
      /\ remote' = IF w.sync THEN [remote EXCEPT !.acked = w.ts] ELSE remote
      /\ most_recent_acked_write_timestamp' =
             IF w.sync THEN Latest(w.ts) ELSE most_recent_acked_write_timestamp
  BY Zenon DEF StoreWrite
<1>2. Types /\ remote \in Remote /\ client \in Client
  BY Zenon DEF Inv, Types
<1>3. /\ client'.subscribed = client.subscribed /\ client'.completed = client.completed
      /\ client'.phase = client.phase
  BY <1>2, Zenon DEF StoreWrite, Client
<1>4. /\ w \in Token /\ w = tokens[1] /\ 1 \in DOMAIN tokens
      /\ \A k \in Keys : k <= w.right => meta[k] = w.ts - 1
  BY <1>1, FirstToken, Zenon DEF Inv
<1>5. w.ts \in Nat /\ w.sync \in BOOLEAN /\ w.right \in Keys
  BY <1>4, Zenon DEF Token
<1>6. w.ts > client.subscribed /\ (w.sync => w.right = NumKeys /\ client.phase = "streaming")
  BY <1>4, Zenon DEF Acked
<1>7. w.ts <= Len(log)
  BY <1>4, <1>2, ClientTypes, AckedTypes, <1>5 DEF Inv, TokensInOrder, Bounded
<1>8. \A i \in DOMAIN tokens' :
          /\ tokens'[i].ts > client'.subscribed
          /\ tokens'[i].sync => tokens'[i].right = NumKeys /\ client'.phase = "streaming"
  BY <1>2, <1>1, TailProps, <1>3 DEF Types, Acked
<1>9. /\ client.subscribed \in Nat /\ remote.acked \in Nat /\ pstore \in Nat
      /\ \A k \in Keys : meta[k] \in Int
  BY <1>2, ClientTypes, AckedTypes, Zenon
<1> HIDE DEF w
<1>11. \A k \in Keys : meta'[k] >= meta[k]
  BY <1>1, <1>4, <1>5, <1>9
<1>12. \A r \in reads' : \A k \in Keys : meta'[k] >= r
  BY <1>1, <1>5, <1>9, <1>11 DEF Acked
<1>13. CASE ~ w.sync
  BY <1>1, <1>13, <1>5, <1>9, <1>3, <1>11, <1>8, <1>12 DEF Acked
<1>14. CASE w.sync
  <2>2. w.right = NumKeys /\ w.ts > client'.subscribed
    BY <1>3, <1>6, <1>14, Zenon
  <2>3. \A k \in Keys : meta'[k] = w.ts /\ meta[k] = w.ts - 1
    BY <1>1, <1>4, <2>2, BoundsAssumption DEF Keys
  <2>5. remote.acked <= w.ts
    <3>1. 1 \in Keys
      BY BoundsAssumption DEF Keys
    <3>2. remote.acked # 0 => remote.acked <= w.ts - 1
      BY <1>9, <2>3, <3>1, ZenonT(40) DEF Acked
    <3> QED
      BY <1>5, <1>9, <3>2
  <2> DEFINE mr == most_recent_acked_write_timestamp
  <2> QED
    BY <1>1, <1>3, <1>8, <1>12, <1>5, <1>2, <1>14, <2>2, <2>3, <1>7, AckedTypes, <1>9,
       <2>5, <1>6 DEF Acked, Latest, Remote
<1> QED
  BY <1>5, <1>13, <1>14, Zenon

LEMMA AckedInit == Init => Acked
BY InitInv, AckedTypes DEF Init, Inv, NoRemote, NoClient, Acked

LEMMA AckedStep ==
  ASSUME NatIsWellOrdered, Inv, Inv', Acked, [Next]_vars
  PROVE  Acked'
<1>0. /\ Types /\ remote \in Remote /\ client \in Client /\ Len(log) \in Nat /\ pstore \in Nat
      /\ remote.acked \in Nat /\ client.subscribed \in Nat
      /\ remote.state \in {"none", "async", "ready"}
  BY AckedTypes, ClientTypes, Zenon DEF Inv, Types
<1>1. CASE \E keys \in Changes : SpawnWrite(keys)
  BY <1>1, <1>0, QuietStep DEF SpawnWrite, dispatch_vars, store_vars, Types
<1>2. CASE Read
  BY <1>2, <1>0, AckedTypes DEF Read, PrefersRemote, primary_vars, store_vars, Acked
<1>3. CASE LocalWrite
  <2> DEFINE mr == most_recent_acked_write_timestamp
  <2>1. /\ pstore < Len(log) /\ pstore' = pstore + 1 /\ mr' = Latest(pstore + 1)
        /\ UNCHANGED <<log, remote, reads, client, tokens, meta>>
    BY <1>3, Zenon DEF LocalWrite, dispatch_vars, store_vars
  <2>2. /\ mr \in Nat /\ mr <= Len(log)
        /\ remote.state # "none" =>
               mr <= pstore \/ mr <= client.subscribed \/ mr <= remote.acked
        /\ mr' = IF pstore + 1 > mr THEN pstore + 1 ELSE mr
    BY <2>1, Zenon DEF Acked, Latest
  <2> QED
    BY <2>1, <1>0, <2>2 DEF Acked
<1>4. CASE Subscribe
  BY <1>4, <1>0 DEF Subscribe, primary_vars, store_vars, Client, Inv, Frontier, Acked
<1>5. CASE Restart
  BY <1>5 DEF Restart, primary_vars, NoRemote, NoClient, Acked
<1>6. CASE StoreWrite
  BY <1>6, AckStep, Zenon
<1>7. CASE \E w \in writes : OnWriteAsync(w) \/ OnWriteSync(w)
  BY <1>7, TokenStep, Zenon
<1>8. CASE BackgroundWrite \/ OnReady
  <2>1. UNCHANGED <<log, pstore, most_recent_acked_write_timestamp, reads, client, tokens>>
    BY <1>8, Zenon DEF BackgroundWrite, OnReady, primary_vars, store_vars
  <2>2. remote'.acked = remote.acked /\ (remote'.state # "none" => remote.state # "none")
    BY <1>0, <1>8, ZenonT(40) DEF BackgroundWrite, OnReady, Remote
  <2> QED
    BY <1>0, <2>1, <2>2, QuietStep
<1>9. CASE \/ CreateBackfillee \/ StartBackfill \/ Go \/ BecomeStreaming \/ SessionDone
           \/ Commit(TRUE) \/ Commit(FALSE)
  <2>2. /\ client'.subscribed = client.subscribed /\ client'.completed = client.completed
        /\ client.phase # "streaming" /\ client'.phase # "starting"
    BY <1>0, <1>9, ZenonT(40) DEF CreateBackfillee, StartBackfill, Go, BecomeStreaming,
       SessionDone, Commit, Client
  <2>3. UNCHANGED <<log, pstore, most_recent_acked_write_timestamp, remote, reads, tokens>>
    BY <1>9, ZenonT(40) DEF CreateBackfillee, StartBackfill, Go, BecomeStreaming, SessionDone,
       Commit, primary_vars, dispatch_vars, store_vars
  <2> QED
    BY <1>0, <2>2, <2>3, QuietStep
<1>10. CASE \/ SendAckItems \/ ReachEnd \/ SendPreItems \/ OnBackfillerMessage
            \/ OnBackfilleeMessage \/ SendItems \/ (\E r \in reads : ServeRead(r))
            \/ UNCHANGED vars
  <2>1. /\ UNCHANGED <<log, pstore, most_recent_acked_write_timestamp, remote, client, tokens>>
        /\ reads' \subseteq reads
    BY <1>10, ZenonT(40) DEF SendAckItems, ReachEnd, SendPreItems, OnBackfillerMessage,
       OnBackfilleeMessage, SendItems, ServeRead, primary_vars, dispatch_vars, store_vars,
       vars
  <2> QED
    BY <1>0, <2>1, QuietStep
<1> QED
  BY <1>1, <1>2, <1>3, <1>4, <1>5, <1>6, <1>7, <1>8, <1>9, <1>10, ZenonT(40) DEF Next, Progress

------------------------------------------------------------------------------
(* Sessions.                                                                  *)
\* The backfiller has consumed the pre-items of what it has sent, and those of
\* what is next have come; a session that is over has been told to end.
Consumed ==
    /\ Backfilling =>
           /\ threshold <= backfiller.pre_right
           /\ \A k \in backfiller.pre_items : threshold < k /\ k <= backfiller.pre_right
    /\ \A x \in InFlight : x.key <= backfiller.pre_right /\ x.key \notin backfiller.pre_items
    /\ Pending(to_backfillee, "ack_end_session") => session.sent_end
    /\ session.got_ack => session.sent_end
    /\ session.refused => session.sent_end

\* Steps that neither send nor apply a chunk, and end no session.
LEMMA ConsumedSame ==
  ASSUME Consumed, Backfilling' => Backfilling /\ threshold' = threshold,
         backfiller'.pre_right = backfiller.pre_right,
         backfiller'.pre_items = backfiller.pre_items,
         \A x \in InFlight' : x \in InFlight,
         Pending(to_backfillee, "ack_end_session")' =>
             Pending(to_backfillee, "ack_end_session") \/ session'.sent_end,
         session.sent_end => session'.sent_end,
         session'.got_ack => session.got_ack \/ session.sent_end,
         session'.refused => session.refused \/ session'.sent_end
  PROVE  Consumed'
BY Zenon DEF Consumed

\* The steps that leave the session and the backfiller alone.
LEMMA ConsumedAside ==
  ASSUME Inv, Consumed, UNCHANGED <<session, backfiller, to_backfillee>>,
         Backfilling' => Backfilling /\ threshold' = threshold
  PROVE  Consumed'
BY ConsumedSame, Zenon DEF InFlight, Pending

LEMMA ConsumedInit == Init => Consumed
BY DEF Init, NoClient, NoSession, Consumed, InFlight, Pending, Backfilling

\* Writes, reads, and the steps that only start something.
LEMMA ConsumedOutside ==
  ASSUME NatIsWellOrdered, Inv, Consumed,
         \/ \E keys \in Changes : SpawnWrite(keys)
         \/ Read \/ LocalWrite \/ BackgroundWrite \/ OnReady \/ (\E r \in reads : ServeRead(r))
         \/ Subscribe \/ StartBackfill \/ BecomeStreaming \/ SendPreItems \/ StoreWrite
         \/ (\E w \in writes : OnWriteAsync(w) \/ OnWriteSync(w))
         \/ UNCHANGED vars
  PROVE  Consumed'
<1>1. UNCHANGED <<session, backfiller, to_backfillee>>
  BY Zenon DEF SpawnWrite, Read, LocalWrite, BackgroundWrite, OnReady, ServeRead,
     Subscribe, StartBackfill, BecomeStreaming, SendPreItems, StoreWrite, OnWriteAsync,
     OnWriteSync, vars, backfill_vars
<1>2. Types /\ client \in Client
  BY Zenon DEF Inv, Types
<1>3. CASE \/ \E keys \in Changes : SpawnWrite(keys)
           \/ Read \/ LocalWrite \/ BackgroundWrite \/ OnReady \/ (\E r \in reads : ServeRead(r))
           \/ SendPreItems \/ UNCHANGED vars
  BY <1>3, <1>1, ConsumedAside, Zenon DEF SpawnWrite, Read, LocalWrite, BackgroundWrite, OnReady,
     ServeRead, SendPreItems, vars, Backfilling, threshold
<1>4. CASE Subscribe
  BY <1>2, <1>4, <1>1, ConsumedAside, Zenon DEF Subscribe, Client, Backfilling
<1>5. CASE StartBackfill \/ BecomeStreaming \/ StoreWrite
  BY <1>2, <1>5, <1>1, ConsumedAside, Zenon DEF StartBackfill, BecomeStreaming, StoreWrite,
     Client, Backfilling, threshold
<1>6. CASE \E w \in writes : OnWriteAsync(w) \/ OnWriteSync(w)
  <2>1. PICK w \in writes : OnWriteAsync(w) \/ OnWriteSync(w)
    BY <1>6, Zenon
  <2>2. CASE client.phase = "streaming" \/ OnWriteSync(w)
    BY <1>2, <2>1, <2>2, <1>1, ConsumedAside, Zenon DEF OnWriteAsync, OnWriteSync, Client,
       Mode, Backfilling, threshold
  <2>3. CASE client.phase # "streaming" /\ OnWriteAsync(w)
    <3> DEFINE tr == client.tracker
               tr2 == record_write(tr, clip_next_write(tr), w.ts)
    <3>2. client'.phase = client.phase /\ client'.tracker = tr2 /\ w.ts = client.completed + 1
      BY <1>2, <2>3, Zenon DEF OnWriteAsync, Client, Mode
    <3>3. IsTracker(tr) /\ Ordered(tr, NumKeys) /\ tr.prev = client.completed /\ NumKeys \in Nat
      BY <1>2, <2>3, ClientTypes, BoundsAssumption, Zenon DEF Inv, Streamed
    <3>4. get_backfill_threshold(tr2) = get_backfill_threshold(tr)
      BY <3>2, <3>3, WriteAdvance, ZenonT(40)
    <3>5. Backfilling' => Backfilling /\ threshold' = threshold
      BY <3>2, <3>4, ZenonT(40) DEF Backfilling, threshold
    <3> QED
      BY <1>1, <3>5, ConsumedAside, Zenon
  <2> QED
    BY <2>1, <2>2, <2>3, Zenon
<1> QED
  BY <1>3, <1>4, <1>5, <1>6, Zenon

\* The steps of a session's life, on the backfillee's side.
LEMMA ConsumedSessions ==
  ASSUME Inv, Consumed,
         CreateBackfillee \/ Go \/ SessionDone \/ SendAckItems \/ ReachEnd
  PROVE  Consumed'
<1>1. Types /\ client \in Client /\ session \in Session /\ backfiller \in Backfiller
  BY Zenon DEF Inv, Types
<1>2. to_backfillee' = to_backfillee
  BY Zenon DEF CreateBackfillee, Go, SessionDone, SendAckItems, ReachEnd
<1>3. CASE CreateBackfillee
  <2>1. /\ client.phase = "registered" /\ client'.phase = "paused" /\ session' = session
        /\ client'.tracker = client.tracker
        /\ backfiller' = [NoBackfiller EXCEPT !.common = [k \in Keys |-> CommonVersion(k)]]
    BY <1>1, <1>3, Zenon DEF CreateBackfillee, Client
  <2>4. InFlight = {}
    BY <2>1, NoneInFlight, Zenon
  <2>5. InFlight' = {}
    BY <1>2, <2>1, <2>4 DEF InFlight
  <2> QED
    BY <2>1, <2>5, <1>2 DEF Consumed, NoBackfiller, Inv, Frontier, threshold, Pending
<1>4. CASE Go \/ SessionDone
  <2>1. /\ session'.items = <<>> /\ ~ session'.got_ack /\ ~ session'.refused
        /\ backfiller' = backfiller /\ client'.tracker = client.tracker
        /\ client.phase \in {"synchronizing", "session"}
        /\ Go => client.phase = "synchronizing"
        /\ SessionDone => session.got_ack /\ session.items = <<>>
    <3>1. /\ backfiller' = backfiller /\ client'.tracker = client.tracker
          /\ client.phase \in {"synchronizing", "session"}
          /\ Go => client.phase = "synchronizing"
      BY <1>1, <1>4, Zenon DEF Go, SessionDone, Client
    <3>2. SessionDone => session.got_ack /\ session.items = <<>>
      BY Zenon DEF SessionDone
    <3>3. CASE Go
      BY <3>3, <3>1, <3>2 DEF Go, NoSession
    <3>4. CASE SessionDone
      <4>1. session' = NoSession
        BY <3>4, Zenon DEF SessionDone
      <4> QED
        BY <3>1, <3>2, <4>1, Zenon DEF NoSession
    <3> QED
      BY <1>4, <3>3, <3>4, Zenon
  <2>2. ~ Pending(to_backfillee, "ack_end_session") /\ ~ Pending(to_backfillee, "items")
    BY <1>4, <2>1, ZenonT(40) DEF Inv, Protocol
  <2>3. ~ Pending(to_backfillee, "ack_end_session")' /\ ~ Pending(to_backfillee, "items")'
    BY <1>2, <2>2, Zenon DEF Pending
  <2>4. InFlight' = {}
    BY <2>1, <2>3 DEF InFlight, Pending
  <2>5. Backfilling /\ threshold' = threshold
    BY <2>1, Zenon DEF Backfilling, threshold
  <2>6. Backfilling' =>
          /\ threshold' <= backfiller'.pre_right
          /\ \A k \in backfiller'.pre_items : threshold' < k /\ k <= backfiller'.pre_right
    BY <2>1, <2>5, Zenon DEF Consumed
  <2> QED
    BY <2>1, <2>3, <2>4, <2>6, ZenonT(40) DEF Consumed
<1>5. CASE SendAckItems \/ ReachEnd
  <2>1. /\ backfiller' = backfiller /\ client' = client /\ session'.items = session.items
        /\ session'.got_ack = session.got_ack /\ session'.refused = session.refused
        /\ session.sent_end => session'.sent_end
    BY <1>1, <1>5, ZenonT(40) DEF SendAckItems, ReachEnd, Session
  <2> QED
    BY <2>1, <1>2, ConsumedSame, Zenon DEF InFlight, Pending, Backfilling, threshold
<1> QED
  BY <1>3, <1>4, <1>5, Zenon

\* A chunk that is sent has had its pre-item, and no pre-item of it is left.
LEMMA ConsumedSend ==
  ASSUME Inv, Consumed, SendItems
  PROVE  Consumed'
<1> DEFINE k == backfiller.session + 1
           acks == IF k \in backfiller.pre_items
                   THEN <<[type |-> "ack_pre_items", size |-> 1]>> ELSE <<>>
           m == [type |-> "items", item |-> [key |-> k, version |-> pstore, has |-> NeedsItem(k)]]
<1>1. /\ UNCHANGED <<client, session>>
      /\ backfiller.session \in 0 .. NumKeys - 1 /\ backfiller.pre_right > backfiller.session
      /\ backfiller' = [backfiller EXCEPT !.session = k, !.unacked = @ + Size(NeedsItem(k)),
                            !.common[k] = pstore, !.pre_items = @ \ {k}]
      /\ to_backfillee' = to_backfillee \o <<m>> \o acks
  BY Zenon DEF SendItems, MaySend
<1>2. /\ Types /\ backfiller \in Backfiller /\ to_backfillee \in Seq(ToBackfillee)
      /\ backfiller.pre_right \in Nat
  BY PreTypes DEF Inv, Types
<1>4. k <= backfiller.pre_right
  BY <1>1, <1>2
<1>5. \A y \in InFlight' : y \in InFlight \/ y.key = k
  BY SendItemsStep, Zenon
<1> HIDE DEF k
<1> QED
  BY <1>1, <1>2, <1>4, <1>5 DEF Consumed, Backfilling, threshold, Backfiller, Pending

LEMMA ConsumedCommit ==
  ASSUME NatIsWellOrdered, Inv, Consumed, NEW more \in BOOLEAN, Commit(more)
  PROVE  Consumed'
<1>1. /\ UNCHANGED <<backfiller, to_backfillee>> /\ client.phase = "session"
      /\ session' = [session EXCEPT !.items = Tail(@),
                         !.mem_size = @ - Size(Head(session.items).has),
                         !.threshold = Head(session.items).key, !.refused = @ \/ ~ more,
                         !.sent_end = @ \/ (~ session.refused /\ ~ more)]
      /\ client'.phase = client.phase
  BY Zenon DEF Inv, Types, Commit, Client
<1>2. /\ \A y \in InFlight' : y \in InFlight
      /\ \E x \in InFlight : x.key = session.threshold + 1
      /\ threshold' = IF session.refused THEN threshold ELSE session.threshold + 1
  BY CommitStep, Zenon
<1>3. /\ session \in Session /\ session.threshold \in Nat /\ threshold \in Nat
      /\ backfiller.pre_right \in Nat /\ \A k \in backfiller.pre_items : k \in Nat
  <2>1. Types /\ session \in Session
    BY Zenon DEF Inv, Types
  <2> QED
    BY <2>1, SessionTypes, ClientTypes, PreTypes DEF Keys
<1>4. /\ session'.got_ack = session.got_ack
      /\ session.sent_end => session'.sent_end
      /\ session'.refused => session.refused \/ session'.sent_end
  <2> DEFINE a == session.refused
             b == session.sent_end
  <2>1. /\ session'.got_ack = session.got_ack
        /\ session'.refused = (a \/ ~ more) /\ session'.sent_end = (b \/ (~ a /\ ~ more))
    BY <1>1, <1>3, Zenon DEF Session
  <2> HIDE DEF a, b
  <2>2. (b => b \/ (~ a /\ ~ more)) /\ ((a \/ ~ more) => a \/ (b \/ (~ a /\ ~ more)))
    BY Zenon
  <2> QED
    BY <2>1, <2>2, Zenon DEF a, b
<1>5. Backfilling /\ (session.refused \/ threshold = session.threshold)
  BY <1>1, Zenon DEF Backfilling, Inv, Protocol
<1>6. /\ threshold <= backfiller.pre_right /\ session.threshold + 1 <= backfiller.pre_right
      /\ session.threshold + 1 \notin backfiller.pre_items
      /\ \A k \in backfiller.pre_items : threshold < k /\ k <= backfiller.pre_right
  BY <1>2, <1>5, Zenon DEF Consumed
<1>7. /\ threshold' <= backfiller.pre_right
      /\ \A k \in backfiller.pre_items : threshold' < k /\ k <= backfiller.pre_right
  <2>1. CASE session.refused
    BY <1>2, <1>6, <2>1, Zenon
  <2>2. CASE ~ session.refused
    <3>1. threshold' = threshold + 1 /\ session.threshold = threshold
      BY <1>2, <1>5, <2>2, Zenon
    <3> QED
      BY <1>3, <1>6, <3>1
  <2> QED
    BY <2>1, <2>2, Zenon
<1>8. Pending(to_backfillee, "ack_end_session")' => Pending(to_backfillee, "ack_end_session")
  BY <1>1, Zenon DEF Pending
<1>9. /\ Pending(to_backfillee, "ack_end_session")' => session'.sent_end
      /\ session'.got_ack => session'.sent_end
      /\ session'.refused => session'.sent_end
  BY <1>4, <1>8, Zenon DEF Consumed
<1>10. \A x \in InFlight' : x.key <= backfiller'.pre_right /\ x.key \notin backfiller'.pre_items
  BY <1>1, <1>2, Zenon DEF Consumed
<1> QED
  BY <1>1, <1>7, <1>9, <1>10, Zenon DEF Consumed

\* What comes is consumed, or said to the other side, in time.
LEMMA ConsumedMessages ==
  ASSUME Inv, Consumed, OnBackfillerMessage \/ OnBackfilleeMessage
  PROVE  Consumed'
<1>1. /\ Types /\ session \in Session /\ backfiller \in Backfiller
      /\ to_backfiller \in Seq(ToBackfiller) /\ to_backfillee \in Seq(ToBackfillee)
  BY Zenon DEF Inv, Types
<1>2. InFlight' = InFlight
  BY OnBackfillerMessageStep, OnBackfilleeMessageStep, Zenon
<1>4. Backfilling' = Backfilling /\ threshold' = threshold
  BY Zenon DEF Backfilling, threshold, OnBackfillerMessage, OnBackfilleeMessage
<1>5. CASE OnBackfillerMessage
  BY <1>5, <1>1, Rest, <1>2, <1>4, ConsumedSame DEF OnBackfillerMessage, Session, Consumed,
     Pending
<1>6. CASE OnBackfilleeMessage
  <2> DEFINE m == Head(to_backfiller)
             acks == IF m.type = "end_session" THEN <<[type |-> "ack_end_session"]>> ELSE <<>>
  <2>1. /\ to_backfiller # <<>> /\ session' = session /\ to_backfillee' = to_backfillee \o acks
        /\ backfiller' = CASE m.type = "pre_items" ->
                                [backfiller EXCEPT !.pre_right = m.key,
                                     !.pre_items = @ \cup IF m.has THEN {m.key} ELSE {}]
                           [] m.type = "begin_session" ->
                                [backfiller EXCEPT !.session = m.threshold]
                           [] m.type = "end_session" -> [backfiller EXCEPT !.session = None]
                           [] OTHER -> [backfiller EXCEPT !.unacked = @ - m.size]
    BY <1>6, Zenon DEF OnBackfilleeMessage
  <2>2. m = to_backfiller[1] /\ 1 \in DOMAIN to_backfiller /\ m \in ToBackfiller
    BY <1>1, <2>1
  <2>3. m.type = "end_session" => session.sent_end
    <3>1. m.type = "end_session" => Pending(to_backfiller, "end_session")
      BY <2>2, Zenon DEF Pending
    <3> QED
      BY <3>1, Zenon DEF Inv, Protocol
  <2>4. m.type # "end_session" => to_backfillee' = to_backfillee
    BY <1>1, <2>1
  <2>5. /\ Pending(to_backfillee, "ack_end_session")' => session'.sent_end
        /\ session'.got_ack => session'.sent_end
        /\ session'.refused => session'.sent_end
    <3>1. Pending(to_backfillee, "ack_end_session")' =>
              Pending(to_backfillee, "ack_end_session") \/ m.type = "end_session"
      BY <2>4, Zenon DEF Pending
    <3> QED
      BY <2>1, <2>3, <3>1, Zenon DEF Consumed
  <2>6. CASE m.type # "pre_items"
    BY <1>1, <2>1, <2>6, <1>2, <1>4, <2>5, ZenonT(40) DEF Backfiller, Consumed
  <2>7. CASE m.type = "pre_items"
    <3>1. m.key \in Nat /\ threshold \in Nat /\ backfiller.pre_right \in Nat
      <4>1. m.key \in Keys
        BY <2>2, <2>7, ToBackfillerTypes, Zenon
      <4> QED
        BY <1>1, <4>1, ClientTypes, PreTypes DEF Keys
    <3>2. /\ backfiller'.pre_right = m.key
          /\ \A l \in backfiller'.pre_items : l \in backfiller.pre_items \/ l = m.key
      <4> HIDE DEF m
      <4>1. backfiller' = [backfiller EXCEPT !.pre_right = m.key,
                               !.pre_items = @ \cup IF m.has THEN {m.key} ELSE {}]
        BY <2>1, <2>7, Zenon
      <4> QED
        BY <1>1, <4>1, Zenon DEF Backfiller
    <3>3. CASE Backfilling
      <4>1. backfiller.pre_right < m.key
        <5>1. m.key \in backfiller.pre_right + 1 .. pre.sent
          BY <2>2, <2>7, <3>3, ZenonT(40) DEF Inv, PreOrder
        <5> QED
          BY <3>1, <5>1
      <4>2. /\ threshold <= backfiller.pre_right
            /\ \A l \in backfiller.pre_items : threshold < l /\ l <= backfiller.pre_right /\ l \in Nat
        BY <1>1, <3>3, PreTypes DEF Consumed, Keys
      <4>3. /\ threshold' <= backfiller'.pre_right
            /\ \A l \in backfiller'.pre_items : threshold' < l /\ l <= backfiller'.pre_right
        <5> HIDE DEF m
        <5> QED
          BY <1>4, <3>1, <3>2, <4>1, <4>2
      <4>4. \A x \in InFlight' : x.key <= backfiller'.pre_right /\ x.key \notin backfiller'.pre_items
        <5>1. \A x \in InFlight : /\ x.key \in Nat /\ x.key <= backfiller.pre_right
                                  /\ x.key \notin backfiller.pre_items
          BY <1>1, InFlightTypes DEF Consumed, Keys
        <5> HIDE DEF m
        <5> QED
          BY <1>2, <3>1, <3>2, <4>1, <5>1
      <4> QED
        BY <2>5, <4>3, <4>4, Zenon DEF Consumed
    <3>4. CASE ~ Backfilling
      BY <1>4, <2>5, <3>4, <1>2, NoneInFlight, ZenonT(40) DEF Consumed, Backfilling
    <3> QED
      BY <3>3, <3>4, Zenon
  <2> QED
    BY <2>6, <2>7, Zenon
<1> QED
  BY <1>5, <1>6, Zenon

LEMMA ConsumedStep ==
  ASSUME NatIsWellOrdered, Inv, Consumed, [Next]_vars
  PROVE  Consumed'
<1>1. CASE Restart
  BY <1>1 DEF Restart, NoClient, NoSession, InFlight, Pending, Backfilling, Consumed
<1> QED
  BY <1>1, ConsumedOutside, ConsumedSessions, ConsumedSend, ConsumedCommit,
     ConsumedMessages, ZenonT(40), ZenonT(40) DEF Next, Progress

\* A tracker that covers everything and is no newer than the writes that have
\* come has one entry.
LEMMA Homogeneous ==
  ASSUME NEW tr, IsTracker(tr), Ordered(tr, NumKeys),
         get_backfill_threshold(tr) = NumKeys, get_max_timestamp(tr) <= tr.prev
  PROVE  is_homogeneous(tr, NumKeys)
<1> DEFINE e == tr.entries
           n == Len(e)
<1>1. /\ tr.prev \in Nat /\ n \in Nat /\ NumKeys \in Nat /\ NumKeys # 0
      /\ \A i \in 1 .. n : e[i].right \in Nat /\ e[i].ts \in Nat
      /\ e \in Seq([right : Nat, ts : Nat])
  BY EntryTypes, BoundsAssumption, Zenon
<1>2. e # <<>> /\ e[n].right = NumKeys /\ e[n].ts <= tr.prev
  BY <1>1, Zenon DEF get_backfill_threshold, get_max_timestamp, LastEntry
<1>3. /\ \A i \in 1 .. n : tr.prev <= e[i].ts
      /\ \A i, j \in 1 .. n : i < j => e[i].ts < e[j].ts
  BY Zenon DEF Ordered
<1>4. n = 1
  <2>1. n >= 1 /\ 1 \in 1 .. n /\ n \in 1 .. n
    BY <1>1, <1>2
  <2>2. 1 < n => e[1].ts < e[n].ts
    BY <1>3, <2>1, Zenon
  <2>3. tr.prev <= e[1].ts /\ e[1].ts \in Nat /\ e[n].ts \in Nat
    BY <1>1, <1>3, <2>1, Zenon
  <2> HIDE DEF n, e
  <2>4. ~ (1 < n)
    BY <1>1, <1>2, <2>2, <2>3
  <2> QED
    BY <1>1, <2>1, <2>4
<1> QED
  BY <1>1, <1>2, <1>3, <1>4, Zenon DEF is_homogeneous

\* What the guarantees of the code ask follows from the invariants.
LEMMA GuaranteesTrue ==
  ASSUME Inv, Consumed
  PROVE  GuaranteesHold
<1>1. client.tracker.prev = client.completed \/ Mode = "STREAMING"
  BY Zenon DEF Inv, Streamed, Mode
<1>2. client.phase = "finishing" /\ WritesCaughtUp => is_homogeneous(client.tracker, NumKeys)
  <2> SUFFICES ASSUME client.phase = "finishing", WritesCaughtUp
               PROVE  is_homogeneous(client.tracker, NumKeys)
    BY Zenon
  <2>1. /\ IsTracker(client.tracker) /\ Ordered(client.tracker, NumKeys)
        /\ client.completed \in Nat /\ get_max_timestamp(client.tracker) \in Nat
        /\ client.tracker.prev = client.completed
    BY ClientTypes, Zenon DEF Inv, Streamed
  <2>2. get_backfill_threshold(client.tracker) = NumKeys
    BY Zenon DEF Inv, Frontier, threshold
  <2>3. get_max_timestamp(client.tracker) <= client.tracker.prev
    BY <2>1, Zenon DEF WritesCaughtUp
  <2> QED
    BY <2>1, <2>2, <2>3, Homogeneous, Zenon
<1>3. \A type : /\ First(to_backfiller, type) => Pending(to_backfiller, type)
                /\ First(to_backfillee, type) => Pending(to_backfillee, type)
  <2>1. to_backfiller \in Seq(ToBackfiller) /\ to_backfillee \in Seq(ToBackfillee)
    BY Zenon DEF Inv, Types
  <2>2. /\ to_backfiller # <<>> =>
               1 \in DOMAIN to_backfiller /\ Head(to_backfiller) = to_backfiller[1]
        /\ to_backfillee # <<>> =>
               1 \in DOMAIN to_backfillee /\ Head(to_backfillee) = to_backfillee[1]
    BY <2>1
  <2> QED
    BY <2>2, Zenon DEF First, Pending
<1>4. First(to_backfiller, "begin_session") =>
         /\ backfiller.session = None
         /\ \A k \in backfiller.pre_items : k > Head(to_backfiller).threshold
  <2> SUFFICES ASSUME First(to_backfiller, "begin_session")
               PROVE  /\ backfiller.session = None
                      /\ \A k \in backfiller.pre_items : k > Head(to_backfiller).threshold
    BY Zenon
  <2>2. backfiller.session = None /\ ~ session.sent_end /\ client.phase = "session"
    BY <1>3, ZenonT(40) DEF Inv, Protocol
  <2>5. \A k \in backfiller.pre_items : threshold < k /\ k \in Nat /\ threshold \in Nat
    BY <2>2, ClientTypes, PreTypes DEF Inv, Consumed, Backfilling, Keys
  <2> QED
    BY <2>2, <2>5 DEF Inv, Protocol, Consumed, Types, First
<1>5. /\ First(to_backfiller, "end_session") => backfiller.session # None
      /\ First(to_backfillee, "items") => client.phase = "session"
      /\ First(to_backfillee, "ack_end_session") => session.sent_end
  BY <1>3, ZenonT(40) DEF Inv, Protocol, Consumed
<1>6. session.items # <<>> =>
         /\ Head(session.items).key = session.threshold + 1
         /\ session.refused \/ session.threshold = get_backfill_threshold(client.tracker)
  <2> SUFFICES ASSUME session.items # <<>>
               PROVE  /\ Head(session.items).key = session.threshold + 1
                      /\ session.refused \/ session.threshold = threshold
    BY Zenon DEF threshold
  <2>1. client.phase = "session"
    BY Zenon DEF Inv, Protocol
  <2>2. session.items \in Seq(Item)
    BY SessionTypes, Zenon DEF Inv
  <2>3. 1 \in DOMAIN session.items /\ Head(session.items) = session.items[1]
    BY <2>2
  <2> QED
    BY <2>1, <2>3, ZenonT(40) DEF Inv, Protocol, Contiguous
<1>7. session.got_ack /\ session.items = <<>> =>
         session.threshold = NumKeys \/ session.refused
  BY ZenonT(40) DEF Inv, Protocol, Consumed
<1>8. \A w \in writes : w.sync => Mode = "STREAMING"
  BY Zenon DEF Inv, Bounded, Mode
<1> QED
  BY <1>1, <1>2, <1>4, <1>5, <1>6, <1>7, <1>8, Zenon DEF GuaranteesHold

------------------------------------------------------------------------------
(* What the contracts of a table rely on.                                     *)
LEMMA OldestIs ==
  ASSUME NEW m \in [Keys -> Int], NEW v \in Int, NEW k \in Keys, m[k] = v, \A l \in Keys : v <= m[l]
  PROVE  (CHOOSE u \in {m[l] : l \in Keys} : \A l \in Keys : u <= m[l]) = v
OBVIOUS

\* A secondary that streams has no key older than its subscription.
LEMMA StreamingVersions ==
  ASSUME NatIsWellOrdered, Inv, Acked, client.phase = "streaming"
  PROVE  /\ \A k \in Keys : meta[k] \in client.subscribed .. Len(log)
         /\ OldestVersion \in client.subscribed .. Len(log)
<1>1. /\ client.subscribed \in Nat /\ client.completed \in Nat /\ Len(log) \in Nat
      /\ client.subscribed <= client.completed /\ client.completed <= Len(log)
  BY ClientTypes, AckedTypes, Zenon DEF Inv, Bounded, Acked
<1>2. ASSUME NEW k \in Keys PROVE meta[k] \in client.subscribed .. Len(log)
  <2>1. /\ meta[k] \in Nat /\ meta[k] <= client.completed
        /\ \A t \in Nat : (\E i \in DOMAIN tokens : tokens[i].ts = t /\ k <= tokens[i].right)
                              <=> t \in meta[k] + 1 .. client.completed
    BY Zenon DEF Inv, Types, Streamed, Chain
  <2>2. CASE meta[k] = client.completed
    BY <1>1, <2>2
  <2>3. CASE meta[k] < client.completed
    <3>1. meta[k] + 1 \in Nat /\ meta[k] + 1 \in meta[k] + 1 .. client.completed
      BY <1>1, <2>1, <2>3
    <3>2. PICK i \in DOMAIN tokens : tokens[i].ts = meta[k] + 1
      BY <2>1, <3>1, Zenon
    <3>3. meta[k] + 1 > client.subscribed
      BY <3>2, Zenon DEF Acked
    <3> QED
      BY <1>1, <2>1, <3>3
  <2> QED
    BY <1>1, <2>1, <2>2, <2>3
<1>3. OldestVersion \in {meta[k] : k \in Keys}
  <2> DEFINE S == {meta[k] : k \in Keys}
  <2>1. S \subseteq Nat /\ S # {}
    BY <1>1, <1>2, BoundsAssumption DEF Keys
  <2>2. PICK x \in S : \A y \in S : x <= y
    BY <2>1, Zenon DEF NatIsWellOrdered
  <2> QED
    BY <2>2, Zenon DEF OldestVersion
<1> QED
  BY <1>2, <1>3, Zenon

LEMMA StreamingOldest ==
  NatIsWellOrdered /\ Inv /\ Acked /\ client.phase = "streaming" => OldestVersion \in client.subscribed .. Len(log)
BY StreamingVersions, Zenon

\* A store write takes the oldest keys of a secondary that streams to the next
\* version.
LEMMA OldestAdvances ==
  ASSUME NatIsWellOrdered, Inv, StoreWrite, client.phase = "streaming"
  PROVE  /\ OldestVersion = Head(tokens).ts - 1 /\ OldestVersion' = Head(tokens).ts
         /\ Head(tokens).ts \in 1 .. Len(log)
<1> DEFINE w == Head(tokens)
<1>1. /\ tokens # <<>>
      /\ meta' = [k \in Keys |-> IF k <= w.right THEN w.ts ELSE meta[k]]
  BY Zenon DEF StoreWrite
<1>2. /\ w \in Token /\ w = tokens[1] /\ 1 \in DOMAIN tokens /\ Increasing(tokens)
      /\ \A k \in Keys : k <= w.right => meta[k] = w.ts - 1
  BY <1>1, FirstToken, Zenon DEF Inv
<1>3. /\ w.ts \in Nat /\ w.right \in Keys /\ 1 \in Keys /\ 1 <= w.right
      /\ client.completed \in Nat /\ Len(log) \in Nat
      /\ w.ts <= client.completed /\ client.completed <= Len(log)
  <2>1. w.ts \in Nat /\ w.right \in Keys
    BY <1>2, Zenon DEF Token
  <2>2. client.completed \in Nat /\ Len(log) \in Nat
    BY ClientTypes, AckedTypes, Zenon DEF Inv
  <2>3. w.ts <= client.completed /\ client.completed <= Len(log)
    BY <1>2, Zenon DEF Inv, TokensInOrder, Bounded
  <2> QED
    BY <2>1, <2>2, <2>3, BoundsAssumption DEF Keys
<1>4. meta \in [Keys -> Nat]
  BY Zenon DEF Inv, Types, Streamed, Chain
<1>5. ASSUME NEW k \in Keys, k > w.right PROVE w.ts <= meta[k]
  <2>2. ~ (w.ts \in meta[k] + 1 .. client.completed)
    <3> SUFFICES ASSUME w.ts \in meta[k] + 1 .. client.completed PROVE FALSE
      BY Zenon
    <3>1. PICK i \in DOMAIN tokens : tokens[i].ts = w.ts /\ k <= tokens[i].right
      BY <1>3 DEF Inv, Streamed, Chain
    <3>3. 1 < i
      BY <1>2, <1>3, <1>5, <3>1, TokenTypes DEF Inv, Keys
    <3> QED
      BY <1>2, <1>3, <3>1, <3>3 DEF Increasing
  <2> HIDE DEF w
  <2> QED
    BY <1>3, <1>4, <2>2
<1> HIDE DEF w
<1>6. \A k \in Keys : k <= w.right \/ k > w.right
  BY <1>3 DEF Keys
<1>8. meta'[1] = w.ts /\ meta' \in [Keys -> Nat] /\ \A k \in Keys : w.ts <= meta'[k]
  BY <1>1, <1>3, <1>4, <1>5, <1>6
<1>10. OldestVersion' = w.ts
  <2>1. meta' \in [Keys -> Int] /\ w.ts \in Int
    BY <1>3, <1>8
  <2> QED
    BY <1>3, <1>8, <2>1, OldestIs DEF OldestVersion
<1> QED
  BY <1>3, <1>2, <1>4, <1>5, <1>6, OldestIs, <1>10 DEF w, OldestVersion

\* Steps that the contracts do not see.
LEMMA StreamSame ==
  ASSUME Len(log') = Len(log), remote'.acked = remote.acked,
         client'.subscribed = client.subscribed,
         client.phase = "starting" <=> client'.phase = "starting",
         client.phase = "streaming" <=> client'.phase = "streaming",
         client.phase = "streaming" => meta' = meta
  PROVE  UNCHANGED Stream!vars
<1>1. CASE client.phase = "streaming"
  <2>1. OldestVersion' = OldestVersion
    BY <1>1, Zenon DEF OldestVersion
  <2> QED
    BY <1>1, <2>1, Zenon DEF Stream!vars
<1>2. CASE client.phase # "streaming"
  BY <1>2, Zenon DEF Stream!vars
<1> QED
  BY <1>1, <1>2, Zenon

LEMMA StreamStep ==
  ASSUME NatIsWellOrdered, Inv, Inv', Acked, Acked', [Next]_vars
  PROVE  [Stream!Next]_(Stream!vars)
<1> SUFFICES Stream!Next \/ UNCHANGED Stream!vars
  BY Zenon DEF Stream!vars
<1>0. /\ Types /\ client \in Client /\ remote \in Remote /\ Len(log) \in Nat
      /\ client.subscribed \in Nat /\ remote.acked \in Nat
  BY AckedTypes, ClientTypes, Zenon DEF Inv, Types
<1>1. CASE \E keys \in Changes : SpawnWrite(keys)
  BY <1>1, <1>0 DEF SpawnWrite, dispatch_vars, store_vars, Types, OldestVersion,
     Stream!Next, Stream!Write
<1>2. CASE Restart
  BY <1>2, Zenon DEF Restart, primary_vars, NoClient, NoRemote, Stream!Next, Stream!LosePrimary
<1>3. CASE Subscribe
  BY <1>0, <1>3, Zenon DEF Subscribe, primary_vars, Client, Acked, Stream!Next, Stream!Subscribe
<1>4. CASE BecomeStreaming
  <2>1. /\ client.phase = "finishing" /\ client'.phase = "streaming"
        /\ client'.subscribed = client.subscribed /\ UNCHANGED <<log, remote, meta>>
    BY <1>0, <1>4, Zenon DEF BecomeStreaming, primary_vars, dispatch_vars, store_vars, Client
  <2>2. OldestVersion' \in client'.subscribed .. Len(log')
    <3>1. (NatIsWellOrdered /\ Inv /\ Acked /\ client.phase = "streaming" =>
               OldestVersion \in client.subscribed .. Len(log))'
      BY StreamingOldest, PTL
    <3> QED
      BY <2>1, <3>1, Zenon DEF NatIsWellOrdered
  <2> QED
    BY <2>1, <2>2, Zenon DEF Stream!Next, Stream!Backfill
<1>5. CASE StoreWrite
  <2> DEFINE w == Head(tokens)
  <2>1. /\ tokens # <<>> /\ log' = log
        /\ remote' = IF w.sync THEN [remote EXCEPT !.acked = w.ts] ELSE remote
        /\ client'.phase = client.phase /\ client'.subscribed = client.subscribed
    BY <1>0, <1>5, Zenon DEF StoreWrite, Client
  <2>3. CASE client.phase = "streaming"
    BY <1>5, <2>3, OldestAdvances, <1>0, <2>1 DEF Stream!Next, Stream!ApplyWrite, Remote
  <2>4. CASE client.phase # "streaming"
    <3>1. w = tokens[1] /\ 1 \in DOMAIN tokens
      BY <2>1, FirstToken, Zenon DEF Inv
    <3>2. ~ w.sync
      BY <2>4, <3>1, Zenon DEF Acked
    <3>3. remote' = remote
      BY <2>1, <3>2, ZenonT(40)
    <3> QED
      BY <2>1, <2>4, <3>3, StreamSame, Zenon
  <2> QED
    BY <2>3, <2>4, Zenon
<1>6. CASE Commit(TRUE) \/ Commit(FALSE)
  BY <1>0, <1>6, StreamSame DEF Commit, primary_vars, dispatch_vars, Client
<1>7. CASE CreateBackfillee \/ StartBackfill \/ Go \/ SessionDone
  BY <1>0, <1>7, StreamSame, Zenon DEF CreateBackfillee, StartBackfill, Go, SessionDone,
     primary_vars, dispatch_vars, store_vars, Client
<1>8. CASE \E w \in writes : OnWriteAsync(w) \/ OnWriteSync(w)
  <2> QED
    BY <1>0, <1>8, StreamSame, Zenon DEF OnWriteAsync, OnWriteSync, primary_vars, Client
<1>9. CASE \/ LocalWrite \/ BackgroundWrite \/ OnReady \/ Read \/ (\E r \in reads : ServeRead(r))
           \/ SendAckItems \/ ReachEnd \/ SendPreItems \/ OnBackfillerMessage
           \/ OnBackfilleeMessage \/ SendItems \/ UNCHANGED vars
  <2>1. UNCHANGED <<log, client, meta>>
    BY <1>9, Zenon DEF LocalWrite, BackgroundWrite, OnReady, Read, ServeRead, SendAckItems,
       ReachEnd, SendPreItems, OnBackfillerMessage, OnBackfilleeMessage, SendItems,
       primary_vars, store_vars, vars
  <2>2. remote'.acked = remote.acked
    BY <1>0, <1>9, Zenon DEF LocalWrite, BackgroundWrite, OnReady, Read, ServeRead, SendAckItems,
       ReachEnd, SendPreItems, OnBackfillerMessage, OnBackfilleeMessage, SendItems,
       dispatch_vars, vars, Remote
  <2> QED
    BY <2>1, <2>2, StreamSame, Zenon
<1> QED
  BY <1>1, <1>2, <1>3, <1>4, <1>5, <1>6, <1>7, <1>8, <1>9, ZenonT(40) DEF Next, Progress

------------------------------------------------------------------------------
(* The theorems.                                                              *)
LOCAL INSTANCE WellFoundedInduction

\* A set of natural numbers has a smallest one.
LEMMA NatWellOrdered == NatIsWellOrdered
<1> SUFFICES ASSUME NEW S \in SUBSET Nat, S # {}
             PROVE  \E x \in S : \A y \in S : x <= y
  BY Zenon DEF NatIsWellOrdered
<1>1. PICK x \in S : \A y \in S : <<y, x>> \notin OpToRel(<, Nat)
  BY NatLessThanWellFounded, WFMin, Zenon
<1>2. \A y \in S : ~ (y < x)
  BY <1>1, Zenon DEF OpToRel
<1> QED
  BY <1>2

\* Only the keys before the first entry's bound, and only when that entry is
\* where the stream is, are at the timestamp of the last write: so the region
\* that clip_next_write_paused() returns is exactly the keys that lack the next
\* write and nothing else.
THEOREM ClipIsExact ==
  ASSUME NEW tr, IsTracker(tr), NEW end \in Nat, Ordered(tr, end),
         NEW key \in 1 .. get_backfill_threshold(tr)
  PROVE  key <= clip_next_write(tr) <=> TimestampOf(tr, key) = tr.prev
BY NatWellOrdered, ClipExact, Zenon

\* What a write does to the tracker when record_write() is given the region that
\* clip_next_write_paused() returned: it stays ordered, the keys in that region
\* advance to the write, and the others keep their timestamps, so that a write
\* which the backfill has brought in already is not counted twice.
THEOREM WriteAdvances ==
  ASSUME NEW tr, IsTracker(tr), NEW end \in Nat, Ordered(tr, end),
         NEW tr2, tr2 = record_write(tr, clip_next_write(tr), tr.prev + 1)
  PROVE  /\ IsTracker(tr2) /\ Ordered(tr2, end) /\ tr2.prev = tr.prev + 1
         /\ get_backfill_threshold(tr2) = get_backfill_threshold(tr)
         /\ \A key \in 1 .. get_backfill_threshold(tr) :
                TimestampOf(tr2, key) = IF key <= clip_next_write(tr) THEN tr.prev + 1
                                        ELSE TimestampOf(tr, key)
BY NatWellOrdered, WriteAdvance, Zenon

\* What a chunk does to the tracker, when it ends after what was there and is no
\* older than the newest entry, as record_backfill() asserts: the tracker stays
\* ordered, the chunk's keys get its version and the others keep theirs.
THEOREM BackfillExtends ==
  ASSUME NEW tr, IsTracker(tr), NEW end \in Nat, Ordered(tr, end),
         NEW right \in 1 .. end, get_backfill_threshold(tr) < right,
         NEW ts \in Nat, get_max_timestamp(tr) <= ts,
         NEW tr2, tr2 = record_backfill(tr, right, ts)
  PROVE  /\ IsTracker(tr2) /\ Ordered(tr2, end) /\ tr2.prev = tr.prev
         /\ get_backfill_threshold(tr2) = right /\ get_max_timestamp(tr2) = ts
         /\ \A key \in 1 .. right :
                TimestampOf(tr2, key) = IF key <= get_backfill_threshold(tr)
                                        THEN TimestampOf(tr, key) ELSE ts
BY NatWellOrdered, BackfillExtend

\* The invariant that everything below rests on: in particular the part of a
\* write that is applied is the part that lacks it, and the chunks on their way
\* say the truth about the keys they leave out.
LEMMA Invariance == Spec => []Inv
<1>1. Inv /\ [Next]_vars => Inv'
  BY NatWellOrdered, InvStep, Zenon
<1> QED
  BY <1>1, InitInv, PTL DEF Spec

\* The metainfo of every key says a version of the branch and the data is that
\* version's, and every store write finds its keys at the version before it:
\* streamed writes and backfill neither skip nor duplicate a change, however
\* many sessions are cut and clients lost (remote_replicator_client.cc, 86).
THEOREM MetainfoStaysTrue == Spec => []MetainfoIsTrue
<1>1. Inv => MetainfoIsTrue
  BY NatWellOrdered, MetainfoTrue
<1> QED
  BY <1>1, Invariance, PTL

\* The tracker says the version that every key will have once the writes that
\* hold a token are applied, and its entries are in order; once the replica_t
\* has taken over, every key is going to be at the last write.
THEOREM TrackerStaysTrue == Spec => []TrackerIsTrue
<1>1. Inv => TrackerIsTrue
  BY NatWellOrdered, TrackerTrue, Zenon
<1> QED
  BY <1>1, Invariance, PTL

\* The secondary's keys never go back, even if it is lost while it is ahead of
\* the primary's own store.
THEOREM VersionsNeverRewind == Spec => NeverRewinds
<1>1. Inv /\ [Next]_vars => [\A k \in Keys : meta'[k] >= meta[k]]_vars
  BY NatWellOrdered, NoRewind, Zenon
<1> QED
  BY <1>1, Invariance, PTL DEF Spec, NeverRewinds

\* A read that the dispatcher has sent to a secondary finds every write that had
\* been acked before it, by whichever replica, on every key: the secondary was
\* chosen for an ack that is later than all of them (primary_dispatcher.cc, 245-249).
THEOREM ReadsStayCurrent == Spec => []ReadsSeeAckedWrites
<1>1. Acked => ReadsSeeAckedWrites
  BY Zenon DEF Acked, ReadsSeeAckedWrites
<1>2. Inv /\ Inv' /\ Acked /\ [Next]_vars => Acked'
  BY NatWellOrdered, AckedStep
<1> QED
  BY <1>1, <1>2, AckedInit, Invariance, PTL DEF Spec

\* The guarantees that the client, the backfillee and the backfiller make each
\* other: sessions do not overlap and start no further right than where the last
\* one got to, chunks come without a gap and only to a session, and what the
\* replica_t takes over is at one timestamp.
THEOREM GuaranteesStayTrue == Spec => []GuaranteesHold
<1>1. Inv /\ Consumed => GuaranteesHold
  BY GuaranteesTrue, Zenon
<1>2. Inv /\ Consumed /\ [Next]_vars => Consumed'
  BY NatWellOrdered, ConsumedStep
<1> QED
  BY <1>1, <1>2, ConsumedInit, Invariance, PTL DEF Spec

\* The secondary implements what the contracts of a table rely on: it starts to
\* stream no older than its subscription, applies the writes after that one by
\* one and in order, and acks only a write that every one of its keys has.
THEOREM SecondaryImplementsStream == Spec => ImplementsStream
<1>1. Init => Stream!Init
  BY InitInv, AckedTypes DEF Init, NoClient, NoRemote, Inv, Stream!Init
<1>2. Inv /\ Inv' /\ Acked /\ [Next]_vars => Acked'
  BY NatWellOrdered, AckedStep, Zenon
<1>3. Inv /\ Inv' /\ Acked /\ Acked' /\ [Next]_vars => [Stream!Next]_(Stream!vars)
  BY NatWellOrdered, StreamStep, Zenon
<1> QED
  BY <1>1, <1>2, <1>3, AckedInit, Invariance, PTL DEF Spec, ImplementsStream, Stream!Spec
==============================================================================
