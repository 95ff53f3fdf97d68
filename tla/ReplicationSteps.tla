-------------------------- MODULE ReplicationSteps ---------------------------
(***************************************************************************)
(* What changes a store keeps the invariant: the writes of a branch, from   *)
(* the dispatcher to the stores, and the chunks of a backfill, from the     *)
(* primary's store to the secondary's.                                      *)
(***************************************************************************)
EXTENDS ReplicationInvariant, WriteDispatch, Backfill

USE SMTT(30)

------------------------------------------------------------------------------
(* The primary.                                                               *)
\* spawn_write() makes the log longer and leaves the versions that exist alone.
LEMMA SpawnWriteStep ==
  ASSUME Inv, NEW keys \in Changes, SpawnWrite(keys)
  PROVE  Inv'
<1> USE DEF Inv
<1>1. UNCHANGED <<pstore, remote, writes, client, session, pre, backfiller, to_backfiller,
                  to_backfillee, tokens, store, meta>> /\ log' = Append(log, keys)
  BY Zenon DEF SpawnWrite, dispatch_vars, backfill_vars, store_vars
<1>3. /\ log' \in Seq(SUBSET Keys) /\ Len(log') = Len(log) + 1 /\ Len(log) \in Nat
      /\ \A k \in Keys, v \in Nat : v <= Len(log) => Content(k, v)' = Content(k, v)
  BY <1>1, ChangesAssumption, ContentStable, Zenon
<1>5. Bounded'
  <2>1. pstore \in Nat /\ remote.started \in Nat /\ client.completed \in Nat
    BY ClientTypes, Zenon DEF Types, Remote
  <2>3. \A k \in Keys : meta[k] \in Int
    BY DEF Types, Old
  <2> QED
    BY <1>1, <1>3, <2>1, <2>3 DEF Bounded, Types
<1>7. Protocol'
  BY <1>1, ZenonT(40) DEF Protocol, Pending, threshold
<1>8. InFlight' = InFlight
  BY <1>1, ZenonT(40) DEF InFlight
<1>10. ItemsTrue'
  BY <1>1, <1>8, InFlightTypes, <1>3 DEF ItemsTrue, Types, Bounded
<1>11. Known'
  <2> SUFFICES ASSUME Backfilling
               PROVE  Known'
    BY <1>1, Zenon DEF Known, Backfilling
  <2>1. \A k \in Keys : Content(k, backfiller.common[k])' = Content(k, backfiller.common[k])
    <3> TAKE k \in Keys
    <3>1. backfiller.common[k] \in Nat /\ backfiller.common[k] <= pstore /\ pstore \in Nat
      BY PreTypes, Zenon DEF Untouched, Types
    <3> QED
      BY <1>1, <1>3, <3>1 DEF Bounded
  <2>2. \A k \in threshold + 1 .. pre.sent : k \in Keys
    BY ClientTypes, PreTypes, BoundsAssumption DEF Keys
  <2> QED
    BY <1>1, <1>8, <2>1, <2>2 DEF Known, Backfilling, threshold
<1>12. PreOrder' /\ Untouched'
  BY <1>1, Zenon DEF PreOrder, Untouched, Backfilling, threshold
<1> QED
  BY <1>1, <1>3, <1>5, <1>7, <1>10, <1>11, <1>12 DEF Types, Bounded, True, Old,
     TokensInOrder, Frontier, Contiguous, threshold, Reached, Chain, Streamed

\* What does not touch the backfill, the client or the secondary's store.
LEMMA PrimaryStep ==
  ASSUME Inv,
         UNCHANGED <<log, client, session, pre, backfiller, to_backfiller, to_backfillee,
                     tokens, store, meta>>,
         pstore' \in Nat, pstore <= pstore', pstore' <= Len(log),
         remote' \in Remote, remote'.started <= Len(log),
         remote'.state = "ready" => client.phase = "streaming",
         writes' \subseteq [ts : Nat, sync : BOOLEAN],
         \A w \in writes' : w.ts \in 1 .. Len(log) /\ (w.sync => client.phase = "streaming")
  PROVE  Inv'
<1> USE DEF Inv
<1>1. Types' /\ Bounded'
  BY Zenon DEF Types, Bounded
<1>a. True' /\ TokensInOrder' /\ Contiguous'
  BY Zenon DEF True, Content, TokensInOrder, Contiguous, Reached
<1>b. Streamed'
  BY ZenonT(40) DEF Streamed, Chain, threshold
<1>2. Protocol'
  BY DEF Protocol, Pending, threshold
<1>3. InFlight' = InFlight /\ threshold' = threshold
  BY ZenonT(40) DEF InFlight, threshold
<1>4. pstore \in Nat
  BY Zenon DEF Types
<1>5. Frontier'
  BY <1>3, <1>4, ClientTypes DEF Frontier
<1>6. ItemsTrue'
  BY <1>3, <1>4, InFlightTypes, ContentSame DEF ItemsTrue
<1>7. Known'
  BY <1>3, KnownSame, Zenon DEF Backfilling
<1>8. PreOrder'
  BY Zenon DEF PreOrder, Backfilling
<1>9. Untouched'
  BY <1>4, PreTypes, <1>3 DEF Untouched, Backfilling
<1> QED
  BY <1>1, <1>2, <1>5, <1>6, <1>7, <1>8, <1>9, <1>a, <1>b, Zenon

\* The writes, the reads and the readiness that concern the dispatcher only.
LEMMA PrimarySteps ==
  ASSUME Inv,
         \/ LocalWrite \/ BackgroundWrite \/ OnReady \/ Read
         \/ \E r \in reads : ServeRead(r)
  PROVE  Inv'
<1> USE DEF Inv
<1>1. /\ pstore \in Nat /\ Len(log) \in Nat /\ remote \in Remote
      /\ writes \subseteq [ts : Nat, sync : BOOLEAN]
  BY DEF Types
<1>2. CASE LocalWrite
  BY <1>2, <1>1, PrimaryStep DEF LocalWrite, dispatch_vars, backfill_vars, store_vars,
     Bounded
<1>3. CASE BackgroundWrite
  <2>1. /\ UNCHANGED <<log, client, session, pre, backfiller, to_backfiller, to_backfillee,
                       tokens, store, meta, pstore>>
        /\ remote.state # "none" /\ remote.started < Len(log)
        /\ remote' = [remote EXCEPT !.started = @ + 1]
        /\ writes' = writes \cup
               {[ts |-> remote.started + 1, sync |-> remote.state = "ready"]}
    BY <1>3, Zenon DEF BackgroundWrite, primary_vars, backfill_vars, store_vars
  <2>3. remote.started \in Nat
    BY <1>1, Zenon DEF Remote
  <2> DEFINE b == remote.state = "ready"
             new == [ts |-> remote.started + 1, sync |-> b]
  <2>a. b \in BOOLEAN /\ (b => client.phase = "streaming")
    BY Zenon DEF Bounded
  <2>b. writes' = writes \cup {new}
    BY <2>1, Zenon
  <2> HIDE DEF b
  <2>c. new \in [ts : Nat, sync : BOOLEAN] /\ new.ts = remote.started + 1 /\ new.sync = b
    BY <2>3, <2>a
  <2> HIDE DEF new
  <2> QED
    BY <1>1, <2>1, <2>b, <2>c, <2>3, <2>a, PrimaryStep DEF Bounded, Remote
<1>4. CASE OnReady
  BY <1>4, <1>1, PrimaryStep DEF OnReady, primary_vars, backfill_vars, store_vars, Remote,
     Bounded
<1>5. ASSUME Read \/ \E r \in reads : ServeRead(r)
      PROVE  Inv'
  BY <1>5, <1>1, PrimaryStep DEF Read, ServeRead, primary_vars, backfill_vars, store_vars,
     Bounded
<1> QED
  BY <1>2, <1>3, <1>4, <1>5, Zenon

------------------------------------------------------------------------------
(* The writes at the secondary.                                               *)
Increasing(toks) == \A i, j \in DOMAIN toks : i < j => toks[i].ts < toks[j].ts

\* A token for the write after the last one extends the chain of the keys that
\* it covers, and leaves the others' alone.
LEMMA ChainAppend ==
  ASSUME NEW toks \in Seq(Token), NEW tok \in Token, NEW m, NEW key \in Keys,
         m[key] \in {Old} \cup Nat, NEW final \in Nat, Chain(toks, m, key, final),
         key <= tok.right => tok.ts = final + 1
  PROVE  Chain(Append(toks, tok), m, key, IF key <= tok.right THEN final + 1 ELSE final)
<1> DEFINE n == Len(toks)
           toks2 == Append(toks, tok)
<1>1. /\ n \in Nat /\ DOMAIN toks = 1 .. n /\ DOMAIN toks2 = 1 .. n + 1
      /\ toks2[n + 1] = tok /\ \A i \in 1 .. n : toks2[i] = toks[i]
  OBVIOUS
<1> HIDE DEF toks2, n
<1>2. m[key] \in Nat /\ m[key] <= final
  BY Zenon DEF Chain, Old
<1>3. ASSUME NEW t \in Nat
      PROVE  (\E i \in DOMAIN toks2 : toks2[i].ts = t /\ key <= toks2[i].right)
                 <=> \/ t \in m[key] + 1 .. final
                     \/ tok.ts = t /\ key <= tok.right
  <2>1. (\E i \in DOMAIN toks : toks[i].ts = t /\ key <= toks[i].right)
            <=> t \in m[key] + 1 .. final
    BY Zenon DEF Chain
  <2>2. (\E i \in DOMAIN toks2 : toks2[i].ts = t /\ key <= toks2[i].right)
            <=> \/ \E i \in DOMAIN toks : toks[i].ts = t /\ key <= toks[i].right
                \/ tok.ts = t /\ key <= tok.right
    <3>1. \A i \in 1 .. n + 1 : i \in 1 .. n \/ i = n + 1
      BY <1>1
    <3>2. n + 1 \in 1 .. n + 1 /\ \A i \in 1 .. n : i \in 1 .. n + 1
      BY <1>1
    <3> QED
      BY <1>1, <3>1, <3>2, Zenon
  <2> QED
    BY <2>1, <2>2, Zenon
<1>4. CASE key <= tok.right
  <2>1. \A t \in Nat : t \in m[key] + 1 .. final \/ t = final + 1
                           <=> t \in m[key] + 1 .. final + 1
    BY <1>2
  <2>2. tok.ts = final + 1 /\ m[key] <= final + 1
    BY <1>2, <1>4
  <2>3. \A t \in Nat : (\E i \in DOMAIN toks2 : toks2[i].ts = t /\ key <= toks2[i].right)
                            <=> t \in m[key] + 1 .. final + 1
    BY <1>3, <1>4, <2>1, <2>2, Zenon
  <2> QED
    BY <1>2, <1>4, <2>2, <2>3, Zenon DEF Chain, toks2
<1>5. CASE ~ (key <= tok.right)
  BY <1>2, <1>3, <1>5, Zenon DEF Chain, toks2
<1> QED
  BY <1>4, <1>5, Zenon

\* The first token is for the write after the version of the keys that it
\* covers, and applying it shortens the chain.
LEMMA ChainTail ==
  ASSUME NEW toks \in Seq(Token), toks # <<>>, Increasing(toks), NEW m, NEW key \in Keys,
         m[key] \in {Old} \cup Nat, NEW final \in Nat, Chain(toks, m, key, final),
         NEW m2, m2[key] = IF key <= Head(toks).right THEN Head(toks).ts ELSE m[key]
  PROVE  /\ Chain(Tail(toks), m2, key, final)
         /\ key <= Head(toks).right => m[key] = Head(toks).ts - 1
<1> DEFINE n == Len(toks)
           w == Head(toks)
           rest == Tail(toks)
<1>1. /\ n \in Nat /\ n # 0 /\ DOMAIN toks = 1 .. n /\ DOMAIN rest = 1 .. n - 1
      /\ w = toks[1] /\ \A i \in 1 .. n - 1 : rest[i] = toks[i + 1]
  OBVIOUS
<1>2. \A i \in 1 .. n : toks[i].ts \in Nat /\ toks[i].right \in Keys
  <2>1. \A i \in 1 .. n : toks[i] \in Token
    OBVIOUS
  <2> QED
    BY <2>1, Zenon DEF Token
<1> HIDE DEF n, w, rest
<1>3. m[key] \in Nat /\ m[key] <= final
  BY Zenon DEF Chain, Old
<1>4. ASSUME NEW t \in Nat
      PROVE  (\E i \in 1 .. n : toks[i].ts = t /\ key <= toks[i].right)
                 <=> t \in m[key] + 1 .. final
  BY <1>1, Zenon DEF Chain
<1>5. \A i \in 2 .. n : w.ts < toks[i].ts
  BY <1>1 DEF Increasing
<1>6. ASSUME NEW t \in Nat
      PROVE  (\E i \in 1 .. n : toks[i].ts = t /\ key <= toks[i].right)
                 <=> \/ w.ts = t /\ key <= w.right
                     \/ \E i \in 1 .. n - 1 : rest[i].ts = t /\ key <= rest[i].right
  <2>1. ASSUME NEW i \in 1 .. n, toks[i].ts = t /\ key <= toks[i].right
        PROVE  \/ w.ts = t /\ key <= w.right
               \/ \E j \in 1 .. n - 1 : rest[j].ts = t /\ key <= rest[j].right
    <3>1. CASE i = 1
      BY <1>1, <2>1, <3>1, Zenon
    <3>2. CASE i # 1
      <4>1. i - 1 \in 1 .. n - 1 /\ i - 1 + 1 = i
        BY <1>1, <3>2
      <4>2. rest[i - 1] = toks[i]
        BY <1>1, <4>1, Zenon
      <4> QED
        BY <2>1, <4>1, <4>2, Zenon
    <3> QED
      BY <3>1, <3>2, Zenon
  <2>2. 1 \in 1 .. n /\ toks[1] = w
    BY <1>1
  <2>3. \A j \in 1 .. n - 1 : j + 1 \in 1 .. n /\ toks[j + 1] = rest[j]
    BY <1>1
  <2> QED
    BY <2>1, <2>2, <2>3, Zenon
<1>7. CASE key <= w.right
  <2>1. w.ts \in Nat /\ w.ts \in m[key] + 1 .. final
    BY <1>1, <1>2, <1>4, <1>7
  <2>2. m[key] + 1 \in Nat /\ m[key] + 1 \in m[key] + 1 .. final
    BY <1>3, <2>1
  <2>3. PICK i \in 1 .. n : toks[i].ts = m[key] + 1 /\ key <= toks[i].right
    BY <1>4, <2>2, Zenon
  <2>4. w.ts <= toks[i].ts
    <3>1. CASE i = 1
      BY <1>1, <2>1, <3>1
    <3>2. CASE i # 1
      <4>1. i \in 2 .. n
        BY <1>1, <3>2
      <4> QED
        BY <1>2, <1>5, <2>1, <4>1
    <3> QED
      BY <3>1, <3>2, Zenon
  <2>5. w.ts = m[key] + 1
    BY <1>3, <2>1, <2>3, <2>4
  <2>6. \A j \in 1 .. n - 1 : rest[j].ts # w.ts
    BY <1>1, <1>2, <1>5, <2>1
  <2>7. ASSUME NEW t \in Nat
        PROVE  (\E j \in 1 .. n - 1 : rest[j].ts = t /\ key <= rest[j].right)
                   <=> t \in w.ts + 1 .. final
    <3>2. t \in w.ts + 1 .. final <=> t \in m[key] + 1 .. final /\ t # w.ts
      BY <1>3, <2>5
    <3> QED
      BY <2>6, <1>4, <1>6, <1>7, <3>2, Zenon
  <2>8. m2[key] = w.ts /\ m2[key] # Old /\ m2[key] <= final
    BY <1>7, <2>1 DEF w, Old
  <2>9. Chain(rest, m2, key, final)
    BY <1>1, <2>7, <2>8, ZenonT(40) DEF Chain
  <2> QED
    BY <2>9, <1>3, <2>5 DEF rest, w
<1>8. CASE ~ (key <= w.right)
  <2>1. ASSUME NEW t \in Nat
        PROVE  (\E j \in 1 .. n - 1 : rest[j].ts = t /\ key <= rest[j].right)
                   <=> t \in m[key] + 1 .. final
    BY <1>4, <1>6, <1>8, Zenon
  <2> QED
    BY <1>8, <1>1, <1>3, <2>1, Zenon DEF rest, w, Chain, Old
<1> QED
  BY <1>7, <1>8, Zenon

\* A write at a streaming secondary extends the chain of every key.
LEMMA OnWriteStreaming ==
  ASSUME Inv, NEW w \in writes, NEW b \in BOOLEAN, client.phase = "streaming",
         w.ts = client.completed + 1, writes' = writes \ {w},
         client' = [client EXCEPT !.completed = w.ts],
         tokens' = Append(tokens, [ts |-> w.ts, right |-> NumKeys, sync |-> b]),
         UNCHANGED <<log, pstore, remote, session, pre, backfiller, to_backfiller,
                     to_backfillee, store, meta>>
  PROVE  Inv'
<1> USE DEF Inv
<1> DEFINE tok == [ts |-> w.ts, right |-> NumKeys, sync |-> b]
<1>1. /\ client \in Client /\ client.completed \in Nat /\ tokens \in Seq(Token)
      /\ w.ts \in Nat /\ w.ts <= Len(log) /\ Len(log) \in Nat
      /\ writes' \subseteq [ts : Nat, sync : BOOLEAN]
  <2>1. client \in Client /\ tokens \in Seq(Token) /\ log \in Seq(SUBSET Keys)
    BY Zenon DEF Types
  <2>2. w.ts \in Nat /\ writes' \subseteq [ts : Nat, sync : BOOLEAN]
    BY Zenon DEF Types
  <2>3. w.ts <= Len(log)
    BY DEF Bounded
  <2> QED
    BY <2>1, <2>2, <2>3, ClientTypes
<1>2. tok \in Token /\ tok.ts = client.completed + 1 /\ tok.right = NumKeys
  BY <1>1, BoundsAssumption DEF Token, Keys
<1> HIDE DEF tok
<1>3. /\ client' \in Client /\ client'.phase = "streaming" /\ client'.completed = w.ts
      /\ client'.start = client.start /\ client'.tracker = client.tracker
  BY <1>1, Zenon DEF Client
<1>4. tokens' = Append(tokens, tok) /\ tokens' \in Seq(Token)
  BY <1>1, <1>2 DEF tok
<1>7. TokensInOrder'
  <2>1. /\ Len(tokens) \in Nat /\ DOMAIN tokens = 1 .. Len(tokens)
        /\ \A i \in DOMAIN tokens : tokens[i].ts \in Nat
    BY TokenTypes, Zenon
  <2>2. /\ DOMAIN tokens' = 1 .. Len(tokens) + 1 /\ tokens'[Len(tokens) + 1] = tok
        /\ \A i \in DOMAIN tokens : tokens'[i] = tokens[i]
    BY <1>1, <1>4
  <2>3. \A i \in DOMAIN tokens' : i \in DOMAIN tokens \/ i = Len(tokens) + 1
    BY <2>1, <2>2
  <2> QED
    BY <1>1, <1>2, <1>3, <2>1, <2>2, <2>3 DEF TokensInOrder
<1>8. Streamed'
  <2> SUFFICES ASSUME NEW k \in Keys
               PROVE  Chain(tokens', meta', k, client'.completed)
    BY <1>3, Zenon DEF Streamed
  <2>2. k <= tok.right
    BY <1>2, BoundsAssumption DEF Keys
  <2>3. Chain(Append(tokens, tok), meta, k, client.completed + 1)
    BY <1>1, <1>2, <2>2, ChainAppend, Zenon DEF Streamed, Types
  <2> QED
    BY <1>1, <1>3, <1>4, <2>3, Zenon
<1>13. PreOrder' /\ Untouched' /\ Known'
  BY <1>3, Zenon DEF PreOrder, Untouched, Known, Backfilling
<1>5. /\ log' = log /\ pstore' = pstore /\ remote' = remote /\ session' = session /\ pre' = pre
      /\ backfiller' = backfiller /\ to_backfiller' = to_backfiller
      /\ to_backfillee' = to_backfillee /\ store' = store /\ meta' = meta
  BY Zenon
<1>9. InFlight = {} /\ InFlight' = {} /\ threshold' = threshold /\ Reached' = Reached
  <2>1. InFlight = {}
    BY NoneInFlight, Zenon
  <2>2. InFlight' = InFlight /\ threshold' = threshold /\ Reached' = Reached
    BY <1>3, <1>5, Zenon DEF InFlight, threshold, Reached
  <2> QED
    BY <2>1, <2>2, Zenon
<1>10. Types'
  BY <1>1, <1>3, <1>4, <1>5, Zenon DEF Types
<1>15. True'
  BY <1>5, ContentSame, Zenon DEF True
<1>11. Bounded' /\ Frontier' /\ ItemsTrue'
  BY <1>1, <1>3, <1>9 DEF Bounded, Frontier, ItemsTrue
<1>12. Protocol'
  BY <1>3, <1>5, <1>9, ZenonT(40) DEF Protocol
<1>14. Contiguous'
  BY <1>9, ZenonT(40) DEF Contiguous
<1> QED
  BY <1>7, <1>8, <1>10, <1>11, <1>12, <1>13, <1>14, <1>15

\* A write during the backfill extends the chains of the keys before its clip.
LEMMA OnWriteClipped ==
  ASSUME NatIsWellOrdered, Inv, NEW w \in writes, OnWriteAsync(w), client.phase # "streaming"
  PROVE  Inv'
<1> USE DEF Inv
<1> DEFINE tr == client.tracker
           clip == clip_next_write(tr)
           tok == [ts |-> w.ts, right |-> clip, sync |-> FALSE]
<1>1. /\ client \in Client /\ client.completed \in Nat /\ tokens \in Seq(Token)
      /\ w.ts \in Nat /\ w.ts <= Len(log) /\ Len(log) \in Nat
      /\ writes' \subseteq [ts : Nat, sync : BOOLEAN] /\ IsTracker(tr)
      /\ threshold \in Nat /\ threshold = get_backfill_threshold(tr)
      /\ get_max_timestamp(tr) \in Nat
  BY ClientTypes DEF Types, Bounded, OnWriteAsync, threshold
<1>3. /\ UNCHANGED <<log, pstore, remote, session, pre, backfiller, to_backfiller,
                     to_backfillee, store, meta>>
      /\ writes' = writes \ {w} /\ w.ts = client.completed + 1
      /\ Mode = "BACKFILLING" => can_clip_next_write_backfilling(tr, NumKeys)
      /\ client' = [client EXCEPT !.completed = w.ts, !.tracker = record_write(tr, clip, w.ts)]
      /\ tokens' = IF clip = 0 THEN tokens ELSE Append(tokens, tok)
  BY Zenon DEF OnWriteAsync, primary_vars, backfill_vars, Mode
<1> DEFINE tr2 == record_write(tr, clip, w.ts)
<1>4. Ordered(tr, NumKeys) /\ tr.prev = client.completed /\ NumKeys \in Nat
  BY BoundsAssumption, Zenon DEF Streamed
<1>5. /\ IsTracker(tr2) /\ Ordered(tr2, NumKeys) /\ tr2.prev = w.ts
      /\ get_backfill_threshold(tr2) = get_backfill_threshold(tr)
      /\ \A key \in 1 .. get_backfill_threshold(tr) :
             TimestampOf(tr2, key) = IF key <= clip THEN client.completed + 1
                                     ELSE TimestampOf(tr, key)
  BY <1>1, <1>3, <1>4, WriteAdvance
<1>6. /\ Len(tr.entries) > 1 => get_max_timestamp(tr2) = get_max_timestamp(tr)
      /\ get_max_timestamp(tr) = client.completed => get_max_timestamp(tr2) = w.ts
      /\ \/ get_max_timestamp(tr2) = get_max_timestamp(tr)
         \/ get_max_timestamp(tr2) = w.ts
      /\ clip \in 0 .. NumKeys /\ clip <= get_backfill_threshold(tr)
      /\ tr.entries = <<>> <=> get_backfill_threshold(tr) = 0
  BY <1>1, <1>3, <1>4, WriteMax
<1>a. \A key \in 1 .. threshold :
          /\ key <= clip <=> TimestampOf(tr, key) = client.completed
          /\ TimestampOf(tr, key) \in Nat
  BY <1>1, <1>4, ClipExact, TimestampBounds, Zenon
<1>b. client.phase \in {"synchronizing", "session"} /\ threshold < NumKeys => Len(tr.entries) > 1
  <2> SUFFICES ASSUME client.phase \in {"synchronizing", "session"}, threshold < NumKeys
               PROVE  Len(tr.entries) > 1
    BY Zenon
  <2>1. can_clip_next_write_backfilling(tr, NumKeys)
    BY <1>3, Zenon DEF Mode
  <2>2. Len(tr.entries) \in Nat /\ (Len(tr.entries) = 1 => threshold = tr.entries[1].right)
    BY <1>1, EntryTypes DEF get_backfill_threshold, LastEntry
  <2>3. tr.entries # <<>> => Len(tr.entries) # 0
    <3>1. tr.entries \in Seq([right : Nat, ts : Nat])
      BY <1>1, EntryTypes, Zenon
    <3> HIDE DEF tr
    <3> QED
      BY <3>1
  <2>4. tr.entries # <<>> /\ (Len(tr.entries) > 1 \/ tr.entries[1].right = NumKeys)
    BY <2>1, Zenon DEF can_clip_next_write_backfilling
  <2> DEFINE n == Len(tr.entries)
  <2>5. n \in Nat /\ n # 0 /\ (n = 1 => threshold = tr.entries[1].right)
    BY <2>2, <2>3, <2>4, Zenon
  <2>6. threshold # NumKeys
    BY <1>1, <1>4
  <2>7. n > 1 \/ tr.entries[1].right = NumKeys
    BY <2>4, Zenon
  <2> HIDE DEF n
  <2>8. n > 1
    BY <2>5, <2>6, <2>7
  <2> QED
    BY <2>8, Zenon DEF n
<1> HIDE DEF tr2, clip, tr
<1>7. /\ client'.phase = client.phase /\ client'.completed = w.ts /\ client'.tracker = tr2
      /\ client'.start = client.start /\ client'.subscribed = client.subscribed
      /\ client' \in Client
  BY <1>1, <1>3, <1>5, Zenon DEF Client, IsTracker, tr2, clip, tr
<1>8. threshold' = threshold /\ InFlight' = InFlight
  BY <1>1, <1>3, <1>5, <1>7, Zenon DEF threshold, InFlight
<1>9. clip # 0 => tok \in Token /\ tok.ts = w.ts /\ tok.right = clip
  BY <1>1, <1>6 DEF Token, Keys
<1> HIDE DEF tok
<1>10. tokens' \in Seq(Token)
  BY <1>1, <1>3, <1>9
<1>11. Types'
  BY <1>1, <1>3, <1>7, <1>10, Zenon DEF Types
<1>12. Bounded' /\ True'
  BY <1>1, <1>3, <1>7, Zenon DEF Bounded, True, Content
<1>13. /\ Len(tokens) \in Nat /\ DOMAIN tokens = 1 .. Len(tokens)
       /\ \A i \in DOMAIN tokens : tokens[i].ts \in Nat /\ tokens[i].right \in Nat
  BY TokenTypes DEF Keys
<1>14. clip # 0 =>
           /\ DOMAIN tokens' = 1 .. Len(tokens) + 1 /\ tokens'[Len(tokens) + 1] = tok
           /\ \A i \in DOMAIN tokens : tokens'[i] = tokens[i]
           /\ \A i \in DOMAIN tokens' : i \in DOMAIN tokens \/ i = Len(tokens) + 1
  BY <1>1, <1>3, <1>9, <1>13
<1>15. TokensInOrder'
  <2>1. CASE clip = 0
    BY <1>1, <1>3, <1>7, <1>13, <2>1 DEF TokensInOrder
  <2>2. CASE clip # 0
    <3>1. /\ \A i \in DOMAIN tokens : tokens[i].ts < w.ts
          /\ \A i, j \in DOMAIN tokens : i < j => tokens[i].ts < tokens[j].ts
      BY <1>1, <1>3, <1>13 DEF TokensInOrder
    <3> DEFINE n == Len(tokens) + 1
    <3>3. /\ n \in Nat /\ tokens'[n].ts = w.ts /\ client'.completed = w.ts
          /\ \A i \in DOMAIN tokens : i < n /\ i \in Nat /\ tokens'[i] = tokens[i]
                                      /\ tokens[i].ts \in Nat
          /\ \A i \in DOMAIN tokens' : i \in DOMAIN tokens \/ i = n
      BY <1>7, <1>9, <1>13, <1>14, <2>2
    <3> HIDE DEF n
    <3>5. ASSUME NEW i \in DOMAIN tokens', NEW j \in DOMAIN tokens', i < j
          PROVE  tokens'[i].ts < tokens'[j].ts
      BY <3>3, <3>5, <3>1
    <3> QED
      BY <3>3, <3>1, <1>1, <3>5 DEF TokensInOrder
  <2> QED
    BY <2>1, <2>2, Zenon
<1>16. Streamed'
  <2>1. \A i \in DOMAIN tokens' : tokens'[i].right <= threshold'
    BY <1>1, <1>3, <1>6, <1>8, <1>9, <1>14 DEF Streamed
  <2>2. ASSUME NEW k \in 1 .. threshold'
        PROVE  Chain(tokens', meta', k, TimestampOf(client'.tracker, k))
    <3>1. k \in 1 .. threshold
      BY <1>8, Zenon
    <3>2. k \in Keys
      <4>1. threshold <= NumKeys
        <5>1. tr.entries # <<>> /\ threshold = tr.entries[Len(tr.entries)].right
          BY <1>1, <3>1 DEF get_backfill_threshold, LastEntry
        <5>2. Len(tr.entries) \in 1 .. Len(tr.entries)
          BY <1>1, <5>1, EntryTypes
        <5> QED
          BY <1>4, <5>1, <5>2 DEF Ordered
      <4> QED
        BY <1>1, <1>4, <3>1, <4>1 DEF Keys
    <3>3. /\ Chain(tokens, meta, k, TimestampOf(tr, k)) /\ meta[k] \in {Old} \cup Nat
          /\ TimestampOf(tr, k) \in Nat
      BY <1>a, <3>1, <3>2, Zenon DEF Streamed, Types, tr
    <3>4. TimestampOf(client'.tracker, k) = IF k <= clip THEN TimestampOf(tr, k) + 1
                                            ELSE TimestampOf(tr, k)
      BY <1>1, <1>5, <1>7, <1>a, <3>1, Zenon
    <3>5. CASE clip = 0
      BY <1>3, <3>1, <3>3, <3>4, <3>5
    <3>6. CASE clip # 0
      BY <1>3, <1>9, <3>4, <3>6, <1>1, <3>2, <3>3, <1>a, <3>1, ChainAppend
    <3> QED
      BY <3>5, <3>6, Zenon
  <2> QED
    BY <1>3, <1>4, <1>5, <1>7, <2>1, <2>2, Zenon DEF Streamed
<1>17. Frontier'
  <2>0. client.subscribed \in Nat /\ pstore \in Nat /\ client.start \in Nat
    BY ClientTypes, Zenon DEF Types
  <2>1. client.phase \in {"starting", "registered"} =>
            threshold = 0 /\ tokens' = <<>> /\ get_max_timestamp(tr2) = w.ts
    BY <1>1, <1>3, <1>6 DEF Frontier, tr
  <2>2. client.phase = "paused" =>
            \/ get_max_timestamp(tr2) <= pstore
            \/ get_max_timestamp(tr2) = w.ts
    BY <1>6, Zenon DEF Frontier, tr
  <2>3. client.phase \in {"synchronizing", "session"} /\ threshold < NumKeys =>
            get_max_timestamp(tr2) = get_max_timestamp(tr)
    BY <1>6, <1>b, Zenon
  <2> QED
    BY <1>1, <1>3, <1>7, <1>8, <2>0, <2>1, <2>2, <2>3 DEF Frontier, tr
<1>18. Protocol'
  BY <1>3, <1>7, <1>8 DEF Protocol, Pending
<1>19. Contiguous'
  BY <1>3, Zenon DEF Contiguous, Reached
<1>20. ItemsTrue'
  BY <1>6, <1>b, InFlightInSession, <1>3, <1>7, <1>8, ContentSame DEF ItemsTrue, tr
<1>21. Known'
  BY <1>3, <1>7, <1>8, ContentSame DEF Known, Backfilling
<1>22. PreOrder' /\ Untouched'
  BY <1>3, <1>7, <1>8, Zenon DEF PreOrder, Untouched, Backfilling
<1> QED
  BY <1>11, <1>12, <1>15, <1>16, <1>17, <1>18, <1>19, <1>20, <1>21, <1>22, Zenon

\* on_write_async() and on_write_sync().
LEMMA WriteSteps ==
  ASSUME NatIsWellOrdered, Inv, NEW w \in writes, OnWriteAsync(w) \/ OnWriteSync(w)
  PROVE  Inv'
BY OnWriteStreaming, OnWriteClipped, Zenon DEF Inv, OnWriteAsync, primary_vars,
   backfill_vars, Mode, OnWriteSync, Bounded

\* The keys that the first token covers have a chain, so that they are at the
\* version before it.
LEMMA FirstToken ==
  ASSUME NatIsWellOrdered, Types, TokensInOrder, Streamed, tokens # <<>>
  PROVE  /\ Head(tokens) \in Token /\ Head(tokens) = tokens[1] /\ 1 \in DOMAIN tokens
         /\ Increasing(tokens)
         /\ client.phase # "streaming" => Head(tokens).right <= threshold
         /\ \A k \in Keys : k <= Head(tokens).right => meta[k] = Head(tokens).ts - 1
<1>1. /\ tokens \in Seq(Token) /\ Len(tokens) \in Nat /\ DOMAIN tokens = 1 .. Len(tokens)
      /\ \A i \in DOMAIN tokens : tokens[i].ts \in Nat /\ tokens[i].right \in Keys
  BY TokenTypes, Zenon DEF Types
<1>2. Head(tokens) \in Token /\ Head(tokens) = tokens[1] /\ 1 \in DOMAIN tokens
  BY <1>1
<1>3. Increasing(tokens)
  BY Zenon DEF TokensInOrder, Increasing
<1>4. client.phase # "streaming" => Head(tokens).right <= threshold
  BY <1>2, Zenon DEF Streamed
<1>5. ASSUME NEW k \in Keys, k <= Head(tokens).right
      PROVE  meta[k] = Head(tokens).ts - 1
  <2>0. meta[k] \in {Old} \cup Nat /\ k \in Nat /\ k >= 1 /\ Head(tokens).right \in Nat
    <3>1. Head(tokens).right \in Keys
      BY <1>1, <1>2, Zenon
    <3> QED
      BY <3>1, BoundsAssumption DEF Types, Keys
  <2>1. PICK final \in Nat : Chain(tokens, meta, k, final)
    <3>1. CASE client.phase = "streaming"
      BY <3>1, ClientTypes, Zenon DEF Streamed
    <3>2. CASE client.phase # "streaming"
      <4>1. k \in 1 .. threshold /\ threshold = get_backfill_threshold(client.tracker)
        BY <1>4, <1>5, <2>0, <3>2, ClientTypes DEF threshold
      <4>2. TimestampOf(client.tracker, k) \in Nat
        BY <3>2, <4>1, ClientTypes, BoundsAssumption, TimestampBounds, Zenon DEF Streamed
      <4> QED
        BY <3>2, <4>1, <4>2, Zenon DEF Streamed
    <3> QED
      BY <3>1, <3>2, Zenon
  <2> DEFINE m2 == [j \in {k} |-> Head(tokens).ts]
  <2>2. m2[k] = IF k <= Head(tokens).right THEN Head(tokens).ts ELSE meta[k]
    BY <1>5, Zenon
  <2> HIDE DEF m2
  <2> QED
    BY <1>1, <1>3, <1>5, <2>0, <2>1, <2>2, ChainTail, Zenon
<1> QED
  BY <1>2, <1>3, <1>4, <1>5, Zenon

\* A write adds itself to the content of the keys that it changes.
LEMMA ContentNext ==
  ASSUME NEW k \in Keys, NEW t \in Nat, t >= 1
  PROVE  Content(k, t) = Content(k, t - 1) \cup IF k \in log[t] THEN {t} ELSE {}
BY DEF Content

\* The first token takes the keys that it covers from their version to the next.
LEMMA StoreWriteStep ==
  ASSUME NatIsWellOrdered, Inv, StoreWrite
  PROVE  Inv'
<1> USE DEF Inv
<1> DEFINE w == Head(tokens)
<1>1. /\ UNCHANGED <<log, pstore, writes, session, pre, backfiller, to_backfiller, to_backfillee>>
      /\ tokens # <<>> /\ tokens' = Tail(tokens)
      /\ store' = [k \in Keys |-> IF k <= w.right /\ k \in log[w.ts]
                                  THEN store[k] \cup {w.ts} ELSE store[k]]
      /\ meta' = [k \in Keys |-> IF k <= w.right THEN w.ts ELSE meta[k]]
      /\ client' = [client EXCEPT !.end = IF w.ts > @ THEN w.ts ELSE @]
      /\ remote' = IF w.sync THEN [remote EXCEPT !.acked = w.ts] ELSE remote
  BY Zenon DEF StoreWrite, backfill_vars
<1>0. /\ session' = session /\ pre' = pre /\ backfiller' = backfiller /\ pstore' = pstore
      /\ log' = log /\ to_backfiller' = to_backfiller /\ to_backfillee' = to_backfillee
  BY <1>1, Zenon
<1>2. /\ w \in Token /\ w = tokens[1] /\ 1 \in DOMAIN tokens /\ Increasing(tokens)
      /\ client.phase # "streaming" => w.right <= threshold
      /\ \A k \in Keys : k <= w.right => meta[k] = w.ts - 1
  BY <1>1, FirstToken, Zenon
<1>3. /\ tokens \in Seq(Token) /\ Len(tokens) \in Nat /\ DOMAIN tokens = 1 .. Len(tokens)
      /\ \A i \in DOMAIN tokens : tokens[i].ts \in Nat /\ tokens[i].right \in Keys
  BY TokenTypes, Zenon DEF Types
<1>4. w.ts \in Nat /\ w.right \in Keys /\ w.sync \in BOOLEAN /\ w.ts <= client.completed
  BY <1>2, Zenon DEF Token, TokensInOrder
<1> HIDE DEF w
<1>5. /\ client'.phase = client.phase /\ client'.completed = client.completed
      /\ client'.tracker = client.tracker /\ client'.start = client.start
      /\ client'.subscribed = client.subscribed /\ client' \in Client
  BY <1>1, <1>4, Zenon DEF Types, Client
<1>6. remote' \in Remote /\ remote'.started = remote.started /\ remote'.state = remote.state
  BY <1>1, <1>4, Zenon DEF Types, Remote
<1>7. threshold' = threshold /\ InFlight' = InFlight
  BY <1>1, <1>5, Zenon DEF threshold, InFlight
<1>9. /\ store \in [Keys -> SUBSET Int] /\ meta \in [Keys -> {Old} \cup Nat]
      /\ client.completed \in Nat /\ Len(log) \in Nat /\ client.completed <= Len(log)
  BY ClientTypes DEF Types, Bounded
<1>13. True'
  <2> SUFFICES ASSUME NEW k \in Keys
               PROVE  IF meta'[k] = Old THEN store'[k] \subseteq {Old}
                      ELSE store'[k] = Content(k, meta'[k])
    BY <1>1, Zenon DEF True, Content
  <2>1. CASE k <= w.right
    <3>1. meta'[k] = w.ts /\ meta[k] = w.ts - 1 /\ meta[k] \in {Old} \cup Nat
      BY <1>1, <1>2, <1>9, <2>1, ZenonT(40)
    <3>2. meta[k] # Old
      BY <1>2, <1>4, <2>1, ClientTypes DEF Streamed, Chain, Keys
    <3>3. w.ts >= 1 /\ w.ts # Old
      BY <1>4, <3>1, <3>2 DEF Old
    <3>5. store'[k] = Content(k, w.ts)
      <4>1. Content(k, w.ts) = Content(k, w.ts - 1) \cup IF k \in log[w.ts] THEN {w.ts} ELSE {}
        BY <1>4, <3>3, ContentNext, Zenon
      <4> QED
        BY <3>1, <3>2, <4>1, <1>1, <2>1, Zenon DEF True
    <3> QED
      BY <3>1, <3>3, <3>5, Zenon
  <2>2. CASE ~ (k <= w.right)
    BY <1>1, <2>2, Zenon DEF True
  <2> QED
    BY <2>1, <2>2, Zenon
<1>14. /\ DOMAIN tokens' = 1 .. Len(tokens) - 1
       /\ \A i \in DOMAIN tokens' : i + 1 \in DOMAIN tokens /\ tokens'[i] = tokens[i + 1]
  BY <1>1, <1>3
<1>15. TokensInOrder'
  <2>1. \A i \in DOMAIN tokens' : i \in Nat
    BY <1>3, <1>14
  <2> QED
    BY <1>5, <1>14, <2>1 DEF TokensInOrder
<1>16. \A k \in Keys, final \in Nat :
           Chain(tokens, meta, k, final) => Chain(tokens', meta', k, final)
  BY <1>1, <1>9, <1>2, <1>3, ChainTail, Zenon DEF w
<1>17. Streamed'
  <2>1. CASE client.phase = "streaming"
    BY <1>5, <1>9, <1>16, <2>1, ZenonT(40) DEF Streamed
  <2>2. CASE client.phase # "streaming"
    <3>1. /\ Ordered(client.tracker, NumKeys) /\ client.tracker.prev = client.completed
          /\ \A i \in DOMAIN tokens : tokens[i].right <= threshold
          /\ \A k \in 1 .. threshold : Chain(tokens, meta, k, TimestampOf(client.tracker, k))
      BY <2>2, Zenon DEF Streamed
    <3>2. ASSUME NEW k \in 1 .. threshold
          PROVE  k \in Keys /\ TimestampOf(client.tracker, k) \in Nat
      BY <3>1, ClientTypes, BoundsAssumption, TimestampBounds, ThresholdBound
         DEF threshold, Keys
    <3>3. \A i \in DOMAIN tokens' : tokens'[i].right <= threshold
      BY <1>14, <3>1, Zenon
    <3> QED
      BY <1>5, <1>7, <1>16, <2>2, <3>1, <3>2, <3>3, Zenon DEF Streamed
  <2> QED
    BY <2>1, <2>2, Zenon
<1>21. \A k \in Keys : client.phase # "streaming" /\ threshold < k =>
           store'[k] = store[k] /\ meta'[k] = meta[k]
  BY <1>1, <1>2, <1>4, ClientTypes DEF Keys
<1>22. ItemsTrue'
  <2>1. \A x \in InFlight : store'[x.key] = store[x.key] /\ meta'[x.key] = meta[x.key]
    <3> TAKE x \in InFlight
    <3>1. client.phase = "session" /\ session.threshold < x.key /\ x.key \in Keys
      BY InFlightInSession, InFlightTypes, Zenon
    <3>2. threshold <= session.threshold
      BY <3>1, Zenon DEF Protocol
    <3>3. threshold < x.key
      BY <3>1, <3>2, SessionTypes, ClientTypes DEF Keys
    <3> QED
      BY <1>21, <3>1, <3>3, Zenon
  <2>2. /\ UNCHANGED <<pre, backfiller, session, pstore>> /\ InFlight' = InFlight
        /\ client'.start = client.start /\ client'.tracker = client.tracker
        /\ \A k, v : Content(k, v)' = Content(k, v)
    BY <1>0, <1>5, <1>7, ContentSame, Zenon
  <2>3. ItemsTrue
    BY Zenon
  <2>4. \A x \in InFlight' :
           /\ x.key <= pre'.sent /\ x.version = backfiller'.common[x.key]
           /\ client'.start <= x.version /\ meta'[x.key] <= x.version /\ x.version <= pstore'
           /\ ~ x.has => store'[x.key] = Content(x.key, x.version)'
           /\ ~ session'.refused => get_max_timestamp(client'.tracker) <= x.version
    BY <2>1, <2>2, <2>3, Zenon DEF ItemsTrue
  <2> QED
    BY <2>2, <2>3, <2>4, Zenon DEF ItemsTrue
<1>24. ASSUME Backfilling
       PROVE  /\ \A k \in threshold + 1 .. NumKeys : store'[k] = store[k] /\ meta'[k] = meta[k]
              /\ \A k \in pre.sent + 1 .. NumKeys : k \in threshold + 1 .. NumKeys
              /\ \A k \in threshold + 1 .. pre.sent : k \in threshold + 1 .. NumKeys
  <2>1. client.phase # "streaming" /\ threshold <= pre.sent
    BY <1>24, Zenon DEF Backfilling, Untouched
  <2>2. \A k \in threshold + 1 .. NumKeys : store'[k] = store[k] /\ meta'[k] = meta[k]
    BY <1>21, <2>1, ClientTypes, BoundsAssumption DEF Keys
  <2> QED
    BY <2>2, <2>1, ClientTypes, PreTypes, BoundsAssumption
<1>25. Untouched'
  <2>1. client'.phase # "registered"
    BY <1>1, <1>5, Zenon DEF Frontier
  <2> QED
    BY <1>0, <1>5, <1>7, <1>24, <2>1, Zenon DEF Untouched, Backfilling
<1>26. Known'
  BY <1>0, <1>5, <1>7, <1>24, KnownSame, Zenon DEF Backfilling
<1> QED
  BY <1>1, <1>5, <1>6, <1>3, <1>4, <1>9, <1>13, <1>15, <1>17, <1>7, <1>22, <1>25, <1>26 DEF
     Bounded, Frontier, Types, Protocol, Pending, Contiguous, Reached, PreOrder,
     Backfilling

------------------------------------------------------------------------------
(* The chunks.                                                                *)
\* The backfiller sends a chunk only if the secondary has other data, and has
\* been told so.
LEMMA SendItemsStep ==
  ASSUME Inv, SendItems
  PROVE  Inv' /\ \A y \in InFlight' : y \in InFlight \/ y.key = backfiller.session + 1
<1> USE DEF Inv
<1> DEFINE k == backfiller.session + 1
           has == NeedsItem(k)
           x == [key |-> k, version |-> pstore, has |-> has]
           m == [type |-> "items", item |-> x]
           acks == IF k \in backfiller.pre_items
                   THEN <<[type |-> "ack_pre_items", size |-> 1]>> ELSE <<>>
           n == Len(to_backfillee) + 1
<1>1. /\ UNCHANGED <<log, pstore, remote, writes, client, session, pre, to_backfiller,
                     tokens, store, meta>>
      /\ backfiller.session \in 0 .. NumKeys - 1 /\ backfiller.pre_right > backfiller.session
      /\ backfiller' = [backfiller EXCEPT !.session = k, !.unacked = @ + Size(has),
                            !.common[k] = pstore, !.pre_items = @ \ {k}]
      /\ to_backfillee' = to_backfillee \o <<m>> \o acks
  BY Zenon DEF SendItems, MaySend, primary_vars, dispatch_vars, store_vars
<1>2. /\ k \in Keys /\ k \in Nat /\ k >= 1 /\ k <= NumKeys /\ backfiller.session \in Nat
      /\ backfiller.session < k /\ backfiller.session # None /\ NumKeys \in Nat
      /\ backfiller.session = k - 1 /\ k <= backfiller.pre_right /\ k # None
  <2> DEFINE b == backfiller.session
             p == backfiller.pre_right
  <2>1. b \in 0 .. NumKeys - 1 /\ p \in 0 .. NumKeys /\ p > b /\ NumKeys \in Nat
    BY <1>1, PreTypes, BoundsAssumption, Zenon
  <2> HIDE DEF b, p
  <2> QED
    BY <2>1 DEF b, p, Keys, None
<1>3. has \in BOOLEAN
  BY Zenon DEF NeedsItem
<1>4. pstore \in Nat
  BY Zenon DEF Types
<1> HIDE DEF has
<1>5. x \in Item /\ x.key = k /\ x.version = pstore /\ x.has = has
  BY <1>2, <1>3, <1>4, Zenon DEF Item
<1> HIDE DEF x
<1>6. m \in ToBackfillee /\ m.type = "items" /\ m.item = x
  BY <1>5, Zenon DEF ToBackfillee
<1> HIDE DEF m
<1>7. /\ to_backfillee' \in Seq(ToBackfillee) /\ n \in Nat
      /\ \A i \in DOMAIN to_backfillee : i \in Nat /\ i < n /\ i \in DOMAIN to_backfillee'
                                         /\ to_backfillee'[i] = to_backfillee[i]
      /\ n \in DOMAIN to_backfillee' /\ to_backfillee'[n] = m
      /\ \A i \in DOMAIN to_backfillee' :
             i \in DOMAIN to_backfillee \/ i = n \/ to_backfillee'[i].type = "ack_pre_items"
  <2> DEFINE q == to_backfillee \o <<m>>
  <2>1. to_backfillee \in Seq(ToBackfillee)
    BY Zenon DEF Types
  <2>2. q = Append(to_backfillee, m) /\ n \in Nat
    BY <1>6, <2>1
  <2> HIDE DEF q
  <2>3. /\ q \in Seq(ToBackfillee) /\ DOMAIN q = DOMAIN to_backfillee \cup {n} /\ q[n] = m
        /\ \A i \in DOMAIN to_backfillee : q[i] = to_backfillee[i] /\ i \in Nat /\ i < n
    BY <1>6, <2>1, <2>2, AppendProps
  <2> HIDE DEF n
  <2>4. CASE k \in backfiller.pre_items
    BY <2>3, <1>1, <2>4, AppendProps, <2>2 DEF ToBackfillee, q
  <2>5. CASE k \notin backfiller.pre_items
    BY <2>2, <2>3, <1>1, <2>5 DEF q
  <2> QED
    BY <2>4, <2>5, Zenon
<1> HIDE DEF acks, n
<1>8. /\ backfiller' \in Backfiller /\ backfiller'.session = k
      /\ backfiller'.pre_right = backfiller.pre_right
      /\ backfiller'.pre_items = backfiller.pre_items \ {k}
      /\ backfiller'.common[k] = pstore
      /\ \A l \in Keys : l # k => backfiller'.common[l] = backfiller.common[l]
  <2> HIDE DEF k
  <2>1. backfiller \in Backfiller /\ backfiller.unacked + Size(has) \in Int
    BY <1>3, PreTypes DEF Types, Size
  <2>2. k \in {None} \cup 0 .. NumKeys
    BY <1>2
  <2> QED
    BY <1>1, <1>2, <1>4, <2>1, <2>2, Zenon DEF Backfiller
<1>9. UNCHANGED <<log, pstore, remote, writes, client, session, pre, to_backfiller,
                  tokens, store, meta>>
  BY <1>1, Zenon
<1>10. threshold' = threshold /\ Reached' = Reached
  BY <1>9, Zenon DEF threshold, Reached
<1> HIDE DEF k
<1>11. /\ client.phase = "session" /\ ~ session.got_ack
       /\ ~ Pending(to_backfiller, "begin_session") /\ ~ Pending(to_backfillee, "ack_end_session")
  BY <1>2, Zenon DEF Protocol
<1>12. Backfilling /\ client.phase \notin {"starting", "registered"}
  BY <1>11, Zenon DEF Backfilling
<1>13. /\ Reached \in Nat /\ Reached <= backfiller.session /\ Reached < k
       /\ threshold \in Nat /\ threshold < k
       /\ \A y \in InFlight : y.key \in Nat /\ y.key < k
  <2>1. Reached \in Nat /\ session.threshold \in Nat /\ session.threshold <= Reached
    BY SessionTypes, BoundsAssumption DEF Reached
  <2>2. Reached <= backfiller.session
    BY <1>2, Zenon DEF Contiguous
  <2>3. threshold \in Nat /\ threshold <= session.threshold
    BY <1>11, ClientTypes, Zenon DEF Protocol
  <2>4. \A y \in InFlight : y.key \in Nat
    BY InFlightTypes DEF Keys
  <2>7. \A y \in InFlight : y.key <= Reached \/ y.key <= backfiller.session
    BY SessionTypes, <1>2 DEF InFlight, Contiguous, Reached
  <2> QED
    BY <1>2, <2>1, <2>2, <2>3, <2>4, <2>7
<1>14. InFlight' = InFlight \cup {x}
  <2>1. \A y \in InFlight' : y \in InFlight \/ y = x
    <3> TAKE y \in InFlight'
    <3>1. CASE \E i \in DOMAIN session'.items : y = session'.items[i]
      BY <1>9, <3>1, Zenon DEF InFlight
    <3>2. CASE \E i \in DOMAIN to_backfillee' :
                   to_backfillee'[i].type = "items" /\ y = to_backfillee'[i].item
      <4>1. PICK i \in DOMAIN to_backfillee' :
                   to_backfillee'[i].type = "items" /\ y = to_backfillee'[i].item
        BY <3>2, Zenon
      <4>2. i \in DOMAIN to_backfillee \/ i = n
        BY <1>7, <4>1, Zenon
      <4> QED
        BY <1>6, <1>7, <4>1, <4>2, Zenon DEF InFlight
    <3> QED
      BY <3>1, <3>2, Zenon DEF InFlight
  <2>2. x \in InFlight'
    BY <1>6, <1>7, Zenon DEF InFlight
  <2>3. \A y \in InFlight : y \in InFlight'
    <3> TAKE y \in InFlight
    <3>1. CASE \E i \in DOMAIN session.items : y = session.items[i]
      BY <1>9, <3>1, Zenon DEF InFlight
    <3>2. CASE \E i \in DOMAIN to_backfillee :
                   to_backfillee[i].type = "items" /\ y = to_backfillee[i].item
      BY <1>7, <3>2, Zenon DEF InFlight
    <3> QED
      BY <3>1, <3>2, Zenon DEF InFlight
  <2> QED
    BY <2>1, <2>2, <2>3, Zenon
<1>15. Types'
  BY <1>7, <1>8, <1>9, Zenon DEF Types
<1>16. Bounded' /\ True' /\ TokensInOrder' /\ Streamed' /\ Frontier'
  BY <1>9, <1>10, ContentSame, Zenon DEF Bounded, True, TokensInOrder, Streamed, Frontier
<1>17. Protocol'
  <2>1. /\ \A i \in DOMAIN to_backfillee' : to_backfillee'[i].type # "ack_end_session"
        /\ \A i \in DOMAIN to_backfiller : to_backfiller[i].type # "begin_session"
    BY <1>6, <1>7, <1>11, Zenon DEF Pending
  <2>2. ~ Pending(to_backfillee', "ack_end_session")
    BY <2>1, Zenon DEF Pending
  <2> QED
    BY <1>2, <1>8, <1>9, <1>10, <1>11, <2>1, <2>2, ZenonT(40) DEF Protocol
<1>18. Contiguous'
  <2>1. /\ Reached <= NumKeys
        /\ \A i \in DOMAIN session.items : session.items[i].key = session.threshold + i
    BY Zenon DEF Contiguous
  <2>2. \A i \in DOMAIN to_backfillee' : to_backfillee'[i].type = "items" =>
            \/ i \in DOMAIN to_backfillee /\ to_backfillee'[i] = to_backfillee[i]
               /\ to_backfillee[i].item.key \in Nat /\ to_backfillee[i].item.key < k
            \/ i = n /\ to_backfillee'[i].item.key = k
    <3> TAKE i \in DOMAIN to_backfillee'
    <3> HAVE to_backfillee'[i].type = "items"
    <3>1. CASE i = n
      BY <1>5, <1>6, <1>7, <3>1, Zenon
    <3>2. CASE i \in DOMAIN to_backfillee
      <4>1. to_backfillee'[i] = to_backfillee[i] /\ to_backfillee[i].item \in InFlight
        BY <1>7, <3>2, Zenon DEF InFlight
      <4> QED
        BY <1>13, <3>2, <4>1, Zenon
    <3> QED
      BY <1>7, <3>1, <3>2, Zenon
  <2>3. ASSUME NEW i \in DOMAIN to_backfillee', to_backfillee'[i].type = "items"
        PROVE  /\ to_backfillee'[i].item.key > Reached
               /\ to_backfillee'[i].item.key <= k
               /\ to_backfillee'[i].item.key > Reached + 1 =>
                      \E j \in DOMAIN to_backfillee' :
                          /\ to_backfillee'[j].type = "items"
                          /\ to_backfillee'[j].item.key = to_backfillee'[i].item.key - 1
    <3>1. CASE i \in DOMAIN to_backfillee
      <4>1. to_backfillee'[i] = to_backfillee[i] /\ to_backfillee[i].item.key \in Nat
            /\ to_backfillee[i].item.key < k
        BY <1>7, <2>2, <2>3, <3>1
      <4>2. /\ to_backfillee[i].item.key > Reached
            /\ to_backfillee[i].item.key > Reached + 1 =>
                   \E j \in DOMAIN to_backfillee :
                       /\ to_backfillee[j].type = "items"
                       /\ to_backfillee[j].item.key = to_backfillee[i].item.key - 1
        BY <2>3, <3>1, <4>1, Zenon DEF Contiguous
      <4>3. to_backfillee[i].item.key > Reached + 1 =>
                   \E j \in DOMAIN to_backfillee' :
                       /\ to_backfillee'[j].type = "items"
                       /\ to_backfillee'[j].item.key = to_backfillee[i].item.key - 1
        BY <1>7, <4>2, Zenon
      <4> QED
        BY <1>2, <4>1, <4>2, <4>3
    <3>2. CASE i = n /\ to_backfillee'[i].item.key = k
      <4>1. k > Reached + 1 => \E j \in DOMAIN to_backfillee :
                       /\ to_backfillee[j].type = "items"
                       /\ to_backfillee[j].item.key = backfiller.session
        BY <1>2, <1>13 DEF Contiguous
      <4>2. k > Reached + 1 => \E j \in DOMAIN to_backfillee' :
                       /\ to_backfillee'[j].type = "items"
                       /\ to_backfillee'[j].item.key = k - 1
        BY <1>2, <1>7, <4>1, Zenon
      <4> QED
        BY <1>2, <1>13, <3>2, <4>2
    <3> QED
      BY <2>2, <2>3, <3>1, <3>2, Zenon
  <2>4. ASSUME NEW i \in DOMAIN to_backfillee', NEW j \in DOMAIN to_backfillee', i < j,
               to_backfillee'[i].type = "items", to_backfillee'[j].type = "items"
        PROVE  to_backfillee'[i].item.key < to_backfillee'[j].item.key
    <3>1. i # n
      BY <1>7, <2>2, <2>4
    <3>2. i \in DOMAIN to_backfillee /\ to_backfillee'[i] = to_backfillee[i]
          /\ to_backfillee[i].item.key < k
      BY <2>2, <2>4, <3>1, Zenon
    <3>3. CASE j = n /\ to_backfillee'[j].item.key = k
      BY <3>2, <3>3, Zenon
    <3>4. CASE j \in DOMAIN to_backfillee /\ to_backfillee'[j] = to_backfillee[j]
      BY <2>4, <3>2, <3>4, Zenon DEF Contiguous
    <3> QED
      BY <2>2, <2>4, <3>3, <3>4, Zenon
  <2>5. /\ Reached <= k
        /\ \E j \in DOMAIN to_backfillee' :
               to_backfillee'[j].type = "items" /\ to_backfillee'[j].item.key = k
    BY <1>2, <1>5, <1>6, <1>7, <1>13
  <2> QED
    BY <1>8, <1>9, <1>10, <2>1, <2>3, <2>4, <2>5, Zenon DEF Contiguous
<1>19. k <= pre.sent /\ pre.sent \in Nat /\ backfiller.pre_right <= pre.sent
  BY <1>2, <1>12, PreTypes DEF PreOrder
<1>20. meta[k] <= pstore
  <2>1. meta[k] <= client.subscribed \/ meta[k] <= backfiller.common[k]
    BY <1>2, <1>12, <1>13 DEF Untouched
  <2>2. /\ meta[k] \in Int /\ client.subscribed \in Nat /\ client.start \in Nat
        /\ backfiller.common[k] \in Nat
    <3>1. meta[k] \in Int
      BY <1>2 DEF Types, Old
    <3> QED
      BY <1>2, <3>1, ClientTypes, PreTypes, Zenon
  <2>3. client.subscribed <= client.start /\ client.start <= pstore
    BY <1>11, Zenon DEF Frontier
  <2>4. backfiller.common[k] <= pstore
    BY <1>2, <1>12, Zenon DEF Untouched
  <2> QED
    BY <1>4, <2>1, <2>2, <2>3, <2>4
<1>21. ~ has => store[k] = Content(k, pstore)
  <2> SUFFICES ASSUME ~ has PROVE store[k] = Content(k, pstore)
    BY Zenon
  <2>1. k \notin backfiller.pre_items
        /\ \A t \in backfiller.common[k] + 1 .. pstore : k \notin log[t]
    BY Zenon DEF has, NeedsItem, k
  <2>2. k \in threshold + 1 .. pre.sent
    BY <1>2, <1>13, <1>19
  <2>3. \A y \in InFlight : y.key # k
    BY <1>2, <1>13
  <2>4. \A i \in DOMAIN to_backfiller : to_backfiller[i].type = "pre_items" =>
            to_backfiller[i].key # k
    <3>1. \A i \in DOMAIN to_backfiller : to_backfiller[i].type = "pre_items" =>
              to_backfiller[i].key \in backfiller.pre_right + 1 .. pre.sent
      BY <1>12, Zenon DEF PreOrder
    <3> QED
      BY <1>2, <3>1, PreTypes
  <2>5. store[k] = Content(k, backfiller.common[k])
    BY <1>12, <2>1, <2>2, <2>3, <2>4, Zenon DEF Known
  <2>6. backfiller.common[k] \in Nat /\ backfiller.common[k] <= pstore
    BY <1>2, <1>12, PreTypes, Zenon DEF Untouched
  <2> DEFINE c == backfiller.common[k]
  <2>7. c \in Nat /\ c <= pstore /\ \A t \in c + 1 .. pstore : k \notin log[t]
    BY <2>1, <2>6, Zenon
  <2> HIDE DEF c
  <2>8. Content(k, pstore) = Content(k, c)
    <3>1. \A t : t \in 1 .. pstore <=> t \in 1 .. c \/ t \in c + 1 .. pstore
      BY <1>4, <2>7
    <3> QED
      BY <2>7, <3>1, Zenon DEF Content
  <2> QED
    BY <2>5, <2>8, Zenon DEF c
<1>22. client.start <= pstore /\ get_max_timestamp(client.tracker) <= pstore
  <2>1. threshold < NumKeys
    BY <1>2, <1>13
  <2> QED
    BY <1>11, <2>1, Zenon DEF Frontier
<1>23. ItemsTrue'
  <2>1. ASSUME NEW y \in InFlight'
        PROVE  /\ y.key <= pre.sent /\ y.version = backfiller'.common[y.key]
               /\ client.start <= y.version /\ meta[y.key] <= y.version /\ y.version <= pstore
               /\ ~ y.has => store[y.key] = Content(y.key, y.version)
               /\ ~ session.refused => get_max_timestamp(client.tracker) <= y.version
    <3>1. CASE y = x
      BY <1>4, <1>5, <1>8, <1>19, <1>20, <1>21, <1>22, <3>1
    <3>2. CASE y \in InFlight
      <4>1. y.key # k /\ y.key \in Keys
        BY <1>2, <1>13, <3>2, InFlightTypes
      <4> QED
        BY <1>8, <3>2, <4>1, Zenon DEF ItemsTrue
    <3> QED
      BY <1>14, <3>1, <3>2, ZenonT(40)
  <2>2. ASSUME NEW y \in InFlight', NEW z \in InFlight', y.key < z.key
        PROVE  y.version <= z.version
    <3>1. CASE z = x
      BY <1>5, <2>1, <3>1, Zenon
    <3>2. CASE z \in InFlight
      <4>1. y \in InFlight
        <5>1. z.key \in Nat /\ z.key < k
          BY <1>13, <3>2, Zenon
        <5>2. y # x
          BY <1>2, <1>5, <2>2, <5>1
        <5> QED
          BY <1>14, <5>2, Zenon
      <4> QED
        BY <2>2, <3>2, <4>1, Zenon DEF ItemsTrue
    <3> QED
      BY <1>14, <3>1, <3>2, Zenon
  <2> QED
    BY <1>9, <2>1, <2>2, ContentSame DEF ItemsTrue
<1>24. PreOrder'
  BY <1>8, <1>9, <1>12, Zenon DEF PreOrder, Backfilling
<1>25. Untouched'
  <2>1. \A l \in Keys : backfiller'.common[l] <= pstore
    BY <1>4, <1>8, <1>12 DEF Untouched
  <2>2. \A l \in threshold + 1 .. NumKeys :
            meta[l] <= client.subscribed \/ meta[l] <= backfiller'.common[l]
    <3>1. \A l \in threshold + 1 .. NumKeys : l \in Keys
      BY <1>13 DEF Keys
    <3> QED
      BY <1>8, <1>12, <1>20, <3>1, Zenon DEF Untouched
  <2>3. \A l \in pre.sent + 1 .. NumKeys : l \in Keys /\ l # k
    BY <1>2, <1>19 DEF Keys
  <2> QED
    BY <1>8, <1>9, <1>10, <1>12, <2>1, <2>2, <2>3, ZenonT(40) DEF Untouched
<1>26. Known'
  <2> SUFFICES ASSUME NEW l \in threshold + 1 .. pre.sent
               PROVE  \/ \E y \in InFlight' : y.key = l
                      \/ store[l] = Content(l, backfiller'.common[l])
                      \/ l \in backfiller'.pre_items
                      \/ \E i \in DOMAIN to_backfiller :
                             /\ to_backfiller[i].type = "pre_items"
                             /\ to_backfiller[i].key = l /\ to_backfiller[i].has
    BY <1>9, <1>10, ContentSame DEF Known
  <2>1. CASE l = k
    BY <1>5, <1>14, <2>1, Zenon
  <2>2. CASE l # k
    <3>1. l \in Keys
      BY PreTypes, <1>2, <1>13 DEF Keys
    <3> QED
      BY <1>8, <1>12, <1>14, <2>2, <3>1 DEF Known
  <2> QED
    BY <2>1, <2>2, Zenon
<1>27. Inv'
  BY <1>15, <1>16, <1>17, <1>18, <1>23, <1>24, <1>25, <1>26, Zenon
<1>28. \A y \in InFlight' : y \in InFlight \/ y.key = backfiller.session + 1
  <2>1. x.key = backfiller.session + 1
    BY <1>5, Zenon DEF k
  <2> QED
    BY <1>14, <2>1, Zenon
<1> QED
  BY <1>27, <1>28, Zenon

\* The chunk that comes is the next one.
LEMMA OnItemsStep ==
  ASSUME Inv, OnBackfillerMessage, Head(to_backfillee).type = "items"
  PROVE  Inv' /\ InFlight' = InFlight
<1> USE DEF Inv
<1> DEFINE m == Head(to_backfillee)
           x == m.item
           n == Len(session.items) + 1
<1>1. /\ UNCHANGED <<log, pstore, remote, writes, client, backfiller, to_backfiller,
                     tokens, store, meta>>
      /\ to_backfillee # <<>> /\ to_backfillee' = Tail(to_backfillee)
      /\ session' = [session EXCEPT !.items = Append(@, x), !.mem_size = @ + Size(x.has),
                                    !.unacked = @ + Size(x.has)]
      /\ pre' = pre
  BY Zenon DEF OnBackfillerMessage, primary_vars, dispatch_vars, store_vars
<1>2. /\ to_backfillee' \in Seq(ToBackfillee) /\ m \in ToBackfillee
      /\ \A i \in DOMAIN to_backfillee' :
             i \in Nat /\ i + 1 \in DOMAIN to_backfillee /\ to_backfillee'[i] = to_backfillee[i + 1]
      /\ \A i \in DOMAIN to_backfillee : i # 1 =>
             i - 1 \in DOMAIN to_backfillee' /\ to_backfillee'[i - 1] = to_backfillee[i]
      /\ \A i \in DOMAIN to_backfillee : i \in Nat /\ i >= 1
      /\ \A i \in DOMAIN to_backfillee' : 1 < i + 1
      /\ 1 \in DOMAIN to_backfillee /\ to_backfillee[1] = m /\ m.type = "items"
  <2>1. /\ to_backfillee' \in Seq(ToBackfillee) /\ m \in ToBackfillee
        /\ \A i \in DOMAIN to_backfillee' :
               i \in Nat /\ i + 1 \in DOMAIN to_backfillee /\ to_backfillee'[i] = to_backfillee[i + 1]
        /\ \A i \in DOMAIN to_backfillee : i # 1 =>
               i - 1 \in DOMAIN to_backfillee' /\ to_backfillee'[i - 1] = to_backfillee[i]
        /\ 1 \in DOMAIN to_backfillee /\ to_backfillee[1] = m
        /\ Len(to_backfillee) \in Nat /\ DOMAIN to_backfillee = 1 .. Len(to_backfillee)
    BY <1>1, TailProps DEF Types
  <2>2. \A i \in DOMAIN to_backfillee' : i >= 1
    BY <2>1
  <2> QED
    BY <2>1, <2>2
<1>3. x \in Item /\ x.key \in Keys /\ x.has \in BOOLEAN /\ Size(x.has) \in Int
  BY <1>2, ToBackfilleeTypes, ItemTypes DEF Size
<1>4. Pending(to_backfillee, "items")
  BY <1>2, Zenon DEF Pending
<1>5. /\ client.phase = "session" /\ ~ session.got_ack
      /\ ~ Pending(to_backfiller, "begin_session")
  BY <1>4, Zenon DEF Protocol
<1>6. Reached \in Nat /\ x.key = Reached + 1
  <2>1. Reached \in Nat
    BY SessionTypes DEF Reached
  <2>2. x.key > Reached
    BY <1>2, Zenon DEF Contiguous
  <2>3. ~ (x.key > Reached + 1)
    <3> SUFFICES ASSUME x.key > Reached + 1 PROVE FALSE
      BY Zenon
    <3>1. PICK j \in DOMAIN to_backfillee :
              to_backfillee[j].type = "items" /\ to_backfillee[j].item.key = x.key - 1
      <4>1. /\ 1 \in DOMAIN to_backfillee /\ to_backfillee[1].type = "items"
            /\ to_backfillee[1].item.key = x.key
        BY <1>2, Zenon
      <4> HIDE DEF x
      <4> QED
        BY <4>1, Zenon DEF Contiguous
    <3>2. CASE j = 1
      BY <1>2, <1>3, <3>1, <3>2 DEF Keys
    <3>3. CASE j # 1
      <4>1. 1 < j
        BY <1>2, <3>3
      <4>2. to_backfillee[1].item.key < to_backfillee[j].item.key
        BY <1>2, <3>1, <4>1, Zenon DEF Contiguous
      <4>3. x.key < to_backfillee[j].item.key
        BY <1>2, <4>2, Zenon
      <4> QED
        BY <1>3, <3>1, <4>3 DEF Keys
    <3> QED
      BY <3>2, <3>3, Zenon
  <2> QED
    BY <1>3, <2>1, <2>2, <2>3 DEF Keys
<1>7. \A i \in DOMAIN to_backfillee : to_backfillee[i].type = "items" /\ i # 1 =>
          x.key < to_backfillee[i].item.key
  BY <1>2 DEF Contiguous
<1> HIDE DEF x
<1>8. /\ session' \in Session /\ session'.threshold = session.threshold
      /\ session'.items = Append(session.items, x) /\ session'.sent_end = session.sent_end
      /\ session'.got_ack = session.got_ack /\ session'.refused = session.refused
  <2>1. session \in Session /\ session.items \in Seq(Item) /\ session.mem_size + Size(x.has) \in Int
        /\ session.unacked + Size(x.has) \in Int
    <3>1. session \in Session
      BY Zenon DEF Types
    <3>2. session.items \in Seq(Item) /\ session.mem_size \in Int /\ session.unacked \in Int
      BY SessionTypes, Zenon
    <3> QED
      BY <1>3, <3>1, <3>2
  <2>2. Append(session.items, x) \in Seq(Item)
    BY <1>3, <2>1
  <2> QED
    BY <1>1, <2>1, <2>2, Zenon DEF Session
<1>9. /\ DOMAIN session'.items = DOMAIN session.items \cup {n} /\ session'.items[n] = x
      /\ Len(session'.items) = n /\ n \in Nat
      /\ \A i \in DOMAIN session.items : session'.items[i] = session.items[i]
  BY SessionTypes, <1>3, <1>8, AppendProps
<1>10. Reached' = Reached + 1 /\ x.key = session.threshold + n
  BY <1>6, <1>8, <1>9, SessionTypes DEF Reached
<1> HIDE DEF n
<1>11. UNCHANGED <<log, pstore, remote, writes, client, backfiller, to_backfiller, pre,
                   tokens, store, meta>>
  BY <1>1, Zenon
<1>12. threshold' = threshold
  BY <1>11, Zenon DEF threshold
<1>13. InFlight' = InFlight
  <2>1. \A y : y \in InFlight' => y \in InFlight
    BY <1>2, <1>9 DEF InFlight, x
  <2>2. \A y : y \in InFlight => y \in InFlight'
    <3> SUFFICES ASSUME NEW y \in InFlight PROVE y \in InFlight'
      BY Zenon
    <3>1. CASE \E i \in DOMAIN session.items : y = session.items[i]
      BY <3>1, <1>9, Zenon DEF InFlight
    <3>2. CASE \E i \in DOMAIN to_backfillee :
                   to_backfillee[i].type = "items" /\ y = to_backfillee[i].item
      <4>1. PICK i \in DOMAIN to_backfillee :
                   to_backfillee[i].type = "items" /\ y = to_backfillee[i].item
        BY <3>2, Zenon
      <4>2. CASE i = 1
        <5>1. n \in DOMAIN session'.items /\ y = session'.items[n]
          BY <1>2, <1>9, <4>1, <4>2, Zenon DEF x
        <5> QED
          BY <5>1, Zenon DEF InFlight
      <4>3. CASE i # 1
        BY <1>2, <4>1, <4>3 DEF InFlight
      <4> QED
        BY <4>2, <4>3, Zenon
    <3> QED
      BY <3>1, <3>2, Zenon DEF InFlight
  <2> QED
    BY <2>1, <2>2, Zenon
<1>14. Types'
  BY <1>2, <1>8, <1>11, Zenon DEF Types
<1>15. Bounded' /\ True' /\ TokensInOrder' /\ Streamed' /\ Frontier'
  BY <1>11, <1>12, ContentSame, Zenon DEF Bounded, True, TokensInOrder, Streamed, Frontier
<1>16. Protocol'
  <2>1. Pending(to_backfillee', "ack_end_session") <=> Pending(to_backfillee, "ack_end_session")
    BY <1>1, Rest, Zenon DEF Types
  <2>2. \A i, j \in DOMAIN to_backfillee' :
           to_backfillee'[i].type = "ack_end_session" =>
               /\ to_backfillee'[j].type = "ack_end_session" => i = j
               /\ to_backfillee'[j].type = "items" => j < i
    <3> SUFFICES ASSUME NEW i \in DOMAIN to_backfillee', NEW j \in DOMAIN to_backfillee',
                        to_backfillee'[i].type = "ack_end_session"
                 PROVE  /\ to_backfillee'[j].type = "ack_end_session" => i = j
                        /\ to_backfillee'[j].type = "items" => j < i
      BY Zenon
    <3>1. /\ to_backfillee'[j].type = "ack_end_session" => i + 1 = j + 1
          /\ to_backfillee'[j].type = "items" => j + 1 < i + 1
      BY <1>2, ZenonT(40) DEF Protocol
    <3> QED
      BY <1>2, <3>1
  <2>3. \A i \in DOMAIN to_backfiller : to_backfiller[i].type # "begin_session"
    BY <1>5, ZenonT(40) DEF Pending
  <2> QED
    BY <1>5, <1>8, <1>11, <1>12, <2>1, <2>2, <2>3, Zenon DEF Protocol
<1>17. Contiguous'
  <2>1. Reached' <= NumKeys
    BY <1>3, <1>6, <1>10 DEF Keys
  <2>2. \A i \in DOMAIN session'.items : session'.items[i].key = session'.threshold + i
    BY <1>8, <1>9, <1>10, Zenon DEF Contiguous
  <2>3. ASSUME NEW i \in DOMAIN to_backfillee', to_backfillee'[i].type = "items"
        PROVE  /\ to_backfillee'[i].item.key > Reached'
               /\ backfiller.session # None => to_backfillee'[i].item.key <= backfiller.session
               /\ to_backfillee'[i].item.key > Reached' + 1 =>
                      \E j \in DOMAIN to_backfillee' :
                          /\ to_backfillee'[j].type = "items"
                          /\ to_backfillee'[j].item.key = to_backfillee'[i].item.key - 1
    <3> DEFINE key == to_backfillee'[i].item.key
    <3>1. /\ i + 1 \in DOMAIN to_backfillee /\ to_backfillee'[i] = to_backfillee[i + 1] /\ i + 1 # 1
      BY <1>2
    <3>2. x.key < key
      BY <1>7, <2>3, <3>1, Zenon
    <3>3. key \in Nat
      BY <1>2, <2>3, ToBackfilleeTypes, ItemTypes DEF Keys
    <3>4. backfiller.session # None => key <= backfiller.session
      BY <2>3, <3>1, Zenon DEF Contiguous
    <3>5. ASSUME key > Reached' + 1
          PROVE  \E j \in DOMAIN to_backfillee' :
                     to_backfillee'[j].type = "items" /\ to_backfillee'[j].item.key = key - 1
      <4>1. to_backfillee[i + 1].type = "items" /\ to_backfillee[i + 1].item.key = key
        BY <2>3, <3>1, Zenon
      <4> HIDE DEF key
      <4>3. PICK j \in DOMAIN to_backfillee :
                     to_backfillee[j].type = "items" /\ to_backfillee[j].item.key = key - 1
        BY <3>1, <4>1, <1>6, <1>10, <3>3, <3>5 DEF Contiguous
      <4>4. j # 1
        BY <1>2, <1>6, <1>10, <3>3, <3>5, <4>3 DEF x
      <4>5. j - 1 \in DOMAIN to_backfillee' /\ to_backfillee'[j - 1] = to_backfillee[j]
        BY <1>2, <4>4
      <4> QED
        BY <4>3, <4>5, Zenon
    <3> QED
      BY <1>6, <1>10, <3>2, <3>3, <3>4, <3>5, Zenon
  <2>4. \A i, j \in DOMAIN to_backfillee' :
            /\ i < j /\ to_backfillee'[i].type = "items" /\ to_backfillee'[j].type = "items"
            => to_backfillee'[i].item.key < to_backfillee'[j].item.key
    BY <1>2 DEF Contiguous
  <2>5. ASSUME backfiller.session # None
        PROVE  /\ Reached' <= backfiller.session
               /\ backfiller.session > Reached' =>
                      \E j \in DOMAIN to_backfillee' :
                          /\ to_backfillee'[j].type = "items"
                          /\ to_backfillee'[j].item.key = backfiller.session
    <3>2. ASSUME backfiller.session > Reached'
          PROVE  \E j \in DOMAIN to_backfillee' :
                     /\ to_backfillee'[j].type = "items"
                     /\ to_backfillee'[j].item.key = backfiller.session
      <4>1. backfiller.session \in Nat
        BY <2>5, PreTypes
      <4>2. PICK j \in DOMAIN to_backfillee :
                     to_backfillee[j].type = "items" /\ to_backfillee[j].item.key = backfiller.session
        BY <1>6, <1>10, <2>5, <3>2, <4>1 DEF Contiguous
      <4>3. j # 1
        BY <1>2, <1>6, <1>10, <3>2, <4>1, <4>2 DEF x
      <4> QED
        BY <1>2, <4>2, <4>3
    <3> QED
      BY <1>6, <1>10, <1>2, <2>5, <3>2 DEF Contiguous, x
  <2> QED
    BY <1>11, <2>1, <2>2, <2>3, <2>4, <2>5, Zenon DEF Contiguous
<1>18. ItemsTrue'
  BY <1>8, <1>11, <1>13, ContentSame, ZenonT(40) DEF ItemsTrue
<1>19. PreOrder' /\ Untouched'
  BY <1>11, <1>12, ZenonT(40) DEF PreOrder, Untouched, Backfilling
<1>20. Known'
  BY <1>11, <1>12, <1>13, ContentSame DEF Known, Backfilling
<1> QED
  BY <1>14, <1>15, <1>16, <1>17, <1>18, <1>19, <1>20, <1>13, Zenon

\* What lies beyond a later threshold lies beyond an earlier one.
LEMMA Suffix ==
  ASSUME NEW a \in Nat, NEW b \in Nat, a <= b, NEW n \in Nat, NEW l \in b + 1 .. n
  PROVE  l \in a + 1 .. n /\ l \in 1 .. n /\ l # b
OBVIOUS

\* A chunk brings its key to the version it says, and the tracker hears of it
\* unless the session has been told to end.
LEMMA CommitStep ==
  ASSUME NatIsWellOrdered, Inv, NEW more \in BOOLEAN, Commit(more)
  PROVE  /\ Inv' /\ \A y \in InFlight' : y \in InFlight
         /\ \E x \in InFlight : x.key = session.threshold + 1
         /\ threshold' = IF session.refused THEN threshold ELSE session.threshold + 1
<1> USE DEF Inv
<1> DEFINE x == Head(session.items)
           k == x.key
           v == x.version
           tr == client.tracker
           tr2 == record_backfill(tr, k, v)
           ends == ~ session.refused /\ ~ more
<1>1. /\ UNCHANGED <<log, pstore, remote, writes, pre, backfiller, to_backfillee, tokens>>
      /\ client.phase = "session" /\ session.items # <<>>
  BY Zenon DEF Commit, primary_vars, dispatch_vars
<1>2. /\ ~ more => ~ session.refused
      /\ store' = IF x.has THEN [store EXCEPT ![k] = Content(k, v)] ELSE store
      /\ meta' = [meta EXCEPT ![k] = v]
      /\ client' = IF ~ session.refused THEN [client EXCEPT !.tracker = tr2] ELSE client
      /\ session' = [session EXCEPT !.items = Tail(@), !.mem_size = @ - Size(x.has),
                                    !.threshold = k, !.refused = @ \/ ~ more,
                                    !.sent_end = @ \/ ends]
      /\ to_backfiller' = to_backfiller \o IF ends THEN EndMessages ELSE <<>>
  BY Zenon DEF Commit
<1>3. /\ session.items \in Seq(Item) /\ x = session.items[1] /\ x \in Item
      /\ 1 \in DOMAIN session.items /\ DOMAIN session.items = 1 .. Len(session.items)
      /\ Len(session.items) \in Nat /\ Len(session.items) >= 1
      /\ Tail(session.items) \in Seq(Item) /\ Len(Tail(session.items)) = Len(session.items) - 1
      /\ DOMAIN Tail(session.items) = 1 .. Len(session.items) - 1
      /\ \A i \in 1 .. Len(session.items) - 1 : Tail(session.items)[i] = session.items[i + 1]
  <2> DEFINE s == session.items
  <2>1. s \in Seq(Item) /\ s # <<>>
    BY <1>1, SessionTypes, Zenon
  <2> HIDE DEF s
  <2>2. /\ Head(s) = s[1] /\ s[1] \in Item /\ 1 \in DOMAIN s /\ DOMAIN s = 1 .. Len(s)
        /\ Len(s) \in Nat /\ Len(s) >= 1
        /\ Tail(s) \in Seq(Item) /\ Len(Tail(s)) = Len(s) - 1 /\ DOMAIN Tail(s) = 1 .. Len(s) - 1
        /\ \A i \in 1 .. Len(s) - 1 : Tail(s)[i] = s[i + 1]
    BY <2>1
  <2> QED
    BY <2>1, <2>2, Zenon DEF s
<1> HIDE DEF x
<1>4. /\ k \in Keys /\ v \in Nat /\ x.has \in BOOLEAN /\ x \in InFlight
      /\ k = session.threshold + 1 /\ session.threshold \in Nat /\ k <= NumKeys /\ NumKeys \in Nat
  <2>1. k = session.threshold + 1 /\ session.threshold \in Nat
    BY <1>3, SessionTypes DEF Contiguous
  <2>2. x \in InFlight
    BY <1>3, Zenon DEF InFlight
  <2> QED
    BY <1>3, <2>1, <2>2, ItemTypes, BoundsAssumption DEF Keys
<1>5. /\ k <= pre.sent /\ v = backfiller.common[k] /\ meta[k] <= v /\ v <= pstore
      /\ ~ x.has => store[k] = Content(k, v)
      /\ ~ session.refused => get_max_timestamp(tr) <= v
      /\ \A y \in InFlight : k < y.key => v <= y.version
  BY <1>4, Zenon DEF ItemsTrue
<1>6. /\ store' \in [Keys -> SUBSET Int] /\ meta' \in [Keys -> {Old} \cup Nat]
      /\ store'[k] = Content(k, v) /\ meta'[k] = v
      /\ \A l \in Keys : l # k => store'[l] = store[l] /\ meta'[l] = meta[l]
  <2>1. store \in [Keys -> SUBSET Int] /\ meta \in [Keys -> {Old} \cup Nat]
    BY Zenon DEF Types
  <2>2. Content(k, v) \in SUBSET Int
    BY <1>4 DEF Content
  <2> HIDE DEF k, v
  <2>3. meta' \in [Keys -> {Old} \cup Nat] /\ meta'[k] = v /\ \A l \in Keys : l # k => meta'[l] = meta[l]
    BY <1>2, <1>4, <2>1, Zenon
  <2>4. /\ store' \in [Keys -> SUBSET Int] /\ store'[k] = Content(k, v)
        /\ \A l \in Keys : l # k => store'[l] = store[l]
    <3>1. CASE x.has
      BY <1>2, <1>4, <2>1, <2>2, <3>1, Zenon
    <3>2. CASE ~ x.has
      BY <1>2, <1>4, <1>5, <2>1, <3>2, Zenon
    <3> QED
      BY <1>4, <3>1, <3>2, Zenon
  <2> QED
    BY <2>3, <2>4, Zenon
<1>7. /\ IsTracker(tr) /\ Ordered(tr, NumKeys) /\ tr.prev = client.completed
      /\ threshold = get_backfill_threshold(tr) /\ threshold \in Nat
      /\ threshold <= session.threshold /\ threshold < k
      /\ session.refused \/ threshold = session.threshold
      /\ threshold <= NumKeys
  <2>1. /\ IsTracker(tr) /\ Ordered(tr, NumKeys) /\ tr.prev = client.completed
        /\ threshold = get_backfill_threshold(tr) /\ threshold \in Nat
    BY <1>1, ClientTypes, Zenon DEF Streamed, threshold
  <2>2. threshold <= session.threshold /\ (session.refused \/ threshold = session.threshold)
    BY <1>1, ZenonT(40) DEF Protocol
  <2> QED
    BY <1>4, <2>1, <2>2
<1>8. ~ session.refused =>
          /\ IsTracker(tr2) /\ Ordered(tr2, NumKeys) /\ tr2.prev = tr.prev
          /\ get_backfill_threshold(tr2) = k /\ get_max_timestamp(tr2) = v
          /\ \A key \in 1 .. k :
                 TimestampOf(tr2, key) = IF key <= threshold THEN TimestampOf(tr, key) ELSE v
  <2> SUFFICES ASSUME ~ session.refused
               PROVE  /\ IsTracker(tr2) /\ Ordered(tr2, NumKeys) /\ tr2.prev = tr.prev
                      /\ get_backfill_threshold(tr2) = k /\ get_max_timestamp(tr2) = v
                      /\ \A key \in 1 .. k : TimestampOf(tr2, key) =
                             IF key <= threshold THEN TimestampOf(tr, key) ELSE v
    BY Zenon
  <2>1. /\ NumKeys \in Nat /\ k \in 1 .. NumKeys /\ get_backfill_threshold(tr) < k /\ v \in Nat
        /\ get_max_timestamp(tr) <= v
    BY <1>4, <1>5, <1>7, Zenon DEF Keys
  <2> HIDE DEF tr, k, v
  <2> QED
    BY <1>7, <2>1, BackfillExtend
<1> HIDE DEF tr2
<1>9. /\ client' \in Client /\ client'.phase = "session" /\ client'.completed = client.completed
      /\ client'.subscribed = client.subscribed /\ client'.start = client.start
      /\ client'.tracker = IF ~ session.refused THEN tr2 ELSE tr
  BY <1>1, <1>2, <1>8, Zenon DEF Types, Client, IsTracker
<1>10. /\ ~ session.refused =>
              threshold' = k /\ get_max_timestamp(client'.tracker) = v
       /\ session.refused =>
              threshold' = threshold /\ client'.tracker = tr
  BY <1>7, <1>8, <1>9, Zenon DEF threshold
<1>11. /\ session' \in Session /\ session'.items = Tail(session.items) /\ session'.threshold = k
       /\ session'.got_ack = session.got_ack
       /\ session'.refused = (session.refused \/ ~ more)
       /\ session'.sent_end = (session.sent_end \/ ends)
  <2>2. session.mem_size - Size(x.has) \in Int /\ k \in 0 .. NumKeys
    BY <1>4, SessionTypes DEF Size
  <2> DEFINE re == session.refused \/ ~ more
             se == session.sent_end \/ ends
  <2> HIDE DEF re, se, k
  <2> QED
    BY <1>3, <2>2, <1>2, Zenon DEF re, se, Session, Types
<1>12. /\ ~ Pending(to_backfiller, "begin_session")
       /\ ~ session.refused => ~ session.sent_end /\ ~ Pending(to_backfiller, "end_session")
                               /\ backfiller.session # None
  <2>1. ~ Pending(to_backfiller, "begin_session")
    BY <1>1, Zenon DEF Protocol
  <2>2. session.threshold # NumKeys
    BY <1>4
  <2>3. ~ session.refused => ~ session.sent_end
    BY <2>2, Zenon DEF Protocol
  <2> QED
    BY <1>1, <2>1, <2>3, Zenon DEF Protocol
<1>13. /\ to_backfiller' \in Seq(ToBackfiller)
       /\ ~ Pending(to_backfiller', "begin_session")
       /\ \A i \in DOMAIN to_backfiller' : to_backfiller'[i].type = "pre_items" =>
              i \in DOMAIN to_backfiller /\ to_backfiller'[i] = to_backfiller[i]
       /\ \A i \in DOMAIN to_backfiller :
              i \in DOMAIN to_backfiller' /\ to_backfiller'[i] = to_backfiller[i]
       /\ \A i, j \in DOMAIN to_backfiller' :
              to_backfiller'[i].type = "end_session" /\ to_backfiller'[j].type = "end_session" => i = j
       /\ Pending(to_backfiller', "end_session") => Pending(to_backfiller, "end_session") \/ ends
  <2>1. to_backfiller \in Seq(ToBackfiller)
    BY Zenon DEF Types
  <2>2. CASE ends
    BY <1>2, <1>12, <2>2, <2>1, MoreEnd, ZenonT(40)
  <2>3. CASE ~ ends
    <3>1. to_backfiller' = to_backfiller
      BY <1>2, <2>1, <2>3
    <3> QED
      BY <1>12, <2>1, <3>1, Zenon DEF Protocol
  <2> QED
    BY <2>2, <2>3, Zenon
<1>14. /\ UNCHANGED <<log, pstore, remote, writes, pre, backfiller, to_backfillee, tokens>>
       /\ client.phase = "session" /\ Backfilling /\ Backfilling'
  BY <1>1, <1>9, Zenon DEF Backfilling
<1> HIDE DEF ends, k, v, tr
<1>15. Reached' = Reached
  BY <1>4, <1>11, <1>3 DEF Reached
<1>16. /\ \A y \in InFlight' : y \in InFlight /\ y.key \in Keys /\ k < y.key
       /\ \A y \in InFlight : y.key # k => y \in InFlight'
  <2>1. \A i \in DOMAIN to_backfillee : to_backfillee[i].type = "items" =>
            /\ to_backfillee[i].item \in InFlight /\ to_backfillee[i].item.key \in Keys
            /\ k < to_backfillee[i].item.key
    <3> TAKE i \in DOMAIN to_backfillee
    <3> HAVE to_backfillee[i].type = "items"
    <3>1. to_backfillee[i].item \in InFlight /\ to_backfillee[i].item.key > Reached
      BY Zenon DEF InFlight, Contiguous
    <3>2. to_backfillee[i].item.key \in Keys
      BY <3>1, InFlightTypes, Zenon
    <3>3. k <= Reached /\ Reached \in Nat
      BY <1>3, <1>4 DEF Reached
    <3> QED
      BY <1>4, <3>1, <3>2, <3>3 DEF Keys
  <2>2. \A i \in 1 .. Len(session.items) - 1 :
            /\ session.items[i + 1] \in InFlight /\ session.items[i + 1].key \in Keys
            /\ k < session.items[i + 1].key
    <3> TAKE i \in 1 .. Len(session.items) - 1
    <3>1. i + 1 \in DOMAIN session.items
      BY <1>3
    <3>2. session.items[i + 1] \in InFlight /\ session.items[i + 1].key = session.threshold + (i + 1)
      BY <3>1, Zenon DEF InFlight, Contiguous
    <3>3. session.items[i + 1].key \in Keys
      BY <3>2, InFlightTypes, Zenon
    <3> QED
      BY <1>3, <1>4, <3>2, <3>3
  <2>3. ASSUME NEW y \in InFlight' PROVE y \in InFlight /\ y.key \in Keys /\ k < y.key
    <3>1. CASE \E i \in DOMAIN session'.items : y = session'.items[i]
      <4>1. PICK i \in DOMAIN session'.items : y = session'.items[i]
        BY <3>1, Zenon
      <4>2. i \in 1 .. Len(session.items) - 1 /\ y = session.items[i + 1]
        BY <1>3, <1>11, <4>1, Zenon
      <4> QED
        BY <2>2, <4>2, Zenon
    <3>2. CASE \E i \in DOMAIN to_backfillee :
                   to_backfillee[i].type = "items" /\ y = to_backfillee[i].item
      BY <2>1, <3>2, Zenon
    <3> QED
      BY <1>14, <3>1, <3>2, Zenon DEF InFlight
  <2>4. ASSUME NEW y \in InFlight, y.key # k PROVE y \in InFlight'
    <3>1. CASE \E i \in DOMAIN session.items : y = session.items[i]
      <4>1. PICK i \in DOMAIN session.items : y = session.items[i]
        BY <3>1, Zenon
      <4>2. i # 1
        BY <1>3, <2>4, <4>1, Zenon DEF k
      <4>3. /\ i - 1 \in 1 .. Len(session.items) - 1 /\ (i - 1) + 1 = i
        BY <1>3, <4>1, <4>2
      <4> QED
        BY <1>3, <1>11, <4>1, <4>3 DEF InFlight
    <3>2. CASE \E i \in DOMAIN to_backfillee :
                   to_backfillee[i].type = "items" /\ y = to_backfillee[i].item
      BY <1>14, <3>2, Zenon DEF InFlight
    <3> QED
      BY <3>1, <3>2, Zenon DEF InFlight
  <2> QED
    BY <2>3, <2>4, Zenon
<1>17. Types'
  BY <1>6, <1>9, <1>11, <1>13, <1>14, Zenon DEF Types
<1>18. Bounded'
  <2>1. \A l \in Keys : meta'[l] <= Len(log)
    <3>1. pstore \in Nat /\ Len(log) \in Nat /\ pstore <= Len(log)
      BY DEF Types, Bounded
    <3>2. meta'[k] <= Len(log)
      BY <1>4, <1>5, <1>6, <3>1 DEF v
    <3> QED
      BY <1>6, <3>2, Zenon DEF Bounded
  <2> QED
    BY <1>9, <1>14, <2>1, Zenon DEF Bounded
<1>19. True'
  <2>1. v # Old
    BY <1>4 DEF v, Old
  <2>2. \A l \in Keys : IF meta'[l] = Old THEN store'[l] \subseteq {Old}
                        ELSE store'[l] = Content(l, meta'[l])
    BY <1>6, <2>1, Zenon DEF True
  <2> QED
    BY <1>14, <2>2, ContentSame, Zenon DEF True
<1>20. TokensInOrder'
  BY <1>9, <1>14, Zenon DEF TokensInOrder
<1>21. Streamed'
  <2>1. /\ \A i \in DOMAIN tokens : tokens[i].right <= threshold
        /\ \A l \in 1 .. threshold : Chain(tokens, meta, l, TimestampOf(tr, l))
    BY <1>14, Zenon DEF Streamed, tr
  <2>2. \A l \in 1 .. threshold : meta'[l] = meta[l]
    BY <1>4, <1>6, <1>7 DEF Keys, k
  <2>3. \A l \in 1 .. threshold : Chain(tokens, meta', l, TimestampOf(tr, l))
    BY <2>1, <2>2 DEF Chain
  <2>4. Chain(tokens, meta', k, v)
    <3>1. v \in Nat /\ meta'[k] = v /\ v # Old
      BY <1>4, <1>6 DEF v, Old
    <3>2. \A i \in DOMAIN tokens : ~ (k <= tokens[i].right)
      BY <1>4, <1>7, <2>1, TokenTypes DEF Keys, k
    <3> QED
      BY <3>1, <3>2 DEF Chain
  <2>5. CASE ~ session.refused
    <3>1. client'.tracker = tr2 /\ threshold' = k
      BY <1>9, <1>10, <2>5, Zenon
    <3>2. /\ Ordered(tr2, NumKeys) /\ tr2.prev = client'.completed
          /\ \A key \in 1 .. k :
                 TimestampOf(tr2, key) = IF key <= threshold THEN TimestampOf(tr, key) ELSE v
      BY <1>7, <1>8, <1>9, <2>5, Zenon
    <3>3. \A i \in DOMAIN tokens : tokens[i].right <= k
      BY <1>4, <1>7, <2>1, TokenTypes DEF Keys, k
    <3>4. threshold = k - 1 /\ k \in Nat
      BY <1>4, <1>7, <2>5 DEF k
    <3>5. ASSUME NEW l \in 1 .. k PROVE Chain(tokens, meta', l, TimestampOf(tr2, l))
      <4>1. CASE l = k
        <5>1. TimestampOf(tr2, l) = v
          BY <1>4, <1>7, <3>2, <3>4, <4>1
        <5> QED
          BY <2>4, <4>1, <5>1, Zenon
      <4>2. CASE l # k
        <5>1. l \in 1 .. threshold /\ l <= threshold
          BY <3>4, <4>2
        <5>2. TimestampOf(tr2, l) = TimestampOf(tr, l)
          BY <3>2, <5>1, Zenon
        <5> QED
          BY <2>3, <5>1, <5>2, Zenon
      <4> QED
        BY <4>1, <4>2, Zenon
    <3> QED
      BY <1>9, <1>14, <3>1, <3>2, <3>3, <3>5, Zenon DEF Streamed
  <2>6. CASE session.refused
    <3>1. client'.tracker = tr /\ threshold' = threshold
      BY <1>10, <2>6, Zenon
    <3> QED
      BY <1>7, <1>9, <1>14, <2>1, <2>3, <3>1, Zenon DEF Streamed
  <2> QED
    BY <2>5, <2>6, Zenon
<1>22. Frontier'
  <2>1. /\ client.subscribed <= client.completed
        /\ client.subscribed <= client.start /\ client.start <= pstore
        /\ threshold < NumKeys => get_max_timestamp(tr) <= pstore
    BY <1>14, Zenon DEF Frontier, tr
  <2>2. threshold' < NumKeys => get_max_timestamp(client'.tracker) <= pstore
    BY <1>5, <1>10, <2>1, Zenon
  <2> QED
    BY <1>9, <1>14, <2>1, <2>2, Zenon DEF Frontier
<1>23. Protocol'
  <2>2. threshold' <= session'.threshold /\ (session'.refused \/ threshold' = session'.threshold)
    <3>1. k \in Nat
      BY <1>4 DEF k
    <3>2. CASE session.refused
      <4>1. session'.refused
        BY <1>11, <3>2, Zenon
      <4>2. threshold \in Nat /\ threshold' = threshold /\ threshold < k /\ session'.threshold = k
        BY <1>7, <1>10, <1>11, <3>2, Zenon
      <4> QED
        BY <3>1, <4>1, <4>2
    <3>3. CASE ~ session.refused
      <4>1. threshold' = k /\ session'.threshold = k
        BY <1>10, <1>11, <3>3, Zenon
      <4> QED
        BY <3>1, <4>1
    <3> QED
      BY <3>2, <3>3, Zenon
  <2>6. /\ backfiller.session # None =>
               ~ Pending(to_backfillee, "ack_end_session") /\ ~ session.got_ack
        /\ Pending(to_backfillee, "ack_end_session") => ~ session.got_ack
        /\ \A i, j \in DOMAIN to_backfillee :
               to_backfillee[i].type = "ack_end_session" =>
                   /\ to_backfillee[j].type = "ack_end_session" => i = j
                   /\ to_backfillee[j].type = "items" => j < i
        /\ session.got_ack => ~ Pending(to_backfillee, "items")
    BY Zenon DEF Protocol
  <2>7. session'.got_ack = session.got_ack
    BY <1>11, Zenon
  <2> QED
    BY <1>9, <1>13, <1>14, <1>11, <1>12, <2>2, <2>6, <2>7, ZenonT(40) DEF Protocol, Pending,
       ends
<1>24. Contiguous'
  <2>1. \A i \in DOMAIN session'.items : session'.items[i].key = session'.threshold + i
    <3> SUFFICES ASSUME NEW i \in DOMAIN session'.items
                 PROVE  session'.items[i].key = session'.threshold + i
      BY Zenon
    <3>1. i \in 1 .. Len(session.items) - 1 /\ session'.items[i] = session.items[i + 1]
      BY <1>3, <1>11, Zenon
    <3>2. i + 1 \in DOMAIN session.items
      BY <1>3, <3>1
    <3>3. session.items[i + 1].key = session.threshold + (i + 1)
      BY <3>2, Zenon DEF Contiguous
    <3> QED
      BY <1>4, <1>11, <3>1, <3>3 DEF k
  <2> QED
    BY <1>14, <1>15, <2>1, Zenon DEF Contiguous
<1>25. ItemsTrue'
  <2>1. ASSUME NEW y \in InFlight'
        PROVE  /\ y.key <= pre.sent /\ y.version = backfiller.common[y.key]
               /\ client'.start <= y.version /\ meta'[y.key] <= y.version /\ y.version <= pstore
               /\ ~ y.has => store'[y.key] = Content(y.key, y.version)
               /\ ~ session'.refused => get_max_timestamp(client'.tracker) <= y.version
    <3>1. y \in InFlight /\ y.key \in Keys /\ k < y.key /\ y.key # k
      BY <1>4, <1>16 DEF Keys, k
    <3> QED
      BY <1>9, <1>6, <3>1, <1>5, <1>10, <1>11, Zenon DEF ItemsTrue
  <2> QED
    BY <1>14, <2>1, <1>16, ContentSame, Zenon DEF ItemsTrue
<1>26. PreOrder'
  <2>1. client'.phase \notin {"starting", "registered"}
    BY <1>9, Zenon
  <2> QED
    BY <1>13, <1>14, <2>1, Zenon DEF PreOrder
<1>27. threshold <= threshold' /\ threshold' <= pre.sent /\ threshold' \in Nat
       /\ \A l \in threshold' + 1 .. NumKeys :
              l \in threshold + 1 .. NumKeys /\ l \in Keys /\ (l = k => session.refused)
  <2>1. threshold' \in Nat /\ threshold <= threshold' /\ threshold' <= pre.sent
        /\ (~ session.refused => threshold' = k)
    <3>1. k \in Nat /\ pre.sent \in Nat
      BY <1>4, PreTypes, BoundsAssumption DEF k
    <3>2. threshold <= pre.sent
      BY <1>14, Zenon DEF Untouched
    <3> QED
      BY <1>5, <1>7, <1>10, <3>1, <3>2
  <2>2. k \in Nat
    BY <1>4 DEF k
  <2>3. ASSUME NEW l \in threshold' + 1 .. NumKeys
        PROVE  /\ l \in threshold + 1 .. NumKeys /\ l \in Keys
               /\ l = k => session.refused
    <3>1. threshold \in Nat /\ NumKeys \in Nat
      BY <1>7, BoundsAssumption
    <3>2. l \in threshold + 1 .. NumKeys /\ l \in 1 .. NumKeys /\ l # threshold'
      BY <2>1, <3>1, Suffix, ZenonT(40)
    <3> QED
      BY <2>1, <3>2, ZenonT(40) DEF Keys
  <2> QED
    BY <2>1, <2>3, ZenonT(40)
<1>28. Untouched'
  <2>1. /\ \A l \in Keys : backfiller.common[l] <= pstore
        /\ \A l \in threshold + 1 .. NumKeys :
               meta[l] <= client.subscribed \/ meta[l] <= backfiller.common[l]
        /\ \A l \in pre.sent + 1 .. NumKeys :
               /\ pre.common[l] = backfiller.common[l]
               /\ IF meta[l] = Old THEN pre.common[l] = 0 ELSE pre.common[l] <= meta[l]
    BY <1>14, Zenon DEF Untouched
  <2>2. \A l \in threshold' + 1 .. NumKeys :
            meta'[l] <= client.subscribed \/ meta'[l] <= backfiller.common[l]
    <3>1. meta'[k] <= backfiller.common[k]
      BY <1>4, <1>5, <1>6 DEF v
    <3> QED
      BY <1>6, <1>27, <2>1, <3>1, Zenon
  <2>3. \A l \in pre.sent + 1 .. NumKeys : meta'[l] = meta[l]
    <3>1. \A l \in pre.sent + 1 .. NumKeys : l \in Keys /\ l # k
      <4>1. k \in Nat /\ k <= pre.sent /\ pre.sent \in Nat
        BY <1>4, <1>5, PreTypes, BoundsAssumption DEF k
      <4> QED
        BY <4>1 DEF Keys
    <3> QED
      BY <1>6, <3>1, Zenon
  <2> QED
    BY <1>9, <1>14, <1>27, <2>1, <2>2, <2>3, Zenon DEF Untouched
<1>29. Known'
  <2> SUFFICES ASSUME NEW l \in threshold' + 1 .. pre.sent
               PROVE  \/ \E y \in InFlight' : y.key = l
                      \/ store'[l] = Content(l, backfiller.common[l])
                      \/ l \in backfiller.pre_items
                      \/ \E i \in DOMAIN to_backfiller' :
                             /\ to_backfiller'[i].type = "pre_items"
                             /\ to_backfiller'[i].key = l /\ to_backfiller'[i].has
    BY <1>14, ContentSame DEF Known
  <2>1. l \in threshold + 1 .. pre.sent /\ l \in Keys
    <3>1. pre.sent \in 0 .. NumKeys /\ NumKeys \in Nat
      BY PreTypes, BoundsAssumption, Zenon
    <3> QED
      BY <1>7, <1>27, <3>1 DEF Keys
  <2>2. CASE l = k
    BY <1>5, <1>6, <2>2, Zenon
  <2>3. CASE l # k
    <3>1. store'[l] = store[l]
      BY <1>6, <2>1, <2>3, Zenon
    <3>2. \/ \E y \in InFlight : y.key = l
          \/ store[l] = Content(l, backfiller.common[l])
          \/ l \in backfiller.pre_items
          \/ \E i \in DOMAIN to_backfiller :
                 /\ to_backfiller[i].type = "pre_items"
                 /\ to_backfiller[i].key = l /\ to_backfiller[i].has
      BY <1>14, <2>1, Zenon DEF Known
    <3> QED
      BY <1>13, <1>16, <2>3, <3>1, <3>2, Zenon
  <2> QED
    BY <2>2, <2>3, ZenonT(40)
<1>30. Inv'
  BY <1>17, <1>18, <1>19, <1>20, <1>21, <1>22, <1>23, <1>24, <1>25, <1>26, <1>28, <1>29
<1> QED
  BY <1>30, <1>16, <1>4, <1>10, Zenon DEF k
==============================================================================
