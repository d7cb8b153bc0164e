------------------------- MODULE ItemMonitorProofs -------------------------
(***************************************************************************)
(* Proofs about the Monitor RPC: a client that was sent everything holds   *)
(* exactly what the registry holds.                                        *)
(***************************************************************************)
EXTENDS ItemMonitor, RegistryProofs

\* Every stream is in one of its stages, and what the client holds is a map of
\* ids to items, whatever the stream delivered.
LEMMA TypeCorrect == Spec => []TypeOK
<1>1. Init => TypeOK
  <2> SUFFICES ASSUME Init PROVE TypeOK
    OBVIOUS
  <2>1. RegistryTypeOK
    BY RegistryInitInv DEF Init, RegistryInv
  <2> QED
    BY <2>1 DEF Init, TypeOK, Stages, IsItemMap
<1>2. TypeOK /\ [Next]_vars => TypeOK'
  <2> SUFFICES ASSUME TypeOK, [Next]_vars PROVE TypeOK'
    OBVIOUS
  <2> USE DEF TypeOK
  <2>1. CASE UNCHANGED vars
    BY <2>1 DEF vars, RegistryTypeOK
  <2>2. CASE RegistryStep
    <3>1. RegistryTypeOK'
      BY <2>2, AddEffect, RemoveEffect DEF RegistryStep, RegistryNext
    <3> QED
      BY <2>2, <3>1 DEF RegistryStep, feedVars
  <2> SUFFICES ASSUME NEW f \in Feeds, FeedStep(f) PROVE TypeOK'
    BY <2>1, <2>2 DEF Next
  <2>3. RegistryTypeOK' \/ UNCHANGED registryVars
    BY DEF FeedStep, Subscribe, Snapshot, Deliver, EndOnLag, Drop, registryVars
  <2>4. RegistryTypeOK'
    BY <2>3 DEF RegistryTypeOK, registryVars
  <2>5. Len(log[kind[f]]) \in Nat /\ IsItemMap(contents[kind[f]])
    BY DEF RegistryTypeOK
  <2>6. CASE Subscribe(f)
    BY <2>4, <2>5, <2>6 DEF Subscribe, Stages
  <2>7. CASE Snapshot(f)
    BY <2>4, <2>5, <2>7 DEF Snapshot, Stages
  <2>8. CASE Deliver(f)
    <3>1. log[kind[f]][pos[f] + 1] \in Changes
      BY <2>8 DEF Deliver, Unseen, RegistryTypeOK
    <3>2. IsItemMap(Apply(view[f], log[kind[f]][pos[f] + 1]))
      BY <3>1 DEF Apply, Changes, IsItemMap, With, Without, Restrict
    <3> QED
      BY <2>4, <2>8, <3>2 DEF Deliver
  <2>9. CASE EndOnLag(f)
    BY <2>4, <2>9 DEF EndOnLag, Stages
  <2>10. CASE Drop(f)
    BY <2>4, <2>10 DEF Drop, Stages, IsItemMap
  <2> QED
    BY <2>6, <2>7, <2>8, <2>9, <2>10 DEF FeedStep
<1> QED
  BY <1>1, <1>2, PTL DEF Spec

-----------------------------------------------------------------------------
\* FeedInv for one feed.
OneFeedInv(f) ==
  /\ pos[f] <= Len(log[kind[f]])
  /\ stage[f] = "streaming" =>
       HeldWasAdded(f) /\ GoneWillBeRemoved(f) /\ MissingWillBeAdded(f)

\* What a step that sends one change leaves of the history.
LEMMA SentKeepsHistory ==
  ASSUME NEW k \in Kinds, NEW change, Len(log[k]) \in Nat, Sent(k, change)
  PROVE  /\ Len(log[k]) + 1 \in 1 .. Len(log'[k])
         /\ \A m \in 1 .. Len(log[k]) : m \in 1 .. Len(log'[k]) /\ log'[k][m] = log[k][m]
         /\ \A p \in Nat : p <= Len(log[k]) => Len(log[k]) + 1 \in (p + 1) .. Len(log'[k])
         /\ \A p \in Nat : \A m \in (p + 1) .. Len(log[k]) :
              m \in (p + 1) .. Len(log'[k]) /\ log'[k][m] = log[k][m]
  BY DEF Sent

\* An item that is added is not held yet, and its announcement is pending.
LEMMA AddKeepsFeed ==
  ASSUME TypeOK, RegistryInv, FeedInv, NEW f \in Feeds, NEW item \in Items,
         Add(kind[f], item), UNCHANGED feedVars
  PROVE  OneFeedInv(f)'
<1> DEFINE k == kind[f]
<1>1. /\ k \in Kinds /\ pos[f] \in Nat /\ Len(log[k]) \in Nat
      /\ stage' = stage /\ kind' = kind /\ pos' = pos /\ view' = view
  BY DEF TypeOK, RegistryTypeOK, feedVars
<1>2. /\ Sent(k, Added(next[k], item))
      /\ contents'[k] = With(contents[k], next[k], item)
  BY <1>1, AddEffect DEF RegistryInv
<1>3. /\ DOMAIN contents'[k] = DOMAIN contents[k] \cup {next[k]}
      /\ contents'[k][next[k]] = item
      /\ \A i \in DOMAIN contents[k] \ {next[k]} : contents'[k][i] = contents[k][i]
  BY <1>2 DEF With
<1>4. OneFeedInv(f)
  BY DEF FeedInv, OneFeedInv
<1> HIDE DEF k
<1>5. pos[f] <= Len(log'[k])
  BY <1>1, <1>2, <1>4 DEF OneFeedInv, Sent, k
<1>6. ASSUME stage[f] = "streaming"
      PROVE  HeldWasAdded(f)'
  BY <1>1, <1>2, <1>4, <1>6, SentKeepsHistory DEF OneFeedInv, HeldWasAdded, k
<1>7. ASSUME stage[f] = "streaming"
      PROVE  GoneWillBeRemoved(f)'
  <2> SUFFICES ASSUME NEW i \in DOMAIN view[f] \ DOMAIN contents'[k]
               PROVE  \E m \in (pos[f] + 1) .. Len(log'[k]) : log'[k][m] = Removed(i)
    BY <1>1 DEF GoneWillBeRemoved, Unseen, k
  <2>1. PICK m \in (pos[f] + 1) .. Len(log[k]) : log[k][m] = Removed(i)
    BY <1>3, <1>4, <1>7 DEF OneFeedInv, GoneWillBeRemoved, Unseen, k
  <2> QED
    BY <2>1, <1>1, <1>2, SentKeepsHistory
<1>8. ASSUME stage[f] = "streaming"
      PROVE  MissingWillBeAdded(f)'
  <2> SUFFICES ASSUME NEW i \in DOMAIN contents'[k] \ DOMAIN view[f]
               PROVE  \E m \in (pos[f] + 1) .. Len(log'[k]) :
                        log'[k][m] = Added(i, contents'[k][i])
    BY <1>1 DEF MissingWillBeAdded, Unseen, k
  <2>1. CASE i = next[k]
    <3>1. Len(log[k]) + 1 \in (pos[f] + 1) .. Len(log'[k])
      BY <1>1, <1>2, <1>4 DEF Sent, OneFeedInv, k
    <3>2. log'[k][Len(log[k]) + 1] = Added(i, contents'[k][i])
      BY <2>1, <1>2, <1>3 DEF Sent
    <3> QED
      BY <3>1, <3>2
  <2>2. CASE i # next[k]
    <3>1. PICK m \in (pos[f] + 1) .. Len(log[k]) : log[k][m] = Added(i, contents[k][i])
      BY <2>2, <1>3, <1>4, <1>8 DEF OneFeedInv, MissingWillBeAdded, Unseen, k
    <3> QED
      BY <3>1, <2>2, <1>1, <1>2, <1>3, SentKeepsHistory
  <2> QED
    BY <2>1, <2>2
<1> QED
  BY <1>1, <1>5, <1>6, <1>7, <1>8 DEF OneFeedInv, k

\* An item that is removed may still be held, and its removal is pending.
LEMMA RemoveKeepsFeed ==
  ASSUME TypeOK, RegistryInv, FeedInv, NEW f \in Feeds,
         NEW g \in DOMAIN contents[kind[f]], Remove(kind[f], g), UNCHANGED feedVars
  PROVE  OneFeedInv(f)'
<1> DEFINE k == kind[f]
<1>1. /\ k \in Kinds /\ pos[f] \in Nat /\ Len(log[k]) \in Nat
      /\ stage' = stage /\ kind' = kind /\ pos' = pos /\ view' = view
  BY DEF TypeOK, RegistryTypeOK, feedVars
<1>2. /\ Sent(k, Removed(g))
      /\ contents'[k] = Without(contents[k], g)
  BY <1>1, RemoveEffect DEF RegistryInv
<1>3. /\ DOMAIN contents'[k] = DOMAIN contents[k] \ {g}
      /\ \A i \in DOMAIN contents[k] \ {g} : contents'[k][i] = contents[k][i]
  BY <1>2 DEF Without, Restrict
<1>4. OneFeedInv(f)
  BY DEF FeedInv, OneFeedInv
<1> HIDE DEF k
<1>5. pos[f] <= Len(log'[k])
  BY <1>1, <1>2, <1>4 DEF OneFeedInv, Sent, k
<1>6. ASSUME stage[f] = "streaming"
      PROVE  HeldWasAdded(f)'
  BY <1>1, <1>2, <1>4, <1>6, SentKeepsHistory DEF OneFeedInv, HeldWasAdded, k
<1>7. ASSUME stage[f] = "streaming"
      PROVE  GoneWillBeRemoved(f)'
  <2> SUFFICES ASSUME NEW i \in DOMAIN view[f] \ DOMAIN contents'[k]
               PROVE  \E m \in (pos[f] + 1) .. Len(log'[k]) : log'[k][m] = Removed(i)
    BY <1>1 DEF GoneWillBeRemoved, Unseen, k
  <2>1. CASE i = g
    <3>1. Len(log[k]) + 1 \in (pos[f] + 1) .. Len(log'[k])
      BY <1>1, <1>2, <1>4, SentKeepsHistory DEF OneFeedInv, k
    <3>2. log'[k][Len(log[k]) + 1] = Removed(i)
      BY <2>1, <1>2 DEF Sent
    <3> QED
      BY <3>1, <3>2
  <2>2. CASE i # g
    <3>1. PICK m \in (pos[f] + 1) .. Len(log[k]) : log[k][m] = Removed(i)
      BY <2>2, <1>3, <1>4, <1>7 DEF OneFeedInv, GoneWillBeRemoved, Unseen, k
    <3> QED
      BY <3>1, <1>1, <1>2, SentKeepsHistory
  <2> QED
    BY <2>1, <2>2
<1>8. ASSUME stage[f] = "streaming"
      PROVE  MissingWillBeAdded(f)'
  <2> SUFFICES ASSUME NEW i \in DOMAIN contents'[k] \ DOMAIN view[f]
               PROVE  \E m \in (pos[f] + 1) .. Len(log'[k]) :
                        log'[k][m] = Added(i, contents'[k][i])
    BY <1>1 DEF MissingWillBeAdded, Unseen, k
  <2>1. PICK m \in (pos[f] + 1) .. Len(log[k]) : log[k][m] = Added(i, contents[k][i])
    BY <1>3, <1>4, <1>8 DEF OneFeedInv, MissingWillBeAdded, Unseen, k
  <2> QED
    BY <2>1, <1>1, <1>2, <1>3, SentKeepsHistory
<1> QED
  BY <1>1, <1>5, <1>6, <1>7, <1>8 DEF OneFeedInv, k

\* The snapshot is exact, and what is pending after it overlaps with it only
\* in ways the invariant allows: it is read after the subscription.
LEMMA SnapshotKeepsFeed ==
  ASSUME TypeOK, RegistryInv, FeedInv, NEW f \in Feeds, Snapshot(f)
  PROVE  OneFeedInv(f)'
<1>1. /\ kind[f] \in Kinds /\ log' = log /\ contents' = contents
      /\ kind' = kind /\ pos' = pos /\ view'[f] = contents[kind[f]]
  BY DEF Snapshot, TypeOK
<1>2. pos[f] <= Len(log[kind[f]])
  BY DEF FeedInv
<1>3. HeldWasAdded(f)'
  BY <1>1 DEF HeldWasAdded, RegistryInv, ContentsMatchLog, PresentWasAdded
<1>4. GoneWillBeRemoved(f)' /\ MissingWillBeAdded(f)'
  BY <1>1 DEF GoneWillBeRemoved, MissingWillBeAdded
<1> QED
  BY <1>1, <1>2, <1>3, <1>4 DEF OneFeedInv

\* Applying the oldest pending change.
LEMMA DeliverKeepsFeed ==
  ASSUME TypeOK, RegistryInv, FeedInv, NEW f \in Feeds, Deliver(f)
  PROVE  OneFeedInv(f)'
<1> DEFINE k == kind[f]
           p == pos[f] + 1
           c == log[k][p]
           i == c.id
<1>1. /\ k \in Kinds /\ pos[f] \in Nat /\ Len(log[k]) \in Nat
      /\ log' = log /\ contents' = contents /\ stage' = stage /\ kind' = kind
      /\ pos'[f] = p /\ view'[f] = Apply(view[f], c)
      /\ stage[f] = "streaming"
  BY DEF Deliver, TypeOK, RegistryTypeOK
<1>2. p \in 1 .. Len(log[k]) /\ c \in Changes
  BY <1>1 DEF Deliver, Unseen, TypeOK, RegistryTypeOK
<1>3. HeldWasAdded(f) /\ GoneWillBeRemoved(f) /\ MissingWillBeAdded(f)
  BY <1>1 DEF FeedInv
<1>4. \A m \in 1 .. Len(log[k]) : m > p /\ log[k][m].id = i =>
        c.op = "added" /\ log[k][m].op = "removed"
  BY <1>1, <1>2 DEF RegistryInv, IdsNeverReused
<1>5. (pos[f] + 1) .. Len(log[k]) = {p} \cup (p + 1) .. Len(log[k])
  BY <1>1, <1>2
<1>6. p <= Len(log[k])
  BY <1>2
<1>7. CASE c.op = "added"
  <2>1. /\ c = Added(i, c.item)
        /\ DOMAIN view'[f] = DOMAIN view[f] \cup {i}
        /\ view'[f][i] = c.item
        /\ \A j \in DOMAIN view[f] \ {i} : view'[f][j] = view[f][j]
    BY <1>1, <1>2, <1>7 DEF Apply, With, Changes, Added
  <2>2. HeldWasAdded(f)'
    BY <2>1, <1>1, <1>2, <1>3 DEF HeldWasAdded
  <2>3. GoneWillBeRemoved(f)'
    <3> SUFFICES ASSUME NEW j \in DOMAIN view'[f] \ DOMAIN contents[k]
                 PROVE  \E m \in (p + 1) .. Len(log[k]) : log[k][m] = Removed(j)
      BY <1>1 DEF GoneWillBeRemoved, Unseen
    <3>1. CASE j = i
      <4>1. PICK m \in 1 .. Len(log[k]) : log[k][m] = Removed(i)
        BY <3>1, <1>1, <1>2, <1>7 DEF RegistryInv, ContentsMatchLog, AddedUntilRemoved
      <4>2. m # p /\ ~ (m < p)
        <5>1. log[k][m].op = "removed" /\ log[k][m].id = i
          BY <4>1 DEF Removed
        <5>2. m # p
          BY <5>1, <1>7
        <5>3. ASSUME m < p PROVE FALSE
          BY <5>1, <5>3, <1>1, <1>2 DEF RegistryInv, IdsNeverReused
        <5> QED
          BY <5>2, <5>3
      <4> QED
        BY <4>1, <4>2, <3>1, <1>1, <1>2
    <3>2. CASE j # i
      <4>1. PICK m \in (pos[f] + 1) .. Len(log[k]) : log[k][m] = Removed(j)
        BY <3>2, <2>1, <1>1, <1>3 DEF GoneWillBeRemoved, Unseen
      <4>2. m # p
        BY <4>1, <1>7 DEF Removed
      <4> QED
        BY <4>1, <4>2, <1>5
    <3> QED
      BY <3>1, <3>2
  <2>4. MissingWillBeAdded(f)'
    <3> SUFFICES ASSUME NEW j \in DOMAIN contents[k] \ DOMAIN view'[f]
                 PROVE  \E m \in (p + 1) .. Len(log[k]) :
                          log[k][m] = Added(j, contents[k][j])
      BY <1>1 DEF MissingWillBeAdded, Unseen
    <3>1. PICK m \in (pos[f] + 1) .. Len(log[k]) : log[k][m] = Added(j, contents[k][j])
      BY <2>1, <1>1, <1>3 DEF MissingWillBeAdded, Unseen
    <3>2. m # p
      BY <3>1, <2>1 DEF Added
    <3> QED
      BY <3>1, <3>2, <1>5
  <2> QED
    BY <2>2, <2>3, <2>4, <1>1, <1>6 DEF OneFeedInv
<1>8. CASE c.op = "removed"
  <2>1. /\ c = Removed(i)
        /\ DOMAIN view'[f] = DOMAIN view[f] \ {i}
        /\ \A j \in DOMAIN view[f] \ {i} : view'[f][j] = view[f][j]
    BY <1>1, <1>2, <1>8 DEF Apply, Without, Restrict, Changes, Removed
  <2>2. HeldWasAdded(f)'
    BY <2>1, <1>1, <1>3 DEF HeldWasAdded
  <2>3. GoneWillBeRemoved(f)'
    <3> SUFFICES ASSUME NEW j \in DOMAIN view'[f] \ DOMAIN contents[k]
                 PROVE  \E m \in (p + 1) .. Len(log[k]) : log[k][m] = Removed(j)
      BY <1>1 DEF GoneWillBeRemoved, Unseen
    <3>1. PICK m \in (pos[f] + 1) .. Len(log[k]) : log[k][m] = Removed(j)
      BY <2>1, <1>1, <1>3 DEF GoneWillBeRemoved, Unseen
    <3>2. m # p
      BY <3>1, <2>1 DEF Removed
    <3> QED
      BY <3>1, <3>2, <1>5
  <2>4. MissingWillBeAdded(f)'
    <3> SUFFICES ASSUME NEW j \in DOMAIN contents[k] \ DOMAIN view'[f]
                 PROVE  \E m \in (p + 1) .. Len(log[k]) :
                          log[k][m] = Added(j, contents[k][j])
      BY <1>1 DEF MissingWillBeAdded, Unseen
    <3>1. j # i
      BY <1>1, <1>2, <1>8 DEF RegistryInv, ContentsMatchLog, RemovedIsAbsent
    <3>2. PICK m \in (pos[f] + 1) .. Len(log[k]) : log[k][m] = Added(j, contents[k][j])
      BY <3>1, <2>1, <1>1, <1>3 DEF MissingWillBeAdded, Unseen
    <3>3. m # p
      BY <3>2, <2>1 DEF Added, Removed
    <3> QED
      BY <3>2, <3>3, <1>5
  <2> QED
    BY <2>2, <2>3, <2>4, <1>1, <1>6 DEF OneFeedInv
<1> QED
  BY <1>2, <1>7, <1>8 DEF Changes

\* A step that leaves a feed and its registry alone.
LEMMA UntouchedFeed ==
  ASSUME FeedInv, NEW f \in Feeds,
         log'[kind[f]] = log[kind[f]], contents'[kind[f]] = contents[kind[f]],
         stage'[f] = stage[f], kind'[f] = kind[f], pos'[f] = pos[f], view'[f] = view[f]
  PROVE  OneFeedInv(f)'
  BY DEF FeedInv, OneFeedInv, HeldWasAdded, GoneWillBeRemoved, MissingWillBeAdded, Unseen

\* No step of a registry, or of any Monitor stream, breaks what relates a
\* client's map to the registry and the changes still to come.
LEMMA FeedInductive ==
  ASSUME TypeOK, TypeOK', RegistryInv, FeedInv, [Next]_vars
  PROVE  RegistryInv' /\ FeedInv'
<1>1. [RegistryNext]_registryVars
  BY DEF Next, RegistryStep, FeedStep, Subscribe, Snapshot, Deliver, EndOnLag, Drop,
         vars, registryVars
<1>2. RegistryInv'
  BY <1>1, RegistryStepInv
<1>3. FeedInv'
  <2> SUFFICES ASSUME NEW f \in Feeds PROVE OneFeedInv(f)'
    BY DEF FeedInv, OneFeedInv
  <2>1. CASE UNCHANGED vars
    BY <2>1, UntouchedFeed DEF vars
  <2>2. CASE RegistryStep
    <3>1. kind[f] \in Kinds /\ RegistryTypeOK /\ UNCHANGED feedVars
      BY <2>2 DEF TypeOK, RegistryStep
    <3>2. ASSUME NEW k \in Kinds, NEW item \in Items, Add(k, item)
          PROVE  OneFeedInv(f)'
      <4>1. CASE k = kind[f]
        BY <3>1, <3>2, <4>1, AddKeepsFeed
      <4>2. CASE k # kind[f]
        <5>1. OthersKept(k)
          BY <3>1, <3>2, AddEffect
        <5> QED
          BY <3>1, <4>2, <5>1, UntouchedFeed DEF OthersKept, feedVars
      <4> QED
        BY <4>1, <4>2
    <3>3. ASSUME NEW k \in Kinds, NEW i \in DOMAIN contents[k], Remove(k, i)
          PROVE  OneFeedInv(f)'
      <4>1. CASE k = kind[f]
        BY <3>1, <3>3, <4>1, RemoveKeepsFeed
      <4>2. CASE k # kind[f]
        <5>1. OthersKept(k)
          BY <3>1, <3>3, RemoveEffect
        <5> QED
          BY <3>1, <4>2, <5>1, UntouchedFeed DEF OthersKept, feedVars
      <4> QED
        BY <4>1, <4>2
    <3> QED
      BY <2>2, <3>2, <3>3 DEF RegistryStep, RegistryNext
  <2>3. ASSUME NEW g \in Feeds, FeedStep(g), g # f
        PROVE  OneFeedInv(f)'
    <3>1. /\ log' = log /\ contents' = contents /\ kind' = kind
          /\ stage'[f] = stage[f] /\ pos'[f] = pos[f] /\ view'[f] = view[f]
      BY <2>3 DEF FeedStep, Subscribe, Snapshot, Deliver, EndOnLag, Drop, TypeOK
    <3> QED
      BY <3>1, UntouchedFeed
  <2>4. ASSUME FeedStep(f) PROVE OneFeedInv(f)'
    <3>1. CASE Subscribe(f)
      BY <3>1 DEF Subscribe, TypeOK, RegistryTypeOK, OneFeedInv
    <3>2. CASE Snapshot(f)
      BY <3>2, SnapshotKeepsFeed
    <3>3. CASE Deliver(f)
      BY <3>3, DeliverKeepsFeed
    <3>4. CASE EndOnLag(f)
      BY <3>4 DEF EndOnLag, TypeOK, FeedInv, OneFeedInv
    <3>5. CASE Drop(f)
      BY <3>5 DEF Drop, TypeOK, FeedInv, OneFeedInv
    <3> QED
      BY <2>4, <3>1, <3>2, <3>3, <3>4, <3>5 DEF FeedStep
  <2> QED
    BY <2>1, <2>2, <2>3, <2>4 DEF Next
<1> QED
  BY <1>2, <1>3

\* FeedInv is strong enough: with nothing pending the copy and the contents
\* have the same ids, and an id was announced with one item only.
LEMMA FeedInvGivesMirror ==
  ASSUME TypeOK, RegistryInv, FeedInv
  PROVE  MirrorExact
<1> SUFFICES ASSUME NEW f \in Feeds, stage[f] = "streaming", CaughtUp(f)
             PROVE  view[f] = contents[kind[f]]
  BY DEF MirrorExact
<1> DEFINE k == kind[f]
<1>1. /\ k \in Kinds /\ Len(log[k]) \in Nat
      /\ IsItemMap(view[f]) /\ IsItemMap(contents[k])
  BY DEF TypeOK, RegistryTypeOK
<1>2. Unseen(k, pos[f]) = {}
  BY <1>1 DEF CaughtUp, Unseen
<1>3. HeldWasAdded(f) /\ GoneWillBeRemoved(f) /\ MissingWillBeAdded(f)
  BY DEF FeedInv
<1>4. DOMAIN view[f] = DOMAIN contents[k]
  BY <1>2, <1>3 DEF GoneWillBeRemoved, MissingWillBeAdded
<1>5. ASSUME NEW i \in DOMAIN contents[k]
      PROVE  view[f][i] = contents[k][i]
  <2>1. PICK m \in 1 .. Len(log[k]) : log[k][m] = Added(i, view[f][i])
    BY <1>3, <1>4, <1>5 DEF HeldWasAdded
  <2>2. PICK n \in 1 .. Len(log[k]) : log[k][n] = Added(i, contents[k][i])
    BY <1>1, <1>5 DEF RegistryInv, ContentsMatchLog, PresentWasAdded
  <2>3. m = n
    <3>1. /\ log[k][m].id = i /\ log[k][m].op = "added"
          /\ log[k][n].id = i /\ log[k][n].op = "added"
      BY <2>1, <2>2 DEF Added
    <3>2. ~ (m < n) /\ ~ (n < m)
      BY <3>1, <1>1 DEF RegistryInv, IdsNeverReused
    <3> QED
      BY <3>2, <1>1
  <2> QED
    BY <2>1, <2>2, <2>3 DEF Added
<1> QED
  BY <1>1, <1>4, <1>5 DEF IsItemMap

\* The history of each registry is that of its map, and what a client lacks or
\* holds too much is still to be sent to it: Registry::add and remove send from
\* inside the lock, and monitor() subscribes before it reads.
THEOREM MonitorSafe == Spec => []MonitorInv
<1>1. Init => RegistryInv /\ FeedInv
  <2> SUFFICES ASSUME Init PROVE RegistryInv /\ FeedInv
    OBVIOUS
  <2>1. RegistryInv
    BY RegistryInitInv DEF Init
  <2>2. FeedInv
    BY DEF Init, RegistryInit, FeedInv
  <2> QED
    BY <2>1, <2>2
<1>2. TypeOK /\ TypeOK' /\ RegistryInv /\ FeedInv /\ [Next]_vars => RegistryInv' /\ FeedInv'
  BY FeedInductive
<1>3. TypeOK /\ RegistryInv /\ FeedInv => MonitorInv
  BY DEF MonitorInv
<1> QED
  BY <1>1, <1>2, <1>3, TypeCorrect, PTL DEF Spec

\* The Monitor RPC never loses or invents a change: whatever the number of
\* feeds, registries, items and calls, and however the registry changes between
\* the subscription, the snapshot and the events, a feed that is still open
\* and has sent everything has given its client an exact copy.
THEOREM MonitorMirrors == Spec => []MirrorExact
<1>1. MonitorInv => MirrorExact
  BY FeedInvGivesMirror DEF MonitorInv
<1> QED
  BY <1>1, MonitorSafe, PTL

\* What a feed that stays open takes from its client's copy has left the
\* registry for good: an event of the channel is applied only after the change
\* it tells of, and ids are not given out again.
LEMMA ForgetsStep ==
  ASSUME TypeOK, RegistryInv, [Next]_vars, NEW f \in Feeds,
         stage[f] = "streaming", stage'[f] # "idle",
         NEW i \in DOMAIN view[f] \ DOMAIN view'[f]
  PROVE  i \notin DOMAIN contents[kind[f]]
<1>1. Deliver(f)
  <2>1. view'[f] # view[f]
    OBVIOUS
  <2>2. ~ UNCHANGED vars /\ ~ RegistryStep
    BY <2>1 DEF vars, RegistryStep, feedVars
  <2>3. PICK g \in Feeds : FeedStep(g)
    BY <2>2 DEF Next
  <2>4. g = f
    BY <2>1, <2>3 DEF FeedStep, Subscribe, Snapshot, Deliver, EndOnLag, Drop, TypeOK
  <2>5. ~ Subscribe(f) /\ ~ Snapshot(f)
    BY DEF Subscribe, Snapshot
  <2>6. ~ EndOnLag(f)
    BY <2>1 DEF EndOnLag
  <2>7. ~ Drop(f)
    BY DEF Drop, TypeOK
  <2> QED
    BY <2>3, <2>4, <2>5, <2>6, <2>7 DEF FeedStep
<1> PICK k \in Kinds, p \in Nat, c \in Changes :
      k = kind[f] /\ p \in 1 .. Len(log[k]) /\ c = log[k][p] /\ view'[f] = Apply(view[f], c)
  <2>1. /\ kind[f] \in Kinds /\ pos[f] \in Nat /\ Len(log[kind[f]]) \in Nat
        /\ log[kind[f]] \in Seq(Changes)
    BY DEF TypeOK, RegistryTypeOK
  <2>2. pos[f] + 1 \in 1 .. Len(log[kind[f]])
    BY <1>1, <2>1 DEF Deliver, Unseen
  <2>3. log[kind[f]][pos[f] + 1] \in Changes
    BY <2>1, <2>2
  <2>4. view'[f] = Apply(view[f], log[kind[f]][pos[f] + 1])
    BY <1>1 DEF Deliver, TypeOK
  <2> QED
    BY <2>1, <2>2, <2>3, <2>4
<1>2. c.op = "removed" /\ i = c.id
  BY DEF Apply, With, Without, Restrict, Changes
<1> QED
  BY <1>2 DEF RegistryInv, ContentsMatchLog, RemovedIsAbsent

\* The stream never makes a client forget an item that is still there: only
\* Removed takes one from the copy, and Registry::remove has sent it by then.
THEOREM ForgetsAreJustified == Spec => ForgetsOnlyRemoved
<1>1. TypeOK /\ RegistryInv /\ [Next]_vars =>
        [\A f \in Feeds : stage[f] = "streaming" /\ stage'[f] # "idle" =>
           \A i \in DOMAIN view[f] \ DOMAIN view'[f] : i \notin DOMAIN contents[kind[f]]]_vars
  BY ForgetsStep
<1>2. MonitorInv => TypeOK /\ RegistryInv
  BY DEF MonitorInv
<1> QED
  BY <1>1, <1>2, MonitorSafe, PTL DEF Spec, ForgetsOnlyRemoved
=============================================================================
