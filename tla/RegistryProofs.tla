--------------------------- MODULE RegistryProofs ---------------------------
(***************************************************************************)
(* Proofs about the registries: an id names one item for the life of the   *)
(* server, and the change channel is a faithful history of the contents.   *)
(***************************************************************************)
EXTENDS Registry, TLAPS

\* One change of k was sent and nothing else about the channels changed.
Sent(k, change) ==
  /\ Len(log'[k]) = Len(log[k]) + 1
  /\ \A m \in 1 .. Len(log[k]) : log'[k][m] = log[k][m]
  /\ log'[k][Len(log[k]) + 1] = change

\* The registries other than k are untouched.
OthersKept(k) ==
  \A j \in Kinds \ {k} : /\ log'[j] = log[j]
                         /\ next'[j] = next[j]
                         /\ contents'[j] = contents[j]

\* What Append returns, element by element.
LEMMA AppendEffect ==
  ASSUME NEW S, NEW s \in Seq(S), NEW e \in S
  PROVE  /\ Len(Append(s, e)) = Len(s) + 1
         /\ \A m \in 1 .. Len(s) : Append(s, e)[m] = s[m]
         /\ Append(s, e)[Len(s) + 1] = e
  OBVIOUS

-----------------------------------------------------------------------------
\* A new registry, with nothing sent and nothing in it.
LEMMA RegistryInitInv == RegistryInit => RegistryInv
<1> SUFFICES ASSUME RegistryInit PROVE RegistryInv
  OBVIOUS
<1>1. \A k \in Kinds : log[k] = << >> /\ contents[k] = << >>
  BY DEF RegistryInit
<1>2. RegistryTypeOK
  BY <1>1 DEF RegistryInit, RegistryTypeOK, IsItemMap
<1>3. NextIsFresh /\ IdsNeverReused /\ ContentsMatchLog
  BY <1>1 DEF NextIsFresh, IdsNeverReused, ContentsMatchLog,
              PresentWasAdded, AddedUntilRemoved, RemovedIsAbsent
<1> QED
  BY <1>2, <1>3 DEF RegistryInv

\* What one step of a registry does, in the terms the invariants use.
LEMMA AddEffect ==
  ASSUME RegistryTypeOK, NEW k \in Kinds, NEW item \in Items, Add(k, item)
  PROVE  /\ Sent(k, Added(next[k], item))
         /\ OthersKept(k)
         /\ next'[k] = next[k] + 1
         /\ contents'[k] = With(contents[k], next[k], item)
         /\ RegistryTypeOK'
<1>1. /\ next[k] \in Nat
      /\ log[k] \in Seq(Changes)
      /\ IsItemMap(contents[k])
      /\ Added(next[k], item) \in Changes
  BY DEF RegistryTypeOK, Added, Changes
<1>2. /\ log'[k] = Append(log[k], Added(next[k], item))
      /\ next'[k] = next[k] + 1
      /\ contents'[k] = With(contents[k], next[k], item)
      /\ OthersKept(k)
  BY DEF Add, RegistryTypeOK, OthersKept
<1>3. Sent(k, Added(next[k], item))
  BY <1>1, <1>2, AppendEffect DEF Sent
<1>4. next' \in [Kinds -> Nat] /\ DOMAIN contents' = Kinds
  BY <1>1 DEF Add, RegistryTypeOK
<1>5. \A j \in Kinds : IsItemMap(contents'[j])
  <2>1. IsItemMap(With(contents[k], next[k], item))
    BY <1>1 DEF IsItemMap, With
  <2> QED
    BY <2>1, <1>2 DEF RegistryTypeOK, OthersKept
<1>6. log' \in [Kinds -> Seq(Changes)]
  BY <1>1 DEF Add, RegistryTypeOK
<1> QED
  BY <1>2, <1>3, <1>4, <1>5, <1>6 DEF RegistryTypeOK

\* Registry::remove sends the removal and takes the one item out of the map.
LEMMA RemoveEffect ==
  ASSUME RegistryTypeOK, NEW k \in Kinds, NEW i \in DOMAIN contents[k], Remove(k, i)
  PROVE  /\ Sent(k, Removed(i))
         /\ OthersKept(k)
         /\ next'[k] = next[k]
         /\ contents'[k] = Without(contents[k], i)
         /\ RegistryTypeOK'
<1>1. /\ i \in Nat
      /\ log[k] \in Seq(Changes)
      /\ IsItemMap(contents[k])
      /\ Removed(i) \in Changes
  BY DEF RegistryTypeOK, IsItemMap, Removed, Changes
<1>2. /\ log'[k] = Append(log[k], Removed(i))
      /\ next' = next
      /\ contents'[k] = Without(contents[k], i)
      /\ OthersKept(k)
  BY DEF Remove, RegistryTypeOK, OthersKept
<1>3. Sent(k, Removed(i))
  BY <1>1, <1>2, AppendEffect DEF Sent
<1>4. next' \in [Kinds -> Nat] /\ DOMAIN contents' = Kinds
  BY <1>2 DEF Remove, RegistryTypeOK
<1>5. \A j \in Kinds : IsItemMap(contents'[j])
  <2>1. IsItemMap(Without(contents[k], i))
    BY <1>1 DEF IsItemMap, Without, Restrict
  <2> QED
    BY <2>1, <1>2 DEF RegistryTypeOK, OthersKept
<1>6. log' \in [Kinds -> Seq(Changes)]
  BY <1>1 DEF Remove, RegistryTypeOK
<1> QED
  BY <1>2, <1>3, <1>4, <1>5, <1>6 DEF RegistryTypeOK

-----------------------------------------------------------------------------
\* Registry::add: the id it takes is above every id of the history.
LEMMA AddKeepsInv ==
  ASSUME RegistryInv, NEW k \in Kinds, NEW item \in Items, Add(k, item)
  PROVE  RegistryInv'
<1>0. RegistryTypeOK
  BY DEF RegistryInv
<1>1. /\ Sent(k, Added(next[k], item))
      /\ OthersKept(k)
      /\ next'[k] = next[k] + 1
      /\ contents'[k] = With(contents[k], next[k], item)
      /\ RegistryTypeOK'
  BY <1>0, AddEffect
<1>2. /\ DOMAIN contents'[k] = DOMAIN contents[k] \cup {next[k]}
      /\ contents'[k][next[k]] = item
      /\ \A i \in DOMAIN contents[k] \ {next[k]} : contents'[k][i] = contents[k][i]
  BY <1>1 DEF With
<1>3. \A j \in Kinds : next[j] \in Nat /\ Len(log[j]) \in Nat
  BY DEF RegistryInv, RegistryTypeOK
<1>4. \A j \in Kinds : \A m \in 1 .. Len(log[j]) : log[j][m] \in Changes /\ log[j][m].id \in Nat
  BY DEF RegistryInv, RegistryTypeOK, Changes
<1>5. NextIsFresh'
  <2> SUFFICES ASSUME NEW j \in Kinds, NEW m \in 1 .. Len(log'[j])
               PROVE  log'[j][m].id < next'[j]
    BY DEF NextIsFresh
  <2>1. CASE j # k
    BY <2>1, <1>1 DEF RegistryInv, NextIsFresh, OthersKept
  <2>2. CASE j = k /\ m = Len(log[k]) + 1
    BY <2>2, <1>1, <1>3 DEF Sent, Added
  <2>3. CASE j = k /\ m # Len(log[k]) + 1
    <3>1. m \in 1 .. Len(log[k]) /\ log'[k][m] = log[k][m]
      BY <2>3, <1>1, <1>3 DEF Sent
    <3>2. log[k][m].id < next[k]
      BY <3>1 DEF RegistryInv, NextIsFresh
    <3> QED
      BY <2>3, <3>1, <3>2, <1>1, <1>3, <1>4
  <2> QED
    BY <2>1, <2>2, <2>3
<1>6. IdsNeverReused'
  <2> SUFFICES ASSUME NEW j \in Kinds, NEW m \in 1 .. Len(log'[j]), NEW n \in 1 .. Len(log'[j]),
                      m < n, log'[j][m].id = log'[j][n].id
               PROVE  log'[j][m].op = "added" /\ log'[j][n].op = "removed"
    BY DEF IdsNeverReused
  <2>1. CASE j # k
    BY <2>1, <1>1 DEF RegistryInv, IdsNeverReused, OthersKept
  <2>2. CASE j = k /\ n = Len(log[k]) + 1
    <3>1. m \in 1 .. Len(log[k]) /\ log'[k][m] = log[k][m]
      BY <2>2, <1>1, <1>3 DEF Sent
    <3>2. log[k][m].id < next[k] /\ log'[k][n].id = next[k]
      BY <2>2, <3>1, <1>1 DEF Sent, Added, RegistryInv, NextIsFresh
    <3> QED
      BY <2>2, <3>1, <3>2, <1>3, <1>4
  <2>3. CASE j = k /\ n # Len(log[k]) + 1
    <3>1. m \in 1 .. Len(log[k]) /\ n \in 1 .. Len(log[k])
      BY <2>3, <1>1, <1>3 DEF Sent
    <3>2. log'[k][m] = log[k][m] /\ log'[k][n] = log[k][n]
      BY <3>1, <1>1 DEF Sent
    <3> QED
      BY <2>3, <3>1, <3>2 DEF RegistryInv, IdsNeverReused
  <2> QED
    BY <2>1, <2>2, <2>3
<1>7. ContentsMatchLog'
  <2> SUFFICES ASSUME NEW j \in Kinds
               PROVE  (PresentWasAdded(j) /\ AddedUntilRemoved(j) /\ RemovedIsAbsent(j))'
    BY DEF ContentsMatchLog
  <2>0. PresentWasAdded(j) /\ AddedUntilRemoved(j) /\ RemovedIsAbsent(j)
    BY DEF RegistryInv, ContentsMatchLog
  <2>1. CASE j # k
    BY <2>0, <2>1, <1>1
       DEF OthersKept, PresentWasAdded, AddedUntilRemoved, RemovedIsAbsent
  <2>2. CASE j = k
    <3>1. PresentWasAdded(k)'
      <4> SUFFICES ASSUME NEW i \in DOMAIN contents'[k]
                   PROVE  \E m \in 1 .. Len(log'[k]) : log'[k][m] = Added(i, contents'[k][i])
        BY DEF PresentWasAdded
      <4>1. CASE i = next[k]
        BY <4>1, <1>1, <1>2, <1>3 DEF Sent
      <4>2. CASE i # next[k]
        <5>1. PICK m \in 1 .. Len(log[k]) : log[k][m] = Added(i, contents[k][i])
          BY <2>0, <2>2, <4>2, <1>2 DEF PresentWasAdded
        <5> QED
          BY <5>1, <4>2, <1>1, <1>2, <1>3 DEF Sent
      <4> QED
        BY <4>1, <4>2
    <3>2. AddedUntilRemoved(k)'
      <4> SUFFICES ASSUME NEW m \in 1 .. Len(log'[k]), log'[k][m].op = "added",
                          log'[k][m].id \notin DOMAIN contents'[k]
                   PROVE  \E n \in 1 .. Len(log'[k]) : log'[k][n] = Removed(log'[k][m].id)
        BY DEF AddedUntilRemoved
      <4>1. m \in 1 .. Len(log[k]) /\ log'[k][m] = log[k][m]
        BY <1>1, <1>2, <1>3 DEF Sent, Added
      <4>2. PICK n \in 1 .. Len(log[k]) : log[k][n] = Removed(log[k][m].id)
        BY <2>0, <2>2, <4>1, <1>2 DEF AddedUntilRemoved
      <4> QED
        BY <4>1, <4>2, <1>1, <1>3 DEF Sent
    <3>3. RemovedIsAbsent(k)'
      <4> SUFFICES ASSUME NEW m \in 1 .. Len(log'[k]), log'[k][m].op = "removed"
                   PROVE  log'[k][m].id \notin DOMAIN contents'[k]
        BY DEF RemovedIsAbsent
      <4>1. m \in 1 .. Len(log[k]) /\ log'[k][m] = log[k][m]
        BY <1>1, <1>3 DEF Sent, Added
      <4>2. log[k][m].id \notin DOMAIN contents[k]
        BY <2>0, <2>2, <4>1 DEF RemovedIsAbsent
      <4>3. log[k][m].id # next[k]
        BY <1>3, <1>4, <4>1 DEF RegistryInv, NextIsFresh
      <4> QED
        BY <1>2, <4>1, <4>2, <4>3
    <3> QED
      BY <2>2, <3>1, <3>2, <3>3
  <2> QED
    BY <2>1, <2>2
<1> QED
  BY <1>1, <1>5, <1>6, <1>7 DEF RegistryInv

\* Registry::remove: the id it frees was added, and is removed only once.
LEMMA RemoveKeepsInv ==
  ASSUME RegistryInv, NEW k \in Kinds, NEW i \in DOMAIN contents[k], Remove(k, i)
  PROVE  RegistryInv'
<1>0. RegistryTypeOK
  BY DEF RegistryInv
<1>1. /\ Sent(k, Removed(i))
      /\ OthersKept(k)
      /\ next'[k] = next[k]
      /\ contents'[k] = Without(contents[k], i)
      /\ RegistryTypeOK'
  BY <1>0, RemoveEffect
<1>2. /\ DOMAIN contents'[k] = DOMAIN contents[k] \ {i}
      /\ \A j \in DOMAIN contents[k] \ {i} : contents'[k][j] = contents[k][j]
  BY <1>1 DEF Without, Restrict
<1>3. \A j \in Kinds : next[j] \in Nat /\ Len(log[j]) \in Nat
  BY DEF RegistryInv, RegistryTypeOK
<1>4. PICK a \in 1 .. Len(log[k]) : log[k][a] = Added(i, contents[k][i])
  BY DEF RegistryInv, ContentsMatchLog, PresentWasAdded
<1>5. i < next[k]
  BY <1>4 DEF RegistryInv, NextIsFresh, Added
<1>6. NextIsFresh'
  <2> SUFFICES ASSUME NEW j \in Kinds, NEW m \in 1 .. Len(log'[j])
               PROVE  log'[j][m].id < next'[j]
    BY DEF NextIsFresh
  <2>1. CASE j # k
    BY <2>1, <1>1 DEF RegistryInv, NextIsFresh, OthersKept
  <2>2. CASE j = k /\ m = Len(log[k]) + 1
    BY <2>2, <1>1, <1>5 DEF Sent, Removed
  <2>3. CASE j = k /\ m # Len(log[k]) + 1
    BY <2>3, <1>1, <1>3 DEF RegistryInv, NextIsFresh, Sent
  <2> QED
    BY <2>1, <2>2, <2>3
<1>7. IdsNeverReused'
  <2> SUFFICES ASSUME NEW j \in Kinds, NEW m \in 1 .. Len(log'[j]), NEW n \in 1 .. Len(log'[j]),
                      m < n, log'[j][m].id = log'[j][n].id
               PROVE  log'[j][m].op = "added" /\ log'[j][n].op = "removed"
    BY DEF IdsNeverReused
  <2>1. CASE j # k
    BY <2>1, <1>1 DEF RegistryInv, IdsNeverReused, OthersKept
  <2>2. CASE j = k /\ n = Len(log[k]) + 1
    <3>1. m \in 1 .. Len(log[k]) /\ log'[k][m] = log[k][m]
      BY <2>2, <1>1, <1>3 DEF Sent
    <3>2. log'[k][n] = Removed(i) /\ log[k][m].id = i
      BY <2>2, <3>1, <1>1 DEF Sent, Removed
    <3>3. log[k][m].op # "removed"
      BY <3>1, <3>2 DEF RegistryInv, ContentsMatchLog, RemovedIsAbsent
    <3>4. log[k][m] \in Changes
      BY <3>1 DEF RegistryInv, RegistryTypeOK
    <3> QED
      BY <2>2, <3>1, <3>2, <3>3, <3>4 DEF Changes, Removed
  <2>3. CASE j = k /\ n # Len(log[k]) + 1
    <3>1. m \in 1 .. Len(log[k]) /\ n \in 1 .. Len(log[k])
      BY <2>3, <1>1, <1>3 DEF Sent
    <3>2. log'[k][m] = log[k][m] /\ log'[k][n] = log[k][n]
      BY <3>1, <1>1 DEF Sent
    <3> QED
      BY <2>3, <3>1, <3>2 DEF RegistryInv, IdsNeverReused
  <2> QED
    BY <2>1, <2>2, <2>3
<1>8. ContentsMatchLog'
  <2> SUFFICES ASSUME NEW j \in Kinds
               PROVE  (PresentWasAdded(j) /\ AddedUntilRemoved(j) /\ RemovedIsAbsent(j))'
    BY DEF ContentsMatchLog
  <2>0. PresentWasAdded(j) /\ AddedUntilRemoved(j) /\ RemovedIsAbsent(j)
    BY DEF RegistryInv, ContentsMatchLog
  <2>1. CASE j # k
    BY <2>0, <2>1, <1>1
       DEF OthersKept, PresentWasAdded, AddedUntilRemoved, RemovedIsAbsent
  <2>2. CASE j = k
    <3>1. PresentWasAdded(k)'
      BY <2>0, <2>2, <1>1, <1>2, <1>3 DEF PresentWasAdded, Sent
    <3>2. AddedUntilRemoved(k)'
      <4> SUFFICES ASSUME NEW m \in 1 .. Len(log'[k]), log'[k][m].op = "added",
                          log'[k][m].id \notin DOMAIN contents'[k]
                   PROVE  \E n \in 1 .. Len(log'[k]) : log'[k][n] = Removed(log'[k][m].id)
        BY DEF AddedUntilRemoved
      <4>1. m \in 1 .. Len(log[k]) /\ log'[k][m] = log[k][m]
        BY <1>1, <1>3 DEF Sent, Removed
      <4>2. CASE log[k][m].id = i
        BY <4>1, <4>2, <1>1, <1>3 DEF Sent
      <4>3. CASE log[k][m].id # i
        BY <4>1, <4>3, <2>0, <2>2, <1>1, <1>2, <1>3 DEF Sent, AddedUntilRemoved
      <4> QED
        BY <4>2, <4>3
    <3>3. RemovedIsAbsent(k)'
      BY <2>0, <2>2, <1>1, <1>2, <1>3 DEF RemovedIsAbsent, Sent, Removed
    <3> QED
      BY <2>2, <3>1, <3>2, <3>3
  <2> QED
    BY <2>1, <2>2
<1> QED
  BY <1>1, <1>6, <1>7, <1>8 DEF RegistryInv

-----------------------------------------------------------------------------
\* Every step of a registry keeps the invariant.
LEMMA RegistryStepInv == RegistryInv /\ [RegistryNext]_registryVars => RegistryInv'
<1> SUFFICES ASSUME RegistryInv, [RegistryNext]_registryVars PROVE RegistryInv'
  OBVIOUS
<1>1. CASE UNCHANGED registryVars
  BY <1>1 DEF registryVars, RegistryInv, RegistryTypeOK, NextIsFresh, IdsNeverReused,
              ContentsMatchLog, PresentWasAdded, AddedUntilRemoved, RemovedIsAbsent
<1>2. ASSUME NEW k \in Kinds, NEW item \in Items, Add(k, item) PROVE RegistryInv'
  BY <1>2, AddKeepsInv
<1>3. ASSUME NEW k \in Kinds, NEW i \in DOMAIN contents[k], Remove(k, i)
      PROVE  RegistryInv'
  BY <1>3, RemoveKeepsInv
<1> QED
  BY <1>1, <1>2, <1>3 DEF RegistryNext

-----------------------------------------------------------------------------
(* What the proofs about those who follow a registry need. *)

\* Places in a history.
LEMMA SamePlace ==
  ASSUME NEW l \in Nat, NEW m \in 1 .. l, NEW n \in 1 .. l, ~ (m < n), ~ (n < m)
  PROVE  m = n
  OBVIOUS

LEMMA PlaceAfter ==
  ASSUME NEW l \in Nat, NEW m \in 1 .. l, NEW p \in Nat
  PROVE  /\ ~ (m < p + 1) => m = p + 1 \/ m > p + 1
         /\ m > p /\ m # p + 1 => m > p + 1
         /\ m > p <=> m \in (p + 1) .. l
  OBVIOUS

LEMMA OneMoreAtMost ==
  ASSUME NEW a \in Nat, NEW b \in Nat, b = a \/ b = a + 1, NEW p \in Nat, p <= a
  PROVE  /\ a <= b /\ p <= b /\ 1 .. a \subseteq 1 .. b
         /\ (p + 1) .. a \subseteq 1 .. a /\ (p + 1) .. a \subseteq (p + 1) .. b
         /\ b = a + 1 => b \in (p + 1) .. b
  OBVIOUS

LEMMA HistoryTypes ==
  ASSUME RegistryInv, NEW k \in Kinds
  PROVE  /\ Len(log[k]) \in Nat /\ next[k] \in Nat
         /\ \A m \in 1 .. Len(log[k]) :
              /\ log[k][m].id \in Nat /\ log[k][m].id < next[k]
              /\ \/ log[k][m].op = "added" /\ log[k][m].item \in Items
                                           /\ log[k][m] = Added(log[k][m].id, log[k][m].item)
                 \/ log[k][m].op = "removed" /\ log[k][m] = Removed(log[k][m].id)
<1>1. log[k] \in Seq(Changes) /\ next[k] \in Nat
  BY DEF RegistryInv, RegistryTypeOK
<1>2. ASSUME NEW m \in 1 .. Len(log[k])
      PROVE  /\ log[k][m].id \in Nat /\ log[k][m].id < next[k]
             /\ \/ log[k][m].op = "added" /\ log[k][m].item \in Items
                                          /\ log[k][m] = Added(log[k][m].id, log[k][m].item)
                \/ log[k][m].op = "removed" /\ log[k][m] = Removed(log[k][m].id)
  <2>1. log[k][m] \in Changes
    BY <1>1
  <2>2. log[k][m].id < next[k]
    BY DEF RegistryInv, NextIsFresh
  <2> QED
    BY <2>1, <2>2 DEF Changes, Added, Removed
<1> QED
  BY <1>1, <1>2

\* What a step of a registry does to one of its channels and to what it holds.
LEMMA HistoryGrows ==
  ASSUME RegistryInv, RegistryNext, NEW k \in Kinds
  PROVE  /\ Len(log[k]) \in Nat /\ Len(log'[k]) \in Nat
         /\ Len(log'[k]) = Len(log[k]) \/ Len(log'[k]) = Len(log[k]) + 1
         /\ \A m \in 1 .. Len(log[k]) : log'[k][m] = log[k][m]
         /\ \A i \in DOMAIN contents[k] :
              \/ i \in DOMAIN contents'[k]
              \/ Len(log'[k]) = Len(log[k]) + 1 /\ log'[k][Len(log'[k])] = Removed(i)
         /\ \A m \in 1 .. Len(log[k]) :
              log[k][m].id \in DOMAIN contents'[k] => log[k][m].id \in DOMAIN contents[k]
         /\ \A i \in DOMAIN contents'[k] :
              \/ i \in DOMAIN contents[k]
              \/ /\ Len(log'[k]) = Len(log[k]) + 1
                 /\ log'[k][Len(log'[k])].op = "added" /\ log'[k][Len(log'[k])].id = i
<1>0. RegistryTypeOK /\ Len(log[k]) \in Nat
  BY HistoryTypes DEF RegistryInv
<1>1. ASSUME NEW j \in Kinds, NEW item \in Items, Add(j, item), j # k
      PROVE  log'[k] = log[k] /\ contents'[k] = contents[k]
  BY <1>0, <1>1, AddEffect DEF OthersKept
<1>2. ASSUME NEW j \in Kinds, NEW i \in DOMAIN contents[j], Remove(j, i), j # k
      PROVE  log'[k] = log[k] /\ contents'[k] = contents[k]
  BY <1>0, <1>2, RemoveEffect DEF OthersKept
<1>3. CASE log'[k] = log[k] /\ contents'[k] = contents[k]
  BY <1>0, <1>3
<1>4. ASSUME NEW item \in Items, Add(k, item)
      PROVE  /\ Sent(k, Added(next[k], item))
             /\ DOMAIN contents'[k] = DOMAIN contents[k] \cup {next[k]}
  BY <1>0, <1>4, AddEffect DEF With
<1>5. ASSUME NEW item \in Items, Add(k, item)
      PROVE  /\ Len(log'[k]) = Len(log[k]) + 1
             /\ \A m \in 1 .. Len(log[k]) : log'[k][m] = log[k][m]
             /\ DOMAIN contents[k] \subseteq DOMAIN contents'[k]
             /\ \A m \in 1 .. Len(log[k]) :
                  log[k][m].id \in DOMAIN contents'[k] => log[k][m].id \in DOMAIN contents[k]
             /\ \A i \in DOMAIN contents'[k] :
                  \/ i \in DOMAIN contents[k]
                  \/ log'[k][Len(log'[k])].op = "added" /\ log'[k][Len(log'[k])].id = i
  <2>1. \A m \in 1 .. Len(log[k]) : log[k][m].id # next[k]
    BY HistoryTypes
  <2>2. /\ Len(log'[k]) = Len(log[k]) + 1
        /\ \A m \in 1 .. Len(log[k]) : log'[k][m] = log[k][m]
        /\ log'[k][Len(log[k]) + 1] = Added(next[k], item)
    BY <1>4, <1>5 DEF Sent
  <2>3. DOMAIN contents'[k] = DOMAIN contents[k] \cup {next[k]}
    BY <1>4, <1>5
  <2>4. Added(next[k], item).op = "added" /\ Added(next[k], item).id = next[k]
    BY DEF Added
  <2> QED
    BY <2>1, <2>2, <2>3, <2>4
<1>6. ASSUME NEW i \in DOMAIN contents[k], Remove(k, i)
      PROVE  /\ Sent(k, Removed(i))
             /\ DOMAIN contents'[k] = DOMAIN contents[k] \ {i}
  BY <1>0, <1>6, RemoveEffect DEF Without, Restrict
<1>7. ASSUME NEW i \in DOMAIN contents[k], Remove(k, i)
      PROVE  /\ Len(log'[k]) = Len(log[k]) + 1
             /\ \A m \in 1 .. Len(log[k]) : log'[k][m] = log[k][m]
             /\ log'[k][Len(log'[k])] = Removed(i)
             /\ DOMAIN contents'[k] = DOMAIN contents[k] \ {i}
  BY <1>6, <1>7 DEF Sent
<1>8. PICK j \in Kinds : \/ \E item \in Items : Add(j, item)
                         \/ \E i \in DOMAIN contents[j] : Remove(j, i)
  BY DEF RegistryNext
<1>9. CASE j # k
  BY <1>1, <1>2, <1>3, <1>8, <1>9
<1>10. CASE \E item \in Items : Add(k, item)
  BY <1>0, <1>5, <1>10
<1>11. CASE \E i \in DOMAIN contents[k] : Remove(k, i)
  <2>1. PICK i \in DOMAIN contents[k] : Remove(k, i)
    BY <1>11
  <2> QED
    BY <1>0, <1>7, <2>1
<1> QED
  BY <1>8, <1>9, <1>10, <1>11

-----------------------------------------------------------------------------
\* Registry::add gives every item an id of its own and never one that was
\* used before, and the channel's history always agrees with the map: both
\* for any number of registries, items and changes.
THEOREM RegistrySafe == RegistrySpec => [](IdsNeverReused /\ ContentsMatchLog)
<1>1. RegistryInv => IdsNeverReused /\ ContentsMatchLog
  BY DEF RegistryInv
<1> QED
  BY <1>1, RegistryInitInv, RegistryStepInv, PTL DEF RegistrySpec
=============================================================================
