------------------------------ MODULE Registry ------------------------------
(***************************************************************************)
(* The registries of a Boardswarm server (ServerInner in main.rs): one per *)
(* kind of item, each a map from ids to items guarded by a lock, together  *)
(* with the tokio broadcast channel its changes are announced on           *)
(* (registry.rs).                                                          *)
(*                                                                         *)
(* Registry::add and Registry::remove change the map and send the change   *)
(* while they hold the write lock, and every reader of the map takes the   *)
(* read lock, so each is one step.  Registry::monitor takes no lock, but a *)
(* subscription that falls between the insertion and the send receives the *)
(* change, as one made just before the step does.                          *)
(*                                                                         *)
(* The channel keeps the last ChannelCap changes for its receivers; log is *)
(* the history of all of them, and a receiver is a position in it, owned   *)
(* by the component that subscribed.                                       *)
(***************************************************************************)
EXTENDS Naturals, Sequences, Functions

CONSTANTS Kinds,       \* the registries: actuators, consoles, volumes, devices
          Items,       \* what an item's Properties can be told apart by
          ChannelCap,  \* capacity of a registry's broadcast channel
          MaxId        \* bound: ids given out by one registry

ASSUME RegistryAssumption ==
  /\ ChannelCap \in Nat \ {0}
  /\ MaxId \in Nat

VARIABLES next,        \* next[k]: RegistryInner.next
          contents,    \* contents[k]: RegistryInner.contents, id to item
          log          \* log[k]: every change sent on the channel, in order

registryVars == <<next, contents, log>>

-----------------------------------------------------------------------------
\* RegistryChange
Added(i, item) == [op |-> "added", id |-> i, item |-> item]
Removed(i) == [op |-> "removed", id |-> i]

Changes == [op : {"added"}, id : Nat, item : Items]
             \cup [op : {"removed"}, id : Nat]

\* BTreeMap::insert and BTreeMap::remove
With(map, i, item) ==
  [j \in DOMAIN map \cup {i} |-> IF j = i THEN item ELSE map[j]]
Without(map, i) == Restrict(map, DOMAIN map \ {i})

\* A receiver at position p of the channel of k: what recv() has not
\* returned yet, whether the channel has dropped some of it, and where
\* recv() goes on after it returned Lagged.
Unseen(k, p) == (p + 1) .. Len(log[k])
HasLagged(k, p) == Len(log[k]) > p + ChannelCap
OldestKept(k) == Len(log[k]) - ChannelCap

-----------------------------------------------------------------------------
RegistryInit ==
  /\ next = [k \in Kinds |-> 0]
  /\ contents = [k \in Kinds |-> <<>>]
  /\ log = [k \in Kinds |-> <<>>]

\* Registry::add
Add(k, item) ==
  /\ next[k] < MaxId
  /\ next' = [next EXCEPT ![k] = @ + 1]
  /\ contents' = [contents EXCEPT ![k] = With(@, next[k], item)]
  /\ log' = [log EXCEPT ![k] = Append(@, Added(next[k], item))]

\* A wrong Remove: the change is not sent.
RemoveSilently(k, i) ==
  /\ i \in DOMAIN contents[k]
  /\ contents' = [contents EXCEPT ![k] = Without(@, i)]
  /\ UNCHANGED <<next, log>>

\* A wrong Remove: the id is given out again.
RemoveFreesId(k, i) ==
  /\ i \in DOMAIN contents[k]
  /\ next' = [next EXCEPT ![k] = i]
  /\ contents' = [contents EXCEPT ![k] = Without(@, i)]
  /\ log' = [log EXCEPT ![k] = Append(@, Removed(i))]

\* Registry::remove of an id that is present; any other call does nothing.
Remove(k, i) ==
  /\ i \in DOMAIN contents[k]
  /\ contents' = [contents EXCEPT ![k] = Without(@, i)]
  /\ log' = [log EXCEPT ![k] = Append(@, Removed(i))]
  /\ UNCHANGED next

RegistryNext ==
  \E k \in Kinds :
    \/ \E item \in Items : Add(k, item)
    \/ \E i \in DOMAIN contents[k] : Remove(k, i)

RegistrySpec == RegistryInit /\ [][RegistryNext]_registryVars

-----------------------------------------------------------------------------
IsItemMap(map) ==
  /\ DOMAIN map \subseteq Nat
  /\ map \in [DOMAIN map -> Items]

RegistryTypeOK ==
  /\ next \in [Kinds -> Nat]
  /\ DOMAIN contents = Kinds
  /\ \A k \in Kinds : IsItemMap(contents[k])
  /\ log \in [Kinds -> Seq(Changes)]

\* An id is given out once and removed at most once, after it was given out
\* (the promise of RegistryIndex: "each index has to be unique for the
\* duration of the process").
IdsNeverReused ==
  \A k \in Kinds : \A m, n \in 1 .. Len(log[k]) :
    m < n /\ log[k][m].id = log[k][n].id
      => log[k][m].op = "added" /\ log[k][n].op = "removed"

\* Ids not given out yet appear nowhere.
NextIsFresh ==
  \A k \in Kinds : \A m \in 1 .. Len(log[k]) : log[k][m].id < next[k]

\* What the channel announced is what the registry holds (Registry::add and
\* remove change the map and send under one lock): everything present was
\* added with these properties, everything added is present until its removal
\* was sent, and nothing whose removal was sent is present.
PresentWasAdded(k) ==
  \A i \in DOMAIN contents[k] :
    \E m \in 1 .. Len(log[k]) : log[k][m] = Added(i, contents[k][i])

AddedUntilRemoved(k) ==
  \A m \in 1 .. Len(log[k]) :
    log[k][m].op = "added" /\ log[k][m].id \notin DOMAIN contents[k]
      => \E n \in 1 .. Len(log[k]) : log[k][n] = Removed(log[k][m].id)

RemovedIsAbsent(k) ==
  \A m \in 1 .. Len(log[k]) :
    log[k][m].op = "removed" => log[k][m].id \notin DOMAIN contents[k]

ContentsMatchLog ==
  \A k \in Kinds : PresentWasAdded(k) /\ AddedUntilRemoved(k) /\ RemovedIsAbsent(k)

RegistryInv == RegistryTypeOK /\ NextIsFresh /\ IdsNeverReused /\ ContentsMatchLog
=============================================================================
