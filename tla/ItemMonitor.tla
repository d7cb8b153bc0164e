---------------------------- MODULE ItemMonitor ----------------------------
(***************************************************************************)
(* The Monitor RPC (Boardswarm::monitor in main.rs): a client is sent a    *)
(* snapshot of one registry and then every change, until the stream ends.  *)
(* view is what a client that applies the events holds.  HTTP/2 delivers   *)
(* the events in order, so sending an event and applying it is one step; a *)
(* client that reads slowly delays the steps of its feed, which is how a   *)
(* feed comes to lag behind the channel.                                   *)
(***************************************************************************)
EXTENDS Registry

CONSTANTS Feeds,       \* calls of the RPC
          MaxOpens     \* bound: calls made by one client, one after another

ASSUME ItemMonitorAssumption == MaxOpens \in Nat

VARIABLES stage,       \* stage[f]: where the call of f is
          kind,        \* kind[f]: the registry f asked for
          pos,         \* pos[f]: the position of the receiver
          view,        \* view[f]: id to item, as the client knows them
          opens        \* opens[f]: calls made so far

feedVars == <<stage, kind, pos, view, opens>>
vars == <<next, contents, log, stage, kind, pos, view, opens>>

Stages == {"idle", "subscribed", "streaming", "ended"}

-----------------------------------------------------------------------------
Init ==
  /\ RegistryInit
  /\ stage = [f \in Feeds |-> "idle"]
  /\ kind \in [Feeds -> Kinds]
  /\ pos = [f \in Feeds |-> 0]
  /\ view = [f \in Feeds |-> <<>>]
  /\ opens = [f \in Feeds |-> 0]

\* to_item_stream: registry.monitor()
Subscribe(f) ==
  /\ stage[f] = "idle"
  /\ opens[f] < MaxOpens
  /\ opens' = [opens EXCEPT ![f] = @ + 1]
  /\ stage' = [stage EXCEPT ![f] = "subscribed"]
  /\ pos' = [pos EXCEPT ![f] = Len(log[kind[f]])]
  /\ UNCHANGED <<next, contents, log, kind, view>>

\* to_item_stream: the initial event, made by to_item_list(registry)
Snapshot(f) ==
  /\ stage[f] = "subscribed"
  /\ stage' = [stage EXCEPT ![f] = "streaming"]
  /\ view' = [view EXCEPT ![f] = contents[kind[f]]]
  /\ UNCHANGED <<next, contents, log, kind, pos, opens>>

\* What an event does to the client's copy
Apply(map, change) ==
  IF change.op = "added" THEN With(map, change.id, change.item)
                         ELSE Without(map, change.id)

\* The unfold: monitor.recv() returned a change.
Deliver(f) ==
  /\ stage[f] = "streaming"
  /\ Unseen(kind[f], pos[f]) # {}
  /\ ~ HasLagged(kind[f], pos[f])
  /\ view' = [view EXCEPT ![f] = Apply(@, log[kind[f]][pos[f] + 1])]
  /\ pos' = [pos EXCEPT ![f] = @ + 1]
  /\ UNCHANGED <<next, contents, log, stage, kind, opens>>

\* A wrong EndOnLag: the stream goes on with what the channel still holds.
ContinueOnLag(f) ==
  /\ stage[f] = "streaming"
  /\ HasLagged(kind[f], pos[f])
  /\ pos' = [pos EXCEPT ![f] = OldestKept(kind[f])]
  /\ UNCHANGED <<next, contents, log, stage, kind, view, opens>>

\* A wrong EndOnLag: the stream starts over, and the copy with it.
StartOverOnLag(f) ==
  /\ stage[f] = "streaming"
  /\ HasLagged(kind[f], pos[f])
  /\ stage' = [stage EXCEPT ![f] = "subscribed"]
  /\ view' = [view EXCEPT ![f] = <<>>]
  /\ pos' = [pos EXCEPT ![f] = Len(log[kind[f]])]
  /\ UNCHANGED <<next, contents, log, kind, opens>>

\* The unfold: recv() returned Lagged, ok()? ends the stream.
EndOnLag(f) ==
  /\ stage[f] = "streaming"
  /\ HasLagged(kind[f], pos[f])
  /\ stage' = [stage EXCEPT ![f] = "ended"]
  /\ UNCHANGED <<next, contents, log, kind, pos, view, opens>>

\* The client drops the stream, or the connection breaks; its copy goes with
\* it, and it may call again.
Drop(f) ==
  /\ stage[f] # "idle"
  /\ stage' = [stage EXCEPT ![f] = "idle"]
  /\ view' = [view EXCEPT ![f] = <<>>]
  /\ UNCHANGED <<next, contents, log, kind, pos, opens>>

RegistryStep == RegistryNext /\ UNCHANGED feedVars

FeedStep(f) ==
  \/ Subscribe(f)
  \/ Snapshot(f)
  \/ Deliver(f)
  \/ EndOnLag(f)
  \/ Drop(f)

Next == RegistryStep \/ \E f \in Feeds : FeedStep(f)

\* The runtime keeps polling a stream whose client keeps reading it.
Fairness == \A f \in Feeds : WF_vars(Snapshot(f) \/ Deliver(f) \/ EndOnLag(f))

Spec == Init /\ [][Next]_vars
FairSpec == Spec /\ Fairness

-----------------------------------------------------------------------------
TypeOK ==
  /\ RegistryTypeOK
  /\ stage \in [Feeds -> Stages]
  /\ kind \in [Feeds -> Kinds]
  /\ pos \in [Feeds -> Nat]
  /\ DOMAIN view = Feeds
  /\ \A f \in Feeds : IsItemMap(view[f])
  /\ opens \in [Feeds -> Nat]

CaughtUp(f) == pos[f] = Len(log[kind[f]])

\* A client that has been sent everything the channel holds has an exact copy
\* of the registry, however the registry changed between the subscription and
\* the snapshot (main.rs subscribes first and then reads the contents).
MirrorExact ==
  \A f \in Feeds :
    stage[f] = "streaming" /\ CaughtUp(f) => view[f] = contents[kind[f]]

\* The inductive strengthening of MirrorExact.  An item the client holds was
\* added with these properties, and if it has left the registry its removal
\* is still to come; an item the client lacks is still to come.
HeldWasAdded(f) ==
  \A i \in DOMAIN view[f] :
    \E m \in 1 .. Len(log[kind[f]]) : log[kind[f]][m] = Added(i, view[f][i])

GoneWillBeRemoved(f) ==
  \A i \in DOMAIN view[f] \ DOMAIN contents[kind[f]] :
    \E m \in Unseen(kind[f], pos[f]) : log[kind[f]][m] = Removed(i)

MissingWillBeAdded(f) ==
  \A i \in DOMAIN contents[kind[f]] \ DOMAIN view[f] :
    \E m \in Unseen(kind[f], pos[f]) :
      log[kind[f]][m] = Added(i, contents[kind[f]][i])

FeedInv ==
  \A f \in Feeds :
    /\ pos[f] <= Len(log[kind[f]])
    /\ stage[f] = "streaming" =>
         HeldWasAdded(f) /\ GoneWillBeRemoved(f) /\ MissingWillBeAdded(f)

\* What holds in every state of the registry and of its clients, and is inductive:
\* the history that was sent is that of the map (registry.rs sends from inside
\* the lock), and what a client lacks or holds too much is still to be sent.
MonitorInv == TypeOK /\ RegistryInv /\ FeedInv

\* While the stream lasts, a client forgets an item only after the item left
\* the registry: nothing on the stream makes it lose one that is still there.
ForgetsOnlyRemoved ==
  [][\A f \in Feeds : stage[f] = "streaming" /\ stage'[f] # "idle" =>
       \A i \in DOMAIN view[f] \ DOMAIN view'[f] : i \notin DOMAIN contents[kind[f]]]_vars

\* When the registry stops changing, a stream that stays open brings its
\* client to the registry's contents, whatever it has been sent before.
Settles ==
  \A f \in Feeds :
    []<>(stage[f] # "streaming" \/ view[f] = contents[kind[f]])
=============================================================================
