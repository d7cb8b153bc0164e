--------------------------- MODULE RemoteProvider ---------------------------
(***************************************************************************)
(* The boardswarm provider (boardswarm_provider/mod.rs), which re-exports  *)
(* the items of a remote server: for each kind it follows the Monitor RPC  *)
(* of the remote, asks for the properties of every item it is told of and  *)
(* registers a proxy for it in the local server; the maps from remote to   *)
(* local ids are what removals go by.  The registries of Registry are the  *)
(* remote's here.                                                          *)
(*                                                                         *)
(* The channel to the remote outlives a connection: a call made after one  *)
(* broke connects again and is answered, by a remote that may have         *)
(* restarted, while the streams of the old connection have yet to end.     *)
(*                                                                         *)
(* A call the provider does not expect to fail is unwrapped: its panic     *)
(* ends the provider's task, with everything it was doing.                 *)
(***************************************************************************)
EXTENDS Registry

CONSTANTS Detailed,      \* kinds for which the remote is asked a second time
          MaxConnects,   \* bound: rounds of the provider's loop
          MaxRestarts,   \* bound: restarts of the remote server
          None           \* no item

ASSUME RemoteAssumption ==
  /\ Detailed \subseteq Kinds
  /\ MaxConnects \in Nat /\ MaxRestarts \in Nat
  /\ None \notin Nat

VARIABLES
  link,        \* the channel to the remote is connected
  conn,        \* rounds of the provider's loop: channels made so far
  restarts,    \* restarts of the remote so far
  cut,         \* kinds whose stream was that of a connection that broke
  arrived,     \* arrived[k]: events that a cut stream still delivers
  task,        \* the provider's task
  phase,       \* phase[k]: where monitor_items is for this kind
  pos,         \* pos[k]: what has been taken from the stream
  todo,        \* todo[k]: remote ids of an Added event that are still to be added
  asked,       \* asked[k]: the item add_item is at, or None
  answers,     \* answers[k]: what the remote has told of it
  mapped,      \* mapped[k]: Provider's map from remote to local ids
  local,       \* local registrations, by the proxy each is for
  localIds,    \* local ids given out so far
  displaced    \* local ids an insertion has replaced in a map

streamsVars == <<cut, arrived>>
linkVars == <<link, conn, restarts, streamsVars>>
kindVars == <<phase, pos, todo, asked, answers>>
localVars == <<mapped, local, localIds, displaced>>
reexportVars == <<registryVars, linkVars, task, kindVars, localVars>>

Proxy == [id : Nat, kind : Kinds, remote : Nat, conn : Nat]

ProviderTypeOK ==
  /\ RegistryTypeOK
  /\ link \in BOOLEAN /\ conn \in 0 .. MaxConnects /\ restarts \in 0 .. MaxRestarts
  /\ cut \subseteq Kinds /\ arrived \in [Kinds -> Seq(Changes)]
  /\ task \in {"connecting", "monitoring", "panicked"}
  /\ phase \in [Kinds -> {"off", "calling", "subscribed", "streaming", "drained"}]
  /\ pos \in [Kinds -> Nat]
  /\ todo \in [Kinds -> SUBSET Nat]
  /\ asked \in [Kinds -> Nat \cup {None}]
  /\ answers \in [Kinds -> 0 .. 2]
  /\ DOMAIN mapped = Kinds
  /\ \A k \in Kinds : DOMAIN mapped[k] \subseteq Nat /\ mapped[k] \in [DOMAIN mapped[k] -> Nat]
  /\ local \subseteq Proxy
  /\ localIds \in Nat /\ displaced \subseteq Nat

ProviderInit ==
  /\ RegistryInit
  /\ link = FALSE /\ conn = 0 /\ restarts = 0
  /\ cut = {} /\ arrived = [k \in Kinds |-> << >>]
  /\ task = "connecting"
  /\ phase = [k \in Kinds |-> "off"]
  /\ pos = [k \in Kinds |-> 0]
  /\ todo = [k \in Kinds |-> {}]
  /\ asked = [k \in Kinds |-> None]
  /\ answers = [k \in Kinds |-> 0]
  /\ mapped = [k \in Kinds |-> << >>]
  /\ local = {} /\ localIds = 0 /\ displaced = {}

-----------------------------------------------------------------------------
(* The remote and the connection.  While there is no connection the remote *)
(* need not change: the change could as well follow the next one.          *)

RemoteChanges ==
  /\ link
  /\ RegistryNext
  /\ UNCHANGED <<linkVars, task, kindVars, localVars>>

\* A remote that restarts gives its ids out anew.
RemoteRestarts ==
  /\ ~ link
  /\ restarts < MaxRestarts
  /\ restarts' = restarts + 1
  /\ next' = [k \in Kinds |-> 0]
  /\ contents' = [k \in Kinds |-> << >>]
  /\ log' = [k \in Kinds |-> << >>]
  /\ UNCHANGED <<link, conn, streamsVars, task, kindVars, localVars>>

\* All streams break.  Events that had arrived may still be delivered.
Break ==
  LET broken == {k \in Kinds : phase[k] \in {"subscribed", "streaming"}} \ cut
  IN  /\ link
      /\ link' = FALSE
      /\ cut' = cut \cup broken
      /\ arrived' = [k \in Kinds |->
           IF k \notin broken THEN arrived[k]
           ELSE IF HasLagged(k, pos[k]) THEN << >>
           ELSE SubSeq(log[k], pos[k] + 1, Len(log[k]))]
      /\ UNCHANGED <<registryVars, conn, restarts, task, kindVars, localVars>>

\* The channel connects again for a call; the streams it had are not resumed.
Rejoin ==
  /\ task = "monitoring" /\ ~ link
  /\ link' = TRUE
  /\ UNCHANGED <<registryVars, conn, restarts, streamsVars, task, kindVars, localVars>>

-----------------------------------------------------------------------------
(* The provider's task. *)

\* start_provider: connect() succeeded, monitor_items is called for each kind.
Connect ==
  /\ task = "connecting" /\ conn < MaxConnects
  /\ link' = TRUE
  /\ conn' = conn + 1
  /\ task' = "monitoring"
  /\ phase' = [k \in Kinds |-> "calling"]
  /\ cut' = {} /\ arrived' = [k \in Kinds |-> << >>]
  /\ UNCHANGED <<registryVars, restarts, pos, todo, asked, answers, localVars>>

\* join! returns when all kinds are done; the loop starts again.
Reconnect ==
  /\ task = "monitoring"
  /\ \A k \in Kinds : phase[k] = "drained"
  /\ task' = "connecting"
  /\ link' = FALSE
  /\ phase' = [k \in Kinds |-> "off"]
  /\ UNCHANGED <<registryVars, conn, restarts, streamsVars, pos, todo, asked, answers, localVars>>

Panic ==
  /\ task' = "panicked"
  /\ link' = FALSE
  /\ UNCHANGED <<registryVars, conn, restarts, streamsVars, kindVars, localVars>>

\* monitor(): the remote subscribes to its registry...
Subscribe(k) ==
  /\ phase[k] = "calling" /\ link
  /\ phase' = [phase EXCEPT ![k] = "subscribed"]
  /\ pos' = [pos EXCEPT ![k] = Len(log[k])]
  /\ UNCHANGED <<registryVars, linkVars, task, todo, asked, answers, localVars>>

\* ... and then lists it for the first event.
Snapshot(k) ==
  /\ phase[k] = "subscribed" /\ link /\ k \notin cut
  /\ phase' = [phase EXCEPT ![k] = "streaming"]
  /\ todo' = [todo EXCEPT ![k] = DOMAIN contents[k]]
  /\ UNCHANGED <<registryVars, linkVars, task, pos, asked, answers, localVars>>

\* remote.monitor(type_).await.unwrap()
MonitorFails(k) ==
  /\ \/ phase[k] = "calling" /\ ~ link
     \/ phase[k] = "subscribed" /\ k \in cut
  /\ Panic

\* A wrong Free: items are added by tasks of their own, not awaited.
FreeWhileAdding(k) == phase[k] = "streaming" /\ todo[k] = {}

Free(k) == phase[k] = "streaming" /\ todo[k] = {} /\ asked[k] = None

\* ItemEvent::Added
DeliverAdded(k) ==
  /\ Free(k) /\ k \notin cut /\ Unseen(k, pos[k]) # {} /\ ~ HasLagged(k, pos[k])
  /\ log[k][pos[k] + 1].op = "added"
  /\ pos' = [pos EXCEPT ![k] = @ + 1]
  /\ todo' = [todo EXCEPT ![k] = {log[k][pos[k] + 1].id}]
  /\ UNCHANGED <<registryVars, linkVars, task, phase, asked, answers, localVars>>

\* A wrong AskProperties: only the first item of an event is added.
AskFirstProperties(k) ==
  /\ phase[k] = "streaming" /\ asked[k] = None
  /\ \E i \in todo[k] :
       /\ \A j \in todo[k] : i <= j
       /\ asked' = [asked EXCEPT ![k] = i]
  /\ todo' = [todo EXCEPT ![k] = {}]
  /\ answers' = [answers EXCEPT ![k] = 0]
  /\ UNCHANGED <<registryVars, linkVars, task, phase, pos, localVars>>

\* add_item, for the items of an event one after another, by their ids
AskProperties(k) ==
  /\ phase[k] = "streaming" /\ asked[k] = None
  /\ \E i \in todo[k] :
       /\ \A j \in todo[k] : i <= j
       /\ asked' = [asked EXCEPT ![k] = i]
       /\ todo' = [todo EXCEPT ![k] = @ \ {i}]
  /\ answers' = [answers EXCEPT ![k] = 0]
  /\ UNCHANGED <<registryVars, linkVars, task, phase, pos, localVars>>

GetProperties(k) ==
  /\ phase[k] = "streaming" /\ asked[k] # None /\ answers[k] = 0
  /\ link /\ asked[k] \in DOMAIN contents[k]
  /\ answers' = [answers EXCEPT ![k] = 1]
  /\ UNCHANGED <<registryVars, linkVars, task, phase, pos, todo, asked, localVars>>

\* remote.properties(type_, id).await.unwrap()
PropertiesFail(k) ==
  /\ phase[k] = "streaming" /\ asked[k] # None /\ answers[k] = 0
  /\ ~ link \/ asked[k] \notin DOMAIN contents[k]
  /\ Panic

\* BoardswarmDevice::new and BoardswarmVolume::new ask once more.
GetDetails(k) ==
  /\ phase[k] = "streaming" /\ asked[k] # None
  /\ k \in Detailed /\ answers[k] = 1
  /\ link /\ asked[k] \in DOMAIN contents[k]
  /\ answers' = [answers EXCEPT ![k] = 2]
  /\ UNCHANGED <<registryVars, linkVars, task, phase, pos, todo, asked, localVars>>

\* The proxy is registered, and its id entered in the map.
RegisterItem(k) ==
  /\ phase[k] = "streaming" /\ asked[k] # None
  /\ answers[k] = IF k \in Detailed THEN 2 ELSE 1
  /\ localIds' = localIds + 1
  /\ local' = local \cup {[id |-> localIds, kind |-> k, remote |-> asked[k], conn |-> conn]}
  /\ mapped' = [mapped EXCEPT ![k] = With(@, asked[k], localIds)]
  /\ displaced' = IF asked[k] \in DOMAIN mapped[k]
                  THEN displaced \cup {mapped[k][asked[k]]} ELSE displaced
  /\ asked' = [asked EXCEPT ![k] = None]
  /\ UNCHANGED <<registryVars, linkVars, task, phase, pos, todo, answers>>

\* BoardswarmDevice::new or BoardswarmVolume::new failed: a warning.
SkipItem(k) ==
  /\ phase[k] = "streaming" /\ asked[k] # None
  /\ k \in Detailed /\ answers[k] = 1 /\ (~ link \/ asked[k] \notin DOMAIN contents[k])
  /\ asked' = [asked EXCEPT ![k] = None]
  /\ UNCHANGED <<registryVars, linkVars, task, phase, pos, todo, answers, localVars>>

WithId(ids) == {p \in local : p.id \in ids}

\* remove_item
RemoveItem(k, gone) ==
  /\ mapped' = [mapped EXCEPT ![k] = Without(@, gone)]
  /\ local' = IF gone \in DOMAIN mapped[k]
              THEN local \ WithId({mapped[k][gone]}) ELSE local

\* ItemEvent::Removed
DeliverRemoved(k) ==
  /\ Free(k) /\ k \notin cut /\ Unseen(k, pos[k]) # {} /\ ~ HasLagged(k, pos[k])
  /\ log[k][pos[k] + 1].op = "removed"
  /\ pos' = [pos EXCEPT ![k] = @ + 1]
  /\ RemoveItem(k, log[k][pos[k] + 1].id)
  /\ UNCHANGED <<registryVars, linkVars, task, phase, todo, asked, answers, localIds, displaced>>

\* An event that had arrived when the connection broke, of either kind.
DeliverArrived(k) ==
  /\ Free(k) /\ k \in cut /\ arrived[k] # << >>
  /\ LET event == Head(arrived[k])
     IN  \/ /\ event.op = "added"
            /\ todo' = [todo EXCEPT ![k] = {event.id}]
            /\ UNCHANGED <<mapped, local>>
         \/ /\ event.op = "removed"
            /\ RemoveItem(k, event.id)
            /\ UNCHANGED todo
  /\ arrived' = [arrived EXCEPT ![k] = Tail(@)]
  /\ UNCHANGED <<registryVars, link, conn, restarts, cut, task, phase, pos, asked, answers,
                 localIds, displaced>>

\* A wrong Drain: it unregisters the proxies and keeps the map.
DrainKeepsMap(k) ==
  /\ \/ Free(k) /\ (k \in cut \/ HasLagged(k, pos[k]))
     \/ phase[k] = "subscribed" /\ k \in cut
  /\ phase' = [phase EXCEPT ![k] = "drained"]
  /\ local' = local \ WithId({mapped[k][r] : r \in DOMAIN mapped[k]})
  /\ UNCHANGED <<registryVars, linkVars, task, pos, todo, asked, answers, mapped, localIds, displaced>>

\* The stream ends, because the receiver of the remote lagged or the
\* connection broke, be it before the first event arrived: what is in the map
\* is unregistered.
Drain(k) ==
  /\ \/ Free(k) /\ (k \in cut \/ HasLagged(k, pos[k]))
     \/ phase[k] = "subscribed" /\ k \in cut
  /\ phase' = [phase EXCEPT ![k] = "drained"]
  /\ local' = local \ WithId({mapped[k][r] : r \in DOMAIN mapped[k]})
  /\ mapped' = [mapped EXCEPT ![k] = << >>]
  /\ UNCHANGED <<registryVars, linkVars, task, pos, todo, asked, answers, localIds, displaced>>

KindStep(k) ==
  /\ task = "monitoring"
  /\ \/ Subscribe(k) \/ Snapshot(k) \/ MonitorFails(k)
     \/ DeliverAdded(k) \/ AskProperties(k) \/ GetProperties(k) \/ PropertiesFail(k) \/ GetDetails(k)
     \/ RegisterItem(k) \/ SkipItem(k) \/ DeliverRemoved(k) \/ DeliverArrived(k) \/ Drain(k)

ProviderNext ==
  \/ RemoteChanges \/ RemoteRestarts \/ Break \/ Rejoin
  \/ Connect \/ Reconnect
  \/ \E k \in Kinds : KindStep(k)

ProviderSpec == ProviderInit /\ [][ProviderNext]_reexportVars

\* The provider's task runs, and the remote answers it while the connection lasts.
FairProviderSpec == ProviderSpec /\ WF_reexportVars(Connect) /\ WF_reexportVars(Reconnect) /\ \A k \in Kinds : WF_reexportVars(KindStep(k))

-----------------------------------------------------------------------------
(* Properties. *)

CaughtUp(k) ==
  /\ task = "monitoring" /\ link /\ phase[k] = "streaming" /\ k \notin cut
  /\ todo[k] = {} /\ asked[k] = None /\ pos[k] = Len(log[k])

\* Once the provider has followed everything the remote sent on a stream of this
\* connection, its map has exactly the remote's items, whatever came or went while it
\* was asking for the properties of another and although snapshot and changes overlap.
MirrorsRemote == \A k \in Kinds : CaughtUp(k) => DOMAIN mapped[k] = DOMAIN contents[k]

\* The local ids in the maps, which re-exported devices hand out, are those of
\* proxies that are registered, for that very item and in this round of the
\* provider's loop: nothing of an earlier round is taken for an item of this one,
\* although a remote that has restarted reuses ids.  Within a round they may be mixed
\* up, from a restart until the end of the broken stream is seen: an item announced
\* before it is then asked for under an id that is another's.
MappedAreRegistered ==
  \A k \in Kinds : \A r \in DOMAIN mapped[k] :
    [id |-> mapped[k][r], kind |-> k, remote |-> r, conn |-> conn] \in local

\* A proxy that is in no map, so that nothing will ever remove it, is one that
\* was displaced by a second registration of the same item.
OrphansWereDisplaced ==
  \A p \in local :
    p.id \notin displaced =>
      p.remote \in DOMAIN mapped[p.kind] /\ mapped[p.kind][p.remote] = p.id

\* The provider's maps, the remote's items and the local registry agree, but for
\* what was displaced.
ProviderInv == ProviderTypeOK /\ MappedAreRegistered /\ OrphansWereDisplaced /\ MirrorsRemote

\* "exposes all remote items as local ones": when it has caught up, what it
\* exposes is what the remote has.  Does not hold: an item that is announced twice
\* is registered twice, and the first registration is never removed.
ExposesRemoteItems ==
  \A k \in Kinds : CaughtUp(k) =>
    {p.remote : p \in {q \in local : q.kind = k}} = DOMAIN contents[k]

\* "If the connection breaks; drop all registrations": the provider never ends
\* and leaves registrations behind.  Does not hold: properties().await.unwrap().
NothingLeftBehind == task = "panicked" => local = {}

\* While all streams last, every item of a remote that no longer changes is
\* re-exported in the end.
ReexportsWhileStreaming ==
  <>[](link /\ \A k \in Kinds : phase[k] # "drained")
    => \A k \in Kinds : []<>(DOMAIN mapped[k] = DOMAIN contents[k])

\* The provider "(re)exports all its items locally" for as long as the
\* connection lasts, whatever happens to a single stream of it.  Does not hold:
\* join! waits for the other streams before the provider connects anew.
ReexportsAll == <>[]link => \A k \in Kinds : []<>(DOMAIN mapped[k] = DOMAIN contents[k])
=============================================================================
