---------------------------- MODULE RemoteDevice ----------------------------
(***************************************************************************)
(* A re-exported device (boardswarm_provider/device.rs): it follows the    *)
(* DeviceInfo stream of the remote device and replaces the remote ids of   *)
(* the device's consoles and volumes by the local ids of their proxies,    *)
(* which it looks up in the maps of the Provider.  A notice of the         *)
(* Provider makes it look again.  Consoles and volumes are treated alike   *)
(* and are one kind here.                                                  *)
(***************************************************************************)
EXTENDS Integers, Sequences, Functions

CONSTANTS Remotes,     \* ids of consoles and volumes in the remote server
          MaxLocals,   \* bound: proxies registered
          MaxInfos,    \* bound: updates of the remote device
          MaxDrains    \* bound: times the map of proxies is drained

ASSUME RemoteDeviceAssumption ==
  MaxLocals \in Nat /\ MaxInfos \in Nat /\ MaxDrains \in Nat

VARIABLES
  proxies,    \* Provider: map from remote to local ids
  locals,     \* local ids given out so far
  drains,     \* drains so far
  owed,       \* a change of the map is still to be notified
  stream,     \* infos on their way, each the set of remote ids it has
  infos,      \* infos sent so far
  ended,      \* the remote's end of the stream has ended
  stage,      \* the device: not made, made, its task watching, its task returned
  info,       \* BoardswarmDeviceInner: the last info
  mapping,    \* BoardswarmDeviceInner: console_mapping, volume_mapping
  notice,     \* the receiver of the Provider's notifier has a notice
  told,       \* what a watcher of the device has seen
  missed      \* changes of the map since the last look which nothing announced

providerVars == <<proxies, locals, drains, owed>>
streamVars == <<stream, infos, ended>>
deviceVars == <<stage, info, mapping>>
vars == <<providerVars, streamVars, deviceVars, notice, told, missed>>

LocalIds == 0 .. MaxLocals - 1
Mappings == UNION {[S -> LocalIds] : S \in SUBSET Remotes}

TypeOK ==
  /\ proxies \in Mappings /\ locals \in 0 .. MaxLocals /\ drains \in 0 .. MaxDrains
  /\ owed \in BOOLEAN /\ notice \in BOOLEAN /\ ended \in BOOLEAN
  /\ stream \in Seq(SUBSET Remotes) /\ infos \in 0 .. MaxInfos
  /\ stage \in {"none", "made", "watching", "returned"}
  /\ info \in SUBSET Remotes
  /\ mapping \in Mappings /\ told \in Mappings
  /\ missed \in SUBSET {"start", "drain"}

Init ==
  /\ proxies = << >> /\ locals = 0 /\ drains = 0 /\ owed = FALSE
  /\ stream = << >> /\ infos = 0 /\ ended = FALSE
  /\ stage = "none" /\ info = {} /\ mapping = << >>
  /\ notice = FALSE /\ told = << >> /\ missed = {}

-----------------------------------------------------------------------------
(* The Provider: the map first, the notice then.  Its task does nothing in *)
(* between, other tasks may.                                               *)

\* What changes before the device's task has started is announced to nobody.
MissedAtStart == IF stage = "made" THEN {"start"} ELSE {}

AddProxy ==
  /\ ~ owed /\ locals < MaxLocals
  /\ \E r \in Remotes :
       proxies' = [x \in DOMAIN proxies \cup {r} |-> IF x = r THEN locals ELSE proxies[x]]
  /\ locals' = locals + 1
  /\ owed' = TRUE
  /\ missed' = missed \cup MissedAtStart
  /\ UNCHANGED <<drains, streamVars, deviceVars, notice, told>>

RemoveProxy ==
  /\ ~ owed
  /\ \E r \in DOMAIN proxies : proxies' = Restrict(proxies, DOMAIN proxies \ {r})
  /\ owed' = TRUE
  /\ missed' = missed \cup MissedAtStart
  /\ UNCHANGED <<locals, drains, streamVars, deviceVars, notice, told>>

\* A change that a receiver still gets the notice of is not missed.
Notify ==
  /\ owed
  /\ owed' = FALSE
  /\ notice' = (notice \/ stage = "watching")
  /\ missed' = IF stage = "watching" THEN missed \ {"start"} ELSE missed
  /\ UNCHANGED <<proxies, locals, drains, streamVars, deviceVars, told>>

\* The end of one of the Monitor streams: nothing is notified.
DrainProxies ==
  /\ ~ owed /\ drains < MaxDrains /\ proxies # << >>
  /\ drains' = drains + 1
  /\ proxies' = << >>
  /\ missed' = missed \cup MissedAtStart \cup IF stage = "watching" THEN {"drain"} ELSE {}
  /\ UNCHANGED <<locals, owed, streamVars, deviceVars, notice, told>>

-----------------------------------------------------------------------------
(* The stream of the remote device. *)

SendInfo ==
  /\ ~ ended /\ infos < MaxInfos
  /\ \E i \in SUBSET Remotes : stream' = Append(stream, i)
  /\ infos' = infos + 1
  /\ UNCHANGED <<providerVars, ended, deviceVars, notice, told, missed>>

EndInfos ==
  /\ ~ ended
  /\ ended' = TRUE
  /\ UNCHANGED <<providerVars, stream, infos, deviceVars, notice, told, missed>>

-----------------------------------------------------------------------------
(* The device. *)

Lookup(i) == Restrict(proxies, i \cap DOMAIN proxies)

\* update_mappings()
UpdateMappings(i) ==
  /\ mapping' = Lookup(i)
  /\ missed' = {}

\* BoardswarmDevice::new, in the Provider's task: nobody can watch the device
\* before it is registered.
Make ==
  /\ stage = "none" /\ stream # << >> /\ ~ owed
  /\ info' = Head(stream)
  /\ stream' = Tail(stream)
  /\ UpdateMappings(info')
  /\ told' = mapping'
  /\ stage' = "made"
  /\ UNCHANGED <<providerVars, infos, ended, notice>>

\* monitor_device starts: provider.watch()
Watch ==
  /\ stage = "made"
  /\ stage' = "watching"
  /\ UNCHANGED <<providerVars, streamVars, info, mapping, notice, told, missed>>

\* updates.next(): update() and a notification
Update ==
  /\ stage = "watching" /\ stream # << >>
  /\ info' = Head(stream)
  /\ stream' = Tail(stream)
  /\ UpdateMappings(info')
  /\ told' = mapping'
  /\ UNCHANGED <<providerVars, infos, ended, stage, notice>>

Return ==
  /\ stage = "watching" /\ stream = << >> /\ ended
  /\ stage' = "returned"
  /\ UNCHANGED <<providerVars, streamVars, info, mapping, notice, told, missed>>

\* A wrong Differs: only what is new is noticed.
DiffersIfNew(r) == r \in DOMAIN proxies /\ r \notin DOMAIN mapping

\* provider_sync(): a remote id whose local one is not what the map has, or is
\* mapped on one side only
Differs(r) ==
  \/ (r \in DOMAIN proxies) # (r \in DOMAIN mapping)
  \/ r \in DOMAIN proxies /\ proxies[r] # mapping[r]

\* watch.recv(), also when it has lagged
Sync ==
  /\ stage = "watching" /\ notice
  /\ notice' = FALSE
  /\ IF \E r \in info : Differs(r)
     THEN UpdateMappings(info) /\ told' = mapping'
     ELSE missed' = {} /\ UNCHANGED <<mapping, told>>
  /\ UNCHANGED <<providerVars, streamVars, stage, info>>

Next ==
  \/ AddProxy \/ RemoveProxy \/ Notify \/ DrainProxies
  \/ SendInfo \/ EndInfos
  \/ Make \/ Watch \/ Update \/ Return \/ Sync

Spec == Init /\ [][Next]_vars

-----------------------------------------------------------------------------
(* Properties. *)

\* The device has taken everything it was sent.
Settled == stage = "watching" /\ stream = << >> /\ ~ notice /\ ~ owed

Current == mapping = Lookup(info)

\* A device that has taken all updates and notices shows the local ids the
\* Provider has for its remote ones, unless a change of them was announced to
\* nobody.
CurrentUnlessMissed == Settled /\ missed = {} => Current

\* A watcher of the device that reads it at every notification has seen what
\* the device shows.
WatchersAreTold == told = mapping

\* A device of a remote server, its provider's map and its watchers agree.
DeviceInv == TypeOK /\ CurrentUnlessMissed /\ WatchersAreTold

\* "Check if the remote id provider had relevant changes changing our mappings":
\* the first ones, made before the device's task has started, are relevant too.  Does not hold.
CurrentFromStart == Settled /\ "drain" \notin missed => Current

\* The same, for the proxies dropped when a Monitor stream has ended.  Does not hold.
CurrentAfterDrain == Settled /\ "start" \notin missed => Current
=============================================================================
