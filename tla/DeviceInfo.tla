----------------------------- MODULE DeviceInfo -----------------------------
(***************************************************************************)
(* The DeviceInfo RPC (device_info in main.rs) over the modes and links of *)
(* a device, and the client's copy of it (Device in the client crate's     *)
(* device.rs) with the tasks that wait for a volume on that copy.          *)
(*                                                                         *)
(* The stream sends the device as it is when the call is made and again    *)
(* after each notification.  The notifier is a broadcast channel of        *)
(* capacity 1, and DeviceMonitor::wait goes on after Lagged, so a waiting  *)
(* stream that wakes has consumed every notification sent so far.          *)
(*                                                                         *)
(* The stream and the client's monitor task that reads it take turns; a    *)
(* message on its way to the client delays their next step.                *)
(***************************************************************************)
EXTENDS DeviceMode

CONSTANTS Watchers,    \* clients with a DeviceInfo stream
          MaxLinks     \* bound: changes of the volume's link

ASSUME DeviceInfoAssumption == MaxLinks \in Nat

VARIABLES volume,      \* whether the device's volume is linked (DeviceItem.id)
          linkChanges, \* changes of the link so far
          at,          \* at[w]: where the stream of w is
          half,        \* half[w]: the links it has read, before current_mode
          seen,        \* seen[w]: notifications its receiver has consumed
          told,        \* told[w]: the client's copy (DeviceInner.device)
          fresh,       \* fresh[w]: told was read after a notification
          updates,     \* updates[w]: sends on the client's watch channel
          waiter,      \* waiter[w]: a task of the client that waits for the volume
          wants,       \* wants[w]: in wait (TRUE) or in wait_unavailable (FALSE)
          checked      \* checked[w]: the updates that task has seen

linkVars == <<volume, linkChanges>>
watchVars == <<at, half, seen, told, fresh, updates, waiter, wants, checked>>
infoVars == <<current, call, actuator, calls, finished, owed, notified,
              stray, overlapped, touched, volume, linkChanges, at, half, seen, told, fresh, updates, waiter, wants, checked>>

Info == [volume : BOOLEAN, mode : Modes \cup {NoMode}]
NoInfo == [volume |-> FALSE, mode |-> NoMode]

InfoInit ==
  /\ ModeInit
  /\ volume = FALSE
  /\ linkChanges = 0
  /\ at = [w \in Watchers |-> "idle"]
  /\ half = [w \in Watchers |-> FALSE]
  /\ seen = [w \in Watchers |-> 0]
  /\ told = [w \in Watchers |-> NoInfo]
  /\ fresh = [w \in Watchers |-> FALSE]
  /\ updates = [w \in Watchers |-> 0]
  /\ waiter = [w \in Watchers |-> "none"]
  /\ wants = [w \in Watchers |-> TRUE]
  /\ checked = [w \in Watchers |-> 0]

\* Device::monitor_items changes the link, and notifies after that.
ChangeLink ==
  /\ linkChanges < MaxLinks
  /\ linkChanges' = linkChanges + 1
  /\ volume' = ~ volume
  /\ owed' = owed + 1
  /\ UNCHANGED <<current, call, actuator, calls, finished, notified, stray, overlapped, touched>>
  /\ UNCHANGED watchVars

-----------------------------------------------------------------------------
\* device_info: let info = (&*device).into() reads the links and then the
\* mode, each under its own lock.
ReadLinks(w, from, to) ==
  /\ at[w] = from
  /\ at' = [at EXCEPT ![w] = to]
  /\ half' = [half EXCEPT ![w] = volume]
  /\ UNCHANGED modeVars /\ UNCHANGED linkVars
  /\ UNCHANGED <<seen, told, fresh, updates, waiter, wants, checked>>

Call(w) == ReadLinks(w, "idle", "calling")

\* The rest of the first reading, which becomes the client's copy when
\* Device::new has received it.
FirstInfo(w) ==
  /\ at[w] = "calling"
  /\ at' = [at EXCEPT ![w] = "unsubscribed"]
  /\ told' = [told EXCEPT ![w] = [volume |-> half[w], mode |-> current]]
  /\ fresh' = [fresh EXCEPT ![w] = FALSE]
  /\ UNCHANGED modeVars /\ UNCHANGED linkVars
  /\ UNCHANGED <<half, seen, updates, waiter, wants, checked>>

\* device_info: let monitor = device.updates()
Subscribe(w) ==
  /\ at[w] = "unsubscribed"
  /\ at' = [at EXCEPT ![w] = "waiting"]
  /\ seen' = [seen EXCEPT ![w] = notified]
  /\ UNCHANGED modeVars /\ UNCHANGED linkVars
  /\ UNCHANGED <<half, told, fresh, updates, waiter, wants, checked>>

\* The unfold: monitor.wait() returns.
Wake(w) ==
  /\ at[w] = "waiting"
  /\ seen[w] < notified
  /\ at' = [at EXCEPT ![w] = "woken"]
  /\ seen' = [seen EXCEPT ![w] = notified]
  /\ UNCHANGED modeVars /\ UNCHANGED linkVars
  /\ UNCHANGED <<half, told, fresh, updates, waiter, wants, checked>>

Reread(w) == ReadLinks(w, "woken", "reading")

\* A wrong Store: the stream takes a new receiver after it has read the
\* device, as device_info does for the first message.
StoreResubscribes(w) ==
  /\ at[w] = "reading"
  /\ at' = [at EXCEPT ![w] = "stored"]
  /\ told' = [told EXCEPT ![w] = [volume |-> half[w], mode |-> current]]
  /\ fresh' = [fresh EXCEPT ![w] = TRUE]
  /\ seen' = [seen EXCEPT ![w] = notified]
  /\ UNCHANGED modeVars /\ UNCHANGED linkVars
  /\ UNCHANGED <<half, updates, waiter, wants, checked>>

\* The rest of the reading reaches the client, whose monitor task stores it...
Store(w) ==
  /\ at[w] = "reading"
  /\ at' = [at EXCEPT ![w] = "stored"]
  /\ told' = [told EXCEPT ![w] = [volume |-> half[w], mode |-> current]]
  /\ fresh' = [fresh EXCEPT ![w] = TRUE]
  /\ UNCHANGED modeVars /\ UNCHANGED linkVars
  /\ UNCHANGED <<half, seen, updates, waiter, wants, checked>>

\* A wrong Send: nothing is sent.
SendNothing(w) ==
  /\ at[w] = "stored"
  /\ at' = [at EXCEPT ![w] = "waiting"]
  /\ UNCHANGED modeVars /\ UNCHANGED linkVars
  /\ UNCHANGED <<half, seen, told, fresh, updates, waiter, wants, checked>>

\* ... and then sends on the watch channel.
Send(w) ==
  /\ at[w] = "stored"
  /\ at' = [at EXCEPT ![w] = "waiting"]
  /\ updates' = [updates EXCEPT ![w] = @ + 1]
  /\ UNCHANGED modeVars /\ UNCHANGED linkVars
  /\ UNCHANGED <<half, seen, told, fresh, waiter, wants, checked>>

\* The stream ends because the connection broke: the monitor task ends, and
\* the client keeps its last copy and its watch channel.
StreamEnds(w) ==
  /\ at[w] \in {"unsubscribed", "waiting", "woken", "reading"}
  /\ at' = [at EXCEPT ![w] = "ended"]
  /\ UNCHANGED modeVars /\ UNCHANGED linkVars
  /\ UNCHANGED <<half, seen, told, fresh, updates, waiter, wants, checked>>

-----------------------------------------------------------------------------
\* DeviceVolume::wait and wait_unavailable: device.watch(), then the loop that
\* checks available() and awaits changed().
Watch(w, wanted) ==
  /\ at[w] \notin {"idle", "calling"}
  /\ waiter[w] = "none"
  /\ waiter' = [waiter EXCEPT ![w] = "check"]
  /\ wants' = [wants EXCEPT ![w] = wanted]
  /\ checked' = [checked EXCEPT ![w] = updates[w]]
  /\ UNCHANGED modeVars /\ UNCHANGED linkVars
  /\ UNCHANGED <<at, half, seen, told, fresh, updates>>

Check(w) ==
  /\ waiter[w] = "check"
  /\ waiter' = [waiter EXCEPT ![w] = IF told[w].volume = wants[w] THEN "none" ELSE "blocked"]
  /\ UNCHANGED modeVars /\ UNCHANGED linkVars
  /\ UNCHANGED <<at, half, seen, told, fresh, updates, wants, checked>>

Changed(w) ==
  /\ waiter[w] = "blocked"
  /\ checked[w] < updates[w]
  /\ waiter' = [waiter EXCEPT ![w] = "check"]
  /\ checked' = [checked EXCEPT ![w] = updates[w]]
  /\ UNCHANGED modeVars /\ UNCHANGED linkVars
  /\ UNCHANGED <<at, half, seen, told, fresh, updates, wants>>

WatcherStep(w) ==
  \/ Call(w) \/ FirstInfo(w) \/ Subscribe(w)
  \/ Wake(w) \/ Reread(w) \/ Store(w) \/ Send(w) \/ StreamEnds(w)
  \/ (\E wanted \in BOOLEAN : Watch(w, wanted)) \/ Check(w) \/ Changed(w)

DeviceStep == ModeNext /\ UNCHANGED linkVars /\ UNCHANGED watchVars

InfoNext == DeviceStep \/ ChangeLink \/ \E w \in Watchers : WatcherStep(w)

InfoSpec == InfoInit /\ [][InfoNext]_infoVars

\* The server's runtime and the client's go on polling a stream and a task,
\* and nothing is awaited between a change and its notification.
InfoFairness ==
  /\ WF_infoVars(Notify /\ UNCHANGED linkVars /\ UNCHANGED watchVars)
  /\ \A w \in Watchers :
       /\ WF_infoVars(FirstInfo(w) \/ Subscribe(w) \/ Wake(w) \/ Reread(w)
                        \/ Store(w) \/ Send(w))
       /\ WF_infoVars(Check(w) \/ Changed(w))

InfoFairSpec == InfoSpec /\ InfoFairness

-----------------------------------------------------------------------------
InfoTypeOK ==
  /\ ModeTypeOK
  /\ volume \in BOOLEAN
  /\ linkChanges \in 0 .. MaxLinks
  /\ at \in [Watchers -> {"idle", "calling", "unsubscribed", "waiting",
                         "woken", "reading", "stored", "ended"}]
  /\ half \in [Watchers -> BOOLEAN]
  /\ seen \in [Watchers -> 0 .. notified]
  /\ told \in [Watchers -> Info]
  /\ fresh \in [Watchers -> BOOLEAN]
  /\ updates \in [Watchers -> Nat]
  /\ waiter \in [Watchers -> {"none", "check", "blocked"}]
  /\ wants \in [Watchers -> BOOLEAN]
  /\ checked \in [Watchers -> Nat]

Quiet(w) == at[w] = "waiting" /\ seen[w] = notified /\ owed = 0

\* Once a stream has sent one update, a client with nothing pending knows the
\* links exactly, and the mode unless it was cleared since: no burst of
\* notifications makes it skip the last state, however its two readings fall.
InfoCurrentAfterNotice ==
  \A w \in Watchers : Quiet(w) /\ fresh[w] =>
    /\ told[w].volume = volume
    /\ current \in {told[w].mode, NoMode}

\* A task that waits for the volume is not blocked when the client's copy
\* already says what it waits for, unless it is about to be woken.
NoLostWakeup ==
  \A w \in Watchers :
    waiter[w] = "blocked" /\ checked[w] = updates[w] /\ told[w].volume = wants[w]
      => at[w] = "stored"

\* A client of device_info is up to date when nothing is pending, and so are the
\* tasks that wait on its copy.
InfoInv == InfoTypeOK /\ InfoCurrentAfterNotice /\ NoLostWakeup

\* A volume that comes, or goes, for good ends the wait for that of a client
\* that has received at least one update, as long as its stream lasts.
WaitEnds ==
  \A w \in Watchers :
    <>[](volume = wants[w] /\ fresh[w] /\ at[w] # "ended")
      => []<>(waiter[w] # "blocked")

\* The same of a client that has only received the first message: "wait for
\* the volume to become available again".  Does not hold: the device is read
\* before its notifier is subscribed to.
FirstInfoIsCurrent ==
  \A w \in Watchers : Quiet(w) => told[w].volume = volume

\* A client with nothing pending is not told of a mode the device has left.
\* Does not hold: current_mode is cleared without a notification.
ToldModeIsCurrent ==
  \A w \in Watchers :
    Quiet(w) /\ fresh[w] /\ (\A c \in Callers : ~ Running(c)) => told[w].mode = current
=============================================================================
