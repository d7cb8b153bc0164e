----------------------------- MODULE SerialPort -----------------------------
(***************************************************************************)
(* A local serial port as a console (serial/mod.rs): its callers open the  *)
(* port with the first stream they ask for, a task spreads what the port   *)
(* says over the output streams, and input streams take turns in writing.  *)
(***************************************************************************)
EXTENDS Integers, Sequences, FiniteSets

CONSTANTS Readers,     \* calls of console_stream_output
          Writers,     \* calls of console_stream_input
          NoWriter,    \* an unlocked write half
          Rates, DefaultRate,
          Capacity,    \* of the broadcast channel: 64 in the code
          MaxOpenings, \* bound: times the port is opened
          MaxChunks,   \* bound: chunks that the port says
          MaxSends     \* bound: messages of a writer

ASSUME SerialPortAssumption ==
  /\ NoWriter \notin Writers /\ Readers \cap Writers = {}
  /\ DefaultRate \in Rates
  /\ Capacity \in Nat \ {0} /\ MaxOpenings \in Nat /\ MaxChunks \in Nat /\ MaxSends \in Nat

VARIABLES
  present, registered,
  rate,        \* rate
  open,        \* open: which opening of the port it holds, 0 for None
  opened,      \* the openings, in order: [rate, reading, log, lock]
  chunks,      \* chunks read off the port
  pc,          \* what each caller does
  rateRead,    \* local to open(): the rate read
  using,       \* the opening that the stream of a caller belongs to
  seen,        \* receiver of a reader: how much of log it has received
  got,         \* chunks a reader got
  sends,       \* messages a writer has begun
  wire         \* what was written to the port, in halves of messages

portVars == <<present, registered, chunks, wire>>
consoleVars == <<rate, open, opened>>
callVars == <<pc, rateRead, using, seen, got, sends>>
serialVars == <<portVars, consoleVars, callVars>>

Callers == Readers \cup Writers
Getting == {"check", "rate", "open", "fetch"}

PortTypeOK ==
  /\ present \in BOOLEAN /\ registered \in BOOLEAN
  /\ rate \in Rates /\ rateRead \in [Callers -> Rates]
  /\ open \in 0 .. Len(opened)
  /\ \A i \in DOMAIN opened :
       /\ opened[i].rate \in Rates /\ opened[i].reading \in BOOLEAN
       /\ opened[i].log \in Seq(1 .. chunks) /\ opened[i].lock \in Writers \cup {NoWriter}
  /\ chunks \in 0 .. MaxChunks
  /\ pc \in [Callers -> Getting \cup {"idle", "stream", "failed", "unreachable", "ended"}]
  /\ using \in [Callers -> 0 .. Len(opened)]
  /\ seen \in [Readers -> 0 .. MaxChunks] /\ got \in [Readers -> Seq(1 .. chunks)]
  /\ sends \in [Writers -> 0 .. MaxSends]
  /\ wire \in Seq(Writers \X (1 .. MaxSends) \X {1, 2})

PortInit ==
  /\ present = TRUE /\ registered = TRUE
  /\ rate = DefaultRate /\ open = 0 /\ opened = << >>
  /\ chunks = 0 /\ wire = << >>
  /\ pc = [c \in Callers |-> "idle"]
  /\ rateRead = [c \in Callers |-> DefaultRate]
  /\ using = [c \in Callers |-> 0]
  /\ seen = [r \in Readers |-> 0] /\ got = [r \in Readers |-> << >>]
  /\ sends = [w \in Writers |-> 0]

-----------------------------------------------------------------------------
(* The port and the configuration of the console. *)

PullOut ==
  /\ present /\ present' = FALSE
  /\ UNCHANGED <<registered, chunks, wire, consoleVars, callVars>>

\* unregister_console on the udev event
Unregister ==
  /\ ~ present /\ registered /\ registered' = FALSE
  /\ UNCHANGED <<present, chunks, wire, consoleVars, callVars>>

\* By the configuration of a device, or by a client.
Configure ==
  /\ registered
  /\ rate' \in Rates
  /\ UNCHANGED <<open, opened, portVars, callVars>>

\* The task of an opening reads and broadcasts.
ReadChunk(i) ==
  /\ opened[i].reading /\ present /\ chunks < MaxChunks
  /\ chunks' = chunks + 1
  /\ opened' = [opened EXCEPT ![i].log = Append(@, chunks + 1)]
  /\ UNCHANGED <<present, registered, wire, rate, open, callVars>>

\* EOF ends the task, and an error makes it panic.
ReadEnds(i) ==
  /\ opened[i].reading
  /\ opened' = [opened EXCEPT ![i].reading = FALSE]
  /\ UNCHANGED <<portVars, rate, open, callVars>>

-----------------------------------------------------------------------------
(* get_reader and get_writer *)

Goes(c, to) == pc' = [pc EXCEPT ![c] = to]

\* get_console finds the console
Call(c) ==
  /\ pc[c] = "idle" /\ registered
  /\ Goes(c, "check")
  /\ UNCHANGED <<portVars, consoleVars, rateRead, using, seen, got, sends>>

Stream(c) ==
  /\ Goes(c, "stream")
  /\ using' = [using EXCEPT ![c] = open]
  /\ seen' = IF c \in Readers THEN [seen EXCEPT ![c] = Len(opened[open].log)] ELSE seen

Check(c) ==
  /\ pc[c] = "check"
  /\ \/ open # 0 /\ Stream(c)
     \/ open = 0 /\ Goes(c, "rate") /\ UNCHANGED <<using, seen>>
  /\ UNCHANGED <<portVars, consoleVars, rateRead, got, sends>>

ReadRate(c) ==
  /\ pc[c] = "rate"
  /\ rateRead' = [rateRead EXCEPT ![c] = rate]
  /\ Goes(c, "open")
  /\ UNCHANGED <<portVars, consoleVars, using, seen, got, sends>>

\* The exclusive mode that tokio_serial sets keeps a port from being opened a
\* second time, unless the server runs as root.
CanOpen == present
MayFailToOpen == ~ present \/ open # 0

Open(c) ==
  /\ pc[c] = "open" /\ CanOpen /\ Len(opened) < MaxOpenings
  /\ opened' = Append(opened, [rate |-> rateRead[c], reading |-> TRUE,
                               log |-> << >>, lock |-> NoWriter])
  /\ open' = Len(opened')
  /\ Goes(c, "fetch")
  /\ UNCHANGED <<portVars, rate, rateRead, using, seen, got, sends>>

FailToOpen(c) ==
  /\ pc[c] = "open" /\ MayFailToOpen
  /\ Goes(c, "failed")
  /\ UNCHANGED <<portVars, consoleVars, rateRead, using, seen, got, sends>>

Fetch(c) ==
  /\ pc[c] = "fetch"
  /\ IF open # 0 THEN Stream(c) ELSE Goes(c, "unreachable") /\ UNCHANGED <<using, seen>>
  /\ UNCHANGED <<portVars, consoleVars, rateRead, got, sends>>

-----------------------------------------------------------------------------
(* The streams. *)

\* Whoever holds the console: an output stream only has its receiver.
Held ==
  \/ registered
  \/ \E c \in Callers : pc[c] \in Getting
  \/ \E w \in Writers : pc[w] = "stream"

Closed(i) == ~ opened[i].reading /\ ~ (Held /\ open = i)

Log(r) == opened[using[r]].log
Lagged(r) == Len(Log(r)) - seen[r] > Capacity

\* A wrong Receive: a receiver that lags goes on with what there is.
ReceiveLagging(r) ==
  /\ pc[r] = "stream" /\ seen[r] < Len(Log(r))
  /\ LET from == IF Lagged(r) THEN Len(Log(r)) - Capacity ELSE seen[r]
     IN  /\ seen' = [seen EXCEPT ![r] = from + 1]
         /\ got' = [got EXCEPT ![r] = Append(@, Log(r)[from + 1])]
  /\ UNCHANGED <<portVars, consoleVars, pc, rateRead, using, sends>>

Receive(r) ==
  /\ pc[r] = "stream" /\ seen[r] < Len(Log(r)) /\ ~ Lagged(r)
  /\ seen' = [seen EXCEPT ![r] = @ + 1]
  /\ got' = [got EXCEPT ![r] = Append(@, Log(r)[seen[r] + 1])]
  /\ UNCHANGED <<portVars, consoleVars, pc, rateRead, using, sends>>

\* A wrong ReceiveEnds: only lagging ends a stream.
ReceiveEndsLagging(r) ==
  /\ pc[r] = "stream" /\ Lagged(r)
  /\ Goes(r, "ended")
  /\ UNCHANGED <<portVars, consoleVars, rateRead, using, seen, got, sends>>

\* recv_data gives an error, which output_stream unwraps: the stream breaks off.
ReceiveEnds(r) ==
  /\ pc[r] = "stream"
  /\ Lagged(r) \/ (seen[r] = Len(Log(r)) /\ Closed(using[r]))
  /\ Goes(r, "ended")
  /\ UNCHANGED <<portVars, consoleVars, rateRead, using, seen, got, sends>>

Unlock(w) == [i \in DOMAIN opened |->
                IF opened[i].lock = w THEN [opened[i] EXCEPT !.lock = NoWriter] ELSE opened[i]]

\* A wrong StartWrite: the write half is not locked for the whole of a message.
StartWriteUnlocked(w) ==
  /\ pc[w] = "stream" /\ present /\ sends[w] < MaxSends
  /\ opened[using[w]].lock # w
  /\ sends' = [sends EXCEPT ![w] = @ + 1]
  /\ opened' = [opened EXCEPT ![using[w]].lock = w]
  /\ wire' = Append(wire, <<w, sends[w] + 1, 1>>)
  /\ UNCHANGED <<present, registered, chunks, rate, open, pc, rateRead, using, seen, got>>

\* A message comes, and the port takes the first half of it.
StartWrite(w) ==
  /\ pc[w] = "stream" /\ present /\ sends[w] < MaxSends
  /\ opened[using[w]].lock = NoWriter
  /\ sends' = [sends EXCEPT ![w] = @ + 1]
  /\ opened' = [opened EXCEPT ![using[w]].lock = w]
  /\ wire' = Append(wire, <<w, sends[w] + 1, 1>>)
  /\ UNCHANGED <<present, registered, chunks, rate, open, pc, rateRead, using, seen, got>>

FinishWrite(w) ==
  /\ pc[w] = "stream" /\ present
  /\ opened[using[w]].lock = w
  /\ opened' = Unlock(w)
  /\ wire' = Append(wire, <<w, sends[w], 2>>)
  /\ UNCHANGED <<present, registered, chunks, rate, open, callVars>>

\* The client goes away, or a write fails and the call panics.
End(c) ==
  /\ pc[c] \in {"check", "open", "fetch", "stream"}
  /\ Goes(c, "ended")
  /\ opened' = Unlock(c)
  /\ UNCHANGED <<portVars, rate, open, rateRead, using, seen, got, sends>>

-----------------------------------------------------------------------------
Task == \E i \in DOMAIN opened : ReadChunk(i) \/ ReadEnds(i)
Get(c) == Check(c) \/ ReadRate(c) \/ Open(c) \/ FailToOpen(c) \/ Fetch(c)
Output(r) == Receive(r) \/ ReceiveEnds(r)
Input(w) == StartWrite(w) \/ FinishWrite(w)

PortNext ==
  \/ PullOut \/ Unregister \/ Configure \/ Task
  \/ \E c \in Callers : Call(c) \/ Get(c) \/ End(c)
  \/ \E r \in Readers : Output(r)
  \/ \E w \in Writers : Input(w)

PortSpec == PortInit /\ [][PortNext]_serialVars

\* Tasks are polled, and a read of a port that is gone returns.
PortFairness ==
  /\ \A c \in Callers : WF_serialVars(Get(c))
  /\ \A r \in Readers : WF_serialVars(Output(r))
  /\ \A i \in 1 .. Cardinality(Callers) : WF_serialVars(i \in DOMAIN opened /\ ~ present /\ ReadEnds(i))

FairPortSpec == PortSpec /\ PortFairness

-----------------------------------------------------------------------------
(* Properties. *)

\* The unreachable!() at the end of get_writer and get_reader is: between open()
\* and the lock taken after it nobody closes the port.
NeverUnreachable == \A c \in Callers : pc[c] # "unreachable"

\* As root, two first callers both open the port: each opening then has a task
\* that reads and a write half of its own.
OpenedOnce == Len(opened) <= 1

\* A reader gets all that a port opened once says from the first chunk it gets
\* on; when it cannot, its stream breaks off.
NoSilentGap ==
  OpenedOnce =>
    \A r \in Readers : \A i \in DOMAIN got[r] : i > 1 => got[r][i] = got[r][i - 1] + 1

\* Messages of several clients do not mix on a port opened once; that of a client
\* which went away may be cut short.
MessagesStayWhole ==
  OpenedOnce =>
    \A i \in 1 .. Len(wire) - 1 :
      LET w == wire[i][1]
      IN  IF wire[i][3] = 1
          THEN wire[i + 1] = <<w, wire[i][2], 2>> \/ pc[w] = "ended"
          ELSE wire[i + 1][3] = 1

\* open() leaves what its callers rely on, the broadcast channel keeps its promise
\* to the readers, and the mutex of the write half keeps that to the writers.
PortInv == PortTypeOK /\ NeverUnreachable /\ NoSilentGap /\ MessagesStayWhole

\* Output streams of a console that was removed end, unless an input stream
\* (which holds on to the console) stays.
OutputsEnd ==
  (<>[](~ registered /\ \A w \in Writers : pc[w] # "stream"))
    => <>[](\A r \in Readers : pc[r] # "stream")

\* A caller is told that the console is unavailable only if it is.  Does not
\* hold: two first callers both find the port closed, and the second fails.
UnavailableIfClosed ==
  [][\A c \in Callers : pc[c] = "open" /\ pc'[c] = "failed" => open = 0]_serialVars

\* An open port runs at the rate the console is configured for.  Does not hold:
\* a client may open the console before its device configures it.
RateIsConfigured == open # 0 => opened[open].rate = rate
=============================================================================
