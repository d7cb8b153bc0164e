------------------------------ MODULE VolumeIo ------------------------------
(***************************************************************************)
(* The VolumeIo stream, from the client's request_* calls to the volume    *)
(* and back.  On the client, requests go through a channel of one into the *)
(* gRPC request stream while the waiting side of each goes to a monitor    *)
(* task, which hands every reply to the oldest request without one         *)
(* (boardswarm-client/src/client.rs).  On the server a task carries out    *)
(* one request after another, and a second one sends their results in the  *)
(* order of the requests, although the volume may complete them in another *)
(* (VolumeIoReplies and volume_io in boardswarm/src/main.rs).              *)
(*                                                                         *)
(* The stream is modelled from the moment it is open: the target's reply   *)
(* has been received.  A second Target request, which the server refuses,  *)
(* is not in the model: this client never sends one.                       *)
(***************************************************************************)
EXTENDS OrderedIo, Sequences, FiniteSets, Functions

CONSTANTS Kinds,           \* read, write, flush, shutdown
          QueueSize,       \* requests the client's channel holds
          ReplyCapacity    \* replies on their way: the channel and the wire

ASSUME CapacityAssumption == QueueSize \in Nat \ {0} /\ ReplyCapacity \in Nat \ {0}

VARIABLES
  kinds,         \* kinds[r]: what request r asks for
  handles,       \* the client holds a VolumeIo for the stream
  queue,         \* `requests`: requests not yet taken by the request stream
  feeding,       \* the request stream has not ended
  outstanding,   \* requests whose waiting side the monitor task has to take
  monitor,       \* "recv", "await" a reply for `held`, or "ended"
  held,          \* the request the monitor task awaits a reply for
  connected,     \* the connection is up
  inbound,       \* requests on their way to the server
  serving,       \* the server's request task: "reading", "busy", "stopped"
  completions,   \* `completion_tx`: requests whose result is to be sent
  sender,        \* the server's reply task: "running", "ended"
  replies,       \* results on their way: [of, ok]
  replyEnd       \* after them: "open", "done", "error" (the connection broke),
                 \* or "over" once the client has seen the end

clientVars == <<handles, queue, feeding, outstanding, monitor, held>>
serverVars == <<inbound, serving, completions, sender>>
wireVars == <<connected, replies, replyEnd>>
vars == <<ioVars, kinds, clientVars, serverVars, wireVars>>

Results == [of : Requests, ok : BOOLEAN]

TypeOK ==
  /\ OrderedIoTypeOK
  /\ kinds \in [Requests -> Kinds]
  /\ handles \in BOOLEAN /\ feeding \in BOOLEAN /\ connected \in BOOLEAN
  /\ queue \in Seq(Requests) /\ Len(queue) <= QueueSize
  /\ outstanding \in Seq(Requests)
  /\ monitor \in {"recv", "await", "ended"}
  /\ held \in Requests \cup {0}
  /\ inbound \in Seq(Requests)
  /\ serving \in {"reading", "busy", "stopped"}
  /\ completions \in Seq(Requests)
  /\ sender \in {"running", "ended"}
  /\ replies \in Seq(Results) /\ Len(replies) <= ReplyCapacity
  /\ replyEnd \in {"open", "done", "error", "over"}

Init ==
  /\ OrderedIoInit
  /\ kinds \in [Requests -> Kinds]
  /\ handles = TRUE /\ feeding = TRUE /\ connected = TRUE
  /\ queue = << >> /\ outstanding = << >> /\ inbound = << >>
  /\ completions = << >> /\ replies = << >>
  /\ monitor = "recv" /\ held = 0
  /\ serving = "reading" /\ sender = "running" /\ replyEnd = "open"

\* The waiting sides of these requests are dropped, or told of an error: each
\* resolves to an error for the task that waits on it.
FailAll(set) ==
  calls' = [r \in Requests |-> IF r \in set THEN Failed ELSE calls[r]]

-----------------------------------------------------------------------------
(* The client. *)

\* request_write and its like wait for room in the channel.  Once the request
\* stream has ended they fail at once and no request comes to be.
Request ==
  /\ handles /\ feeding
  /\ issued < MaxRequests
  /\ Len(queue) < QueueSize
  /\ issued' = issued + 1
  /\ queue' = Append(queue, issued + 1)
  /\ UNCHANGED <<calls, work, kinds, handles, feeding, outstanding, monitor, held,
                 serverVars, wireVars>>

\* The last clone of the VolumeIo is dropped.
Close ==
  /\ handles
  /\ handles' = FALSE
  /\ UNCHANGED <<ioVars, kinds, queue, feeding, outstanding, monitor, held,
                 serverVars, wireVars>>

\* A wrong Pull: the request overtakes its waiting side, which is dropped.
PullWithoutWaiter ==
  /\ feeding /\ queue # << >> /\ monitor # "ended"
  /\ queue' = Tail(queue)
  /\ inbound' = IF connected THEN Append(inbound, Head(queue)) ELSE inbound
  /\ UNCHANGED <<ioVars, kinds, handles, feeding, outstanding, monitor, held, serving,
                 completions, sender, wireVars>>

\* The request stream takes a request: its waiting side goes to the monitor
\* task before the request goes to the server.
Pull ==
  /\ feeding /\ queue # << >> /\ monitor # "ended"
  /\ queue' = Tail(queue)
  /\ outstanding' = Append(outstanding, Head(queue))
  /\ inbound' = IF connected THEN Append(inbound, Head(queue)) ELSE inbound
  /\ UNCHANGED <<ioVars, kinds, handles, feeding, monitor, held, serving, completions,
                 sender, wireVars>>

\* The request stream ends, and the requests still in the channel are dropped:
\* the monitor task takes no more, the client is done, or the connection broke.
EndRequests ==
  /\ feeding
  /\ \/ queue # << >> /\ monitor = "ended"
     \/ queue = << >> /\ ~ handles
     \/ ~ connected
  /\ feeding' = FALSE
  /\ FailAll(Range(queue))
  /\ queue' = << >>
  /\ UNCHANGED <<issued, work, kinds, handles, outstanding, monitor, held,
                 serverVars, wireVars>>

TakeOutstanding ==
  /\ monitor = "recv" /\ outstanding # << >>
  /\ held' = Head(outstanding)
  /\ outstanding' = Tail(outstanding)
  /\ monitor' = "await"
  /\ UNCHANGED <<ioVars, kinds, handles, queue, feeding, serverVars, wireVars>>

\* The monitor task ends and drops what it was still to answer.
MonitorEnds ==
  /\ monitor' = "ended"
  /\ outstanding' = << >>

NoMoreOutstanding ==
  /\ monitor = "recv" /\ outstanding = << >> /\ ~ feeding
  /\ MonitorEnds
  /\ UNCHANGED <<ioVars, kinds, handles, queue, feeding, held, serverVars, wireVars>>

\* A reply of the kind that was asked for answers the request; any other one
\* ends the task.
AnswerOk ==
  /\ monitor = "await" /\ replies # << >> /\ Head(replies).ok
  /\ replies' = Tail(replies)
  /\ IF kinds[Head(replies).of] = kinds[held]
     THEN /\ calls' = [calls EXCEPT ![held] = Ok(Head(replies).of)]
          /\ monitor' = "recv"
          /\ UNCHANGED outstanding
     ELSE FailAll({held} \cup Range(outstanding)) /\ MonitorEnds
  /\ UNCHANGED <<issued, work, kinds, handles, queue, feeding, held, serverVars,
                 connected, replyEnd>>

\* An error ends the gRPC stream: no reply comes after it.
AnswerError ==
  /\ monitor = "await"
  /\ \/ replies # << >> /\ ~ Head(replies).ok
     \/ replies = << >> /\ replyEnd = "error"
  /\ FailAll({held})
  /\ monitor' = "recv"
  /\ replies' = << >>
  /\ replyEnd' = "over"
  /\ UNCHANGED <<issued, work, kinds, handles, queue, feeding, outstanding, held,
                 serverVars, connected>>

EndOfReplies ==
  /\ monitor = "await" /\ replies = << >> /\ replyEnd \in {"done", "over"}
  /\ FailAll({held} \cup Range(outstanding))
  /\ MonitorEnds
  /\ UNCHANGED <<issued, work, kinds, handles, queue, feeding, held, serverVars, wireVars>>

ClientStep ==
  \/ Pull \/ EndRequests \/ TakeOutstanding \/ NoMoreOutstanding
  \/ AnswerOk \/ AnswerError \/ EndOfReplies

-----------------------------------------------------------------------------
(* The server. *)

\* The request task enqueues the completion of a request and then calls the
\* volume.  The reply task may have ended: that is ignored.
Receive ==
  /\ serving = "reading" /\ inbound # << >>
  /\ inbound' = Tail(inbound)
  /\ work' = [work EXCEPT ![Head(inbound)] = "started"]
  /\ completions' = IF sender = "running" THEN Append(completions, Head(inbound))
                    ELSE completions
  /\ serving' = "busy"
  /\ UNCHANGED <<issued, calls, kinds, clientVars, sender, wireVars>>

\* The call returns; the request may complete before or after.
CallReturns ==
  /\ serving = "busy"
  /\ serving' = "reading"
  /\ UNCHANGED <<ioVars, kinds, clientVars, inbound, completions, sender, wireVars>>

\* The end of the requests, or an error.
StopServing ==
  /\ serving = "reading" /\ inbound = << >>
  /\ ~ feeding \/ ~ connected
  /\ serving' = "stopped"
  /\ UNCHANGED <<ioVars, kinds, clientVars, inbound, completions, sender, wireVars>>

\* The volume completes a request, or drops its completion.
Complete(r) ==
  /\ Finish(r)
  /\ UNCHANGED <<kinds, clientVars, serverVars, wireVars>>

\* A wrong SendReply: results are sent in the order they complete in.
SendAnyReply ==
  /\ sender = "running" /\ replyEnd = "open"
  /\ Len(replies) < ReplyCapacity
  /\ \E i \in DOMAIN completions :
       /\ work[completions[i]] \in {"ok", "failed"}
       /\ replies' = Append(replies, [of |-> completions[i],
                                      ok |-> work[completions[i]] = "ok"])
       /\ completions' = SubSeq(completions, 1, i - 1)
                           \o SubSeq(completions, i + 1, Len(completions))
  /\ UNCHANGED <<ioVars, kinds, clientVars, inbound, serving, sender, connected, replyEnd>>

\* The reply task awaits the oldest completion and sends its result.
SendReply ==
  /\ sender = "running" /\ completions # << >> /\ replyEnd = "open"
  /\ work[Head(completions)] \in {"ok", "failed"}
  /\ Len(replies) < ReplyCapacity
  /\ replies' = Append(replies, [of |-> Head(completions),
                                 ok |-> work[Head(completions)] = "ok"])
  /\ completions' = Tail(completions)
  /\ UNCHANGED <<ioVars, kinds, clientVars, inbound, serving, sender, connected, replyEnd>>

\* A wrong EndReplies: a dropped completion is skipped instead of ending the
\* replies, so that later ones answer the wrong requests.
EndRepliesSkipsLost ==
  /\ sender = "running" /\ completions # << >>
  /\ work[Head(completions)] = "lost"
  /\ completions' = Tail(completions)
  /\ UNCHANGED <<ioVars, kinds, clientVars, inbound, serving, sender, wireVars>>

\* A wrong EndReplies: it only ends when all it was given is sent.
EndRepliesWhenDone ==
  /\ sender = "running" /\ completions = << >> /\ serving = "stopped"
  /\ sender' = "ended"
  /\ replyEnd' = IF replyEnd = "open" THEN "done" ELSE replyEnd
  /\ UNCHANGED <<ioVars, kinds, clientVars, inbound, serving, completions, connected, replies>>

\* The reply task ends: it has sent everything, a completion was dropped, or
\* nobody receives its replies any more.
EndReplies ==
  /\ sender = "running"
  /\ \/ completions = << >> /\ serving = "stopped"
     \/ completions # << >> /\ work[Head(completions)] = "lost"
     \/ completions # << >> /\ work[Head(completions)] # "started" /\ replyEnd # "open"
  /\ sender' = "ended"
  /\ completions' = << >>
  /\ replyEnd' = IF replyEnd = "open" THEN "done" ELSE replyEnd
  /\ UNCHANGED <<ioVars, kinds, clientVars, inbound, serving, connected, replies>>

ServerStep == Receive \/ CallReturns \/ StopServing \/ SendReply \/ EndReplies

\* The connection breaks; what had not arrived, in either direction, is lost.
Break ==
  /\ connected
  /\ connected' = FALSE
  /\ \E n \in 0 .. Len(inbound) : inbound' = SubSeq(inbound, 1, n)
  /\ \/ /\ \E n \in 0 .. Len(replies) : replies' = SubSeq(replies, 1, n)
        /\ replyEnd # "over" /\ replyEnd' = "error"
     \/ replyEnd # "open" /\ UNCHANGED <<replies, replyEnd>>
  /\ UNCHANGED <<ioVars, kinds, clientVars, serving, completions, sender>>

-----------------------------------------------------------------------------
Next ==
  \/ Request \/ Close \/ Break
  \/ ClientStep \/ ServerStep
  \/ \E r \in Requests : Complete(r)

Spec == Init /\ [][Next]_vars

\* The tasks of both sides run; the volume ends what it began.
FairSpec ==
  /\ Spec
  /\ WF_vars(Pull) /\ WF_vars(EndRequests)
  /\ WF_vars(TakeOutstanding \/ NoMoreOutstanding \/ AnswerOk \/ AnswerError \/ EndOfReplies)
  /\ WF_vars(Receive \/ CallReturns \/ StopServing)
  /\ WF_vars(SendReply \/ EndReplies)
  /\ \A r \in Requests : WF_vars(Complete(r))

-----------------------------------------------------------------------------
(* Properties. *)

\* The pipelined stream implements the promise of OrderedIo: whatever breaks
\* and whichever order the volume completes requests in, an Ok that the client
\* gets is the result of its own request, and of an uninterrupted run of them.
ImplementsOrderedIo == OrderedIoSpec

\* The monitor task pairs replies by their order alone, so the replies on their
\* way are always those of the requests waiting for one, in the same order:
\* unless the stream is over, the next reply is that of `held`, and the results
\* that can still be sent follow it without a gap.
RepliesFollowRequests ==
  LET coming == [i \in 1 .. Len(replies) |-> replies[i].of]
                  \o (IF replyEnd = "open" THEN completions ELSE << >>)
      awaited == (IF monitor = "await" THEN <<held>> ELSE << >>) \o outstanding
  IN  replyEnd # "over" /\ monitor # "ended" =>
        \A i \in DOMAIN coming : i \in DOMAIN awaited /\ coming[i] = awaited[i]

\* The two channels, the stream and the completions between them stay in step.
WireInv == TypeOK /\ RepliesFollowRequests

\* No task of the client waits for ever on a request it made: a lost
\* connection, a failed request or a volume that drops its completion ends in
\* an answer, as long as the volume ends what it began.
EveryRequestAnswered ==
  \A r \in Requests : r <= issued ~> calls[r] # Waiting

\* When the client is done the server lets go of the volume: both its tasks
\* end, also when nobody reads the replies any more.
ServerLetsGo == ~ handles ~> serving = "stopped" /\ sender = "ended"
=============================================================================
