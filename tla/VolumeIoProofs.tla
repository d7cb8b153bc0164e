--------------------------- MODULE VolumeIoProofs ---------------------------
(***************************************************************************)
(* Proofs about the VolumeIo stream, for any number of requests, any room  *)
(* in its channels and wherever the connection breaks, and about           *)
(* VolumeIoRW, for any polls in any order over any volume.                 *)
(***************************************************************************)
EXTENDS VolumeIo, VolumeIoRW, WellFoundedInduction, SequenceTheorems, TLAPS

\* The numbers after n, in order and without a gap.
Counts(s, n) == \A i \in 1 .. Len(s) : s[i] = n + i

AwaitsOne == IF monitor = "await" THEN 1 ELSE 0

\* The first `pulled` requests have gone into the request stream, the others are in the
\* client's channel, or never came to be.
Feeds(pulled) ==
  /\ Counts(queue, pulled) /\ pulled + Len(queue) <= issued
  /\ feeding => /\ pulled + Len(queue) = issued
                /\ \A r \in Requests : r > pulled => calls[r] = Waiting
  /\ ~ feeding => queue = << >>

\* The monitor task has dealt with the first `answered` of them, and has the others.
Awaits(answered, pulled) ==
  monitor # "ended" =>
    /\ answered + AwaitsOne + Len(outstanding) = pulled
    /\ Counts(outstanding, answered + AwaitsOne)
    /\ monitor = "await" => held = answered + 1
    /\ \A r \in Requests : answered < r /\ r <= pulled => calls[r] = Waiting
    /\ replyEnd # "over" => \A r \in 1 .. answered : calls[r] = Ok(r)

\* The volume was given the first `begun`; those after them are on their way, all of
\* them as long as there is a connection.
Serves(begun, pulled) ==
  /\ \A r \in Requests : work[r] # "none" <=> r <= begun
  /\ Counts(inbound, begun) /\ begun + Len(inbound) <= pulled
  /\ connected => begun + Len(inbound) = pulled

\* What comes back begins with the reply to the oldest request without one, and has no
\* gap up to the last that the volume was given.
Replies(answered, begun) ==
  /\ replyEnd = "open" => sender = "running"
  /\ \A i \in 1 .. Len(replies) : replies[i].ok => work[replies[i].of] = "ok"
  /\ replyEnd = "over" => replies = << >>
  /\ monitor # "ended" /\ replyEnd # "over" =>
       /\ \A i \in 1 .. Len(replies) : replies[i].of = answered + i
       /\ answered + Len(replies) <= begun
  /\ monitor # "ended" /\ replyEnd = "open" =>
       /\ answered + Len(replies) + Len(completions) = begun
       /\ Counts(completions, answered + Len(replies))

InStep(answered, begun, pulled) ==
  /\ Feeds(pulled) /\ Awaits(answered, pulled)
  /\ Serves(begun, pulled) /\ Replies(answered, begun)

WireIInv ==
  /\ TypeOK
  /\ \E answered, begun, pulled \in 0 .. issued : InStep(answered, begun, pulled)

-----------------------------------------------------------------------------
(* Sequences that count. *)

LEMMA FirstTaken ==
  ASSUME NEW S, NEW s \in Seq(S), s # << >>
  PROVE  /\ Len(s) \in Nat \ {0} /\ Head(s) = s[1] /\ Head(s) \in S /\ DOMAIN s = 1 .. Len(s)
         /\ Tail(s) \in Seq(S) /\ Len(Tail(s)) = Len(s) - 1
         /\ \A i \in 1 .. Len(s) - 1 : Tail(s)[i] = s[i + 1]
  OBVIOUS

LEMMA CountsOn ==
  ASSUME NEW S, NEW s \in Seq(S), s # << >>, NEW n \in Nat, Counts(s, n)
  PROVE  Head(s) = n + 1 /\ Counts(Tail(s), n + 1)
  BY FirstTaken DEF Counts

LEMMA LastAdded ==
  ASSUME NEW S, NEW s \in Seq(S), NEW e \in S
  PROVE  /\ Append(s, e) \in Seq(S) /\ Len(s) \in Nat /\ Len(Append(s, e)) = Len(s) + 1
         /\ Append(s, e)[Len(s) + 1] = e
         /\ \A i \in 1 .. Len(s) : Append(s, e)[i] = s[i]
  OBVIOUS

LEMMA CountsMore ==
  ASSUME NEW S, NEW s \in Seq(S), NEW n \in Nat, Counts(s, n), NEW e \in S, e = n + Len(s) + 1
  PROVE  Counts(Append(s, e), n)
<1>1. /\ Len(s) \in Nat /\ Len(Append(s, e)) = Len(s) + 1 /\ Append(s, e)[Len(s) + 1] = e
      /\ \A i \in 1 .. Len(s) : Append(s, e)[i] = s[i]
  BY LastAdded
<1> SUFFICES ASSUME NEW i \in 1 .. Len(s) + 1
             PROVE  Append(s, e)[i] = n + i
  BY <1>1 DEF Counts
<1>2. i = Len(s) + 1 \/ i \in 1 .. Len(s)
  BY <1>1
<1> QED
  BY <1>1, <1>2 DEF Counts

LEMMA Widens ==
  ASSUME NEW S, NEW T, S \subseteq T, NEW s \in Seq(S)
  PROVE  s \in Seq(T)
  OBVIOUS

LEMMA Cut ==
  ASSUME NEW S, NEW s \in Seq(S), NEW n \in 0 .. Len(s)
  PROVE  /\ SubSeq(s, 1, n) \in Seq(S) /\ Len(SubSeq(s, 1, n)) = n
         /\ \A i \in 1 .. n : SubSeq(s, 1, n)[i] = s[i]
  OBVIOUS

\* What the requests in a sequence are given up with.
LEMMA Elements ==
  ASSUME NEW S, NEW s \in Seq(S)
  PROVE  /\ Len(s) \in Nat /\ DOMAIN s = 1 .. Len(s)
         /\ \A i \in 1 .. Len(s) : s[i] \in S
         /\ \A r \in Range(s) : r \in S /\ \E i \in 1 .. Len(s) : r = s[i]
  BY DEF Range

LEMMA NextIsThere ==
  ASSUME NEW a \in Nat, NEW n \in Nat, NEW l \in Nat, NEW p \in 0 .. n, NEW m \in Nat, n <= m,
         a + 1 + l = p
  PROVE  a + 1 \in 1 .. m /\ a + 1 \in 0 .. n /\ a + 1 <= p
  OBVIOUS

-----------------------------------------------------------------------------
(* The invariant, and every step as one of the promise. *)

LEMMA WireInitInv == Init => WireIInv
<1> SUFFICES ASSUME Init PROVE WireIInv
  OBVIOUS
<1> USE DEF Init, OrderedIoInit, AnswersInit
<1>1. TypeOK
  BY MaxRequestsAssumption, CapacityAssumption
     DEF TypeOK, OrderedIoTypeOK, AnswersTypeOK, Answers, WorkStates, Requests
<1>2. \A r \in Requests : r > 0 /\ ~ (r <= 0)
  BY MaxRequestsAssumption DEF Requests
<1>3. InStep(0, 0, 0)
  BY <1>2 DEF InStep, Feeds, Awaits, Serves, Replies, Counts, AwaitsOne
<1> QED
  BY <1>1, <1>3, MaxRequestsAssumption DEF WireIInv

LEMMA RequestStep ==
  ASSUME WireIInv, Request
  PROVE  WireIInv' /\ OrderedIoNext
<1>1. PICK answered \in 0 .. issued, begun \in 0 .. issued, pulled \in 0 .. issued :
        InStep(answered, begun, pulled)
  BY DEF WireIInv
<1> USE DEF InStep
<1>2. /\ issued \in Nat /\ issued < MaxRequests /\ issued' = issued + 1 /\ issued' \in Requests
      /\ queue \in Seq(Requests) /\ queue' = Append(queue, issued + 1) /\ feeding
      /\ UNCHANGED <<calls, work, kinds, handles, feeding, outstanding, monitor, held, inbound, serving,
                     completions, sender, connected, replies, replyEnd>>
  BY MaxRequestsAssumption
     DEF Request, WireIInv, TypeOK, OrderedIoTypeOK, AnswersTypeOK, Requests, serverVars, wireVars
<1>3. /\ queue' \in Seq(Requests) /\ Len(queue') = Len(queue) + 1 /\ Len(queue) \in Nat
      /\ Counts(queue', pulled)
  <2>1. Counts(queue, pulled) /\ issued + 1 = pulled + Len(queue) + 1
    BY <1>1, <1>2 DEF Feeds
  <2>2. pulled \in Nat /\ issued + 1 \in Requests
    BY <1>2
  <2>3. Counts(Append(queue, issued + 1), pulled)
    BY <1>2, <2>1, <2>2, CountsMore
  <2> QED
    BY <1>2, <2>2, <2>3, LastAdded
<1>4. TypeOK'
  <2>1. Len(queue') <= QueueSize /\ issued' \in 0 .. MaxRequests
    BY <1>2, <1>3, CapacityAssumption DEF Request, Requests
  <2> QED
    BY <1>2, <1>3, <2>1
       DEF WireIInv, TypeOK, OrderedIoTypeOK, AnswersTypeOK, Requests, Results, Answers
<1>5. Feeds(pulled)'
  BY <1>1, <1>2, <1>3 DEF Feeds
<1>6. Awaits(answered, pulled)' /\ Serves(begun, pulled)' /\ Replies(answered, begun)'
  BY <1>1, <1>2 DEF Awaits, Serves, Replies, Counts, AwaitsOne, Requests, Ok, Waiting
<1>7. answered \in 0 .. issued' /\ begun \in 0 .. issued' /\ pulled \in 0 .. issued'
  BY <1>2
<1>8. OrderedIoNext
  BY <1>2 DEF OrderedIoNext, Ask
<1> QED
  BY <1>4, <1>5, <1>6, <1>7, <1>8 DEF WireIInv

\* A request goes into the request stream and its waiting side to the monitor task.
LEMMA PullStep ==
  ASSUME WireIInv, Pull
  PROVE  WireIInv' /\ UNCHANGED ioVars
<1>1. PICK answered \in 0 .. issued, begun \in 0 .. issued, pulled \in 0 .. issued :
        InStep(answered, begun, pulled)
  BY DEF WireIInv
<1> USE DEF InStep
<1>2. /\ issued \in Nat /\ issued <= MaxRequests /\ queue \in Seq(Requests) /\ outstanding \in Seq(Requests)
      /\ inbound \in Seq(Requests) /\ calls \in [Requests -> Answers] /\ work \in [Requests -> WorkStates]
      /\ Len(queue) <= QueueSize /\ QueueSize \in Nat
  BY MaxRequestsAssumption, CapacityAssumption
     DEF WireIInv, TypeOK, OrderedIoTypeOK, AnswersTypeOK
<1>3. /\ feeding /\ queue # << >> /\ monitor # "ended"
      /\ queue' = Tail(queue) /\ outstanding' = Append(outstanding, Head(queue))
      /\ inbound' = IF connected THEN Append(inbound, Head(queue)) ELSE inbound
      /\ UNCHANGED <<issued, calls, work, kinds, handles, feeding, monitor, held, serving, completions,
                     sender, connected, replies, replyEnd>>
  BY DEF Pull, ioVars, wireVars
<1>4. /\ Head(queue) = pulled + 1 /\ Head(queue) \in Requests /\ Counts(queue', pulled + 1)
      /\ queue' \in Seq(Requests) /\ Len(queue) \in Nat \ {0} /\ Len(queue') = Len(queue) - 1
      /\ pulled + Len(queue) = issued
  BY <1>1, <1>2, <1>3, FirstTaken, CountsOn DEF Feeds
<1>5. /\ pulled + 1 \in 0 .. issued' /\ answered \in 0 .. issued' /\ begun \in 0 .. issued'
  BY <1>2, <1>3, <1>4
<1>6. Feeds(pulled + 1)'
  <2>5. pulled \in Nat
    BY <1>2
  <2>1. pulled + 1 + Len(queue') = issued
    BY <1>4, <2>5
  <2>4. \A r \in Requests : r > pulled + 1 => r > pulled
    BY <2>5 DEF Requests
  <2>2. feeding' /\ pulled + 1 + Len(queue') <= issued' /\ pulled + 1 + Len(queue') = issued'
    BY <1>2, <1>3, <2>1
  <2>3. \A r \in Requests : r > pulled + 1 => calls'[r] = Waiting
    BY <1>1, <1>3, <2>4 DEF Feeds
  <2> QED
    BY <1>4, <2>2, <2>3 DEF Feeds
<1>7. /\ outstanding' \in Seq(Requests) /\ Len(outstanding') = Len(outstanding) + 1 /\ Len(outstanding) \in Nat
      /\ Counts(outstanding', answered + AwaitsOne)
  <2>1. Counts(outstanding, answered + AwaitsOne) /\ Head(queue) = answered + AwaitsOne + Len(outstanding) + 1
    BY <1>1, <1>3, <1>4 DEF Awaits
  <2>2. answered + AwaitsOne \in Nat
    BY <1>2 DEF AwaitsOne
  <2> QED
    BY <1>2, <1>3, <1>4, <2>1, <2>2, LastAdded, CountsMore
<1>8. Awaits(answered, pulled + 1)'
  <2>1. answered + AwaitsOne + Len(outstanding') = pulled + 1 /\ AwaitsOne' = AwaitsOne
    BY <1>1, <1>3, <1>7 DEF Awaits, AwaitsOne
  <2>2. \A r \in Requests : answered < r /\ r <= pulled + 1 => calls[r] = Waiting
    BY <1>1, <1>3, <1>4 DEF Awaits, Feeds, Requests
  <2> QED
    BY <1>1, <1>3, <1>7, <2>1, <2>2 DEF Awaits, Ok, Waiting
<1>9. /\ inbound' \in Seq(Requests) /\ Serves(begun, pulled + 1)'
  <2>1. CASE connected
    <3>1. Counts(inbound, begun) /\ Head(queue) = begun + Len(inbound) + 1 /\ inbound' = Append(inbound, Head(queue))
      BY <1>1, <1>3, <1>4, <2>1 DEF Serves
    <3>2. inbound' \in Seq(Requests) /\ Len(inbound') = Len(inbound) + 1 /\ Len(inbound) \in Nat
          /\ Counts(inbound', begun)
      BY <1>2, <1>4, <3>1, LastAdded, CountsMore
    <3> QED
      BY <1>1, <1>3, <1>4, <3>1, <3>2 DEF Serves
  <2>2. CASE ~ connected
    <3>1. inbound' = inbound /\ ~ connected' /\ Len(inbound) \in Nat
      BY <1>2, <1>3, <2>2
    <3> QED
      BY <1>1, <1>2, <1>3, <3>1 DEF Serves, Counts
  <2> QED
    BY <2>1, <2>2
<1>10. Replies(answered, begun)'
  BY <1>1, <1>3 DEF Replies, Counts
<1>11. TypeOK'
  <2>1. Len(queue') <= QueueSize
    BY <1>2, <1>4
  <2> QED
    BY <1>3, <1>4, <1>7, <1>9, <2>1 DEF WireIInv, TypeOK, OrderedIoTypeOK, AnswersTypeOK, Requests, Results, Answers
<1> QED
  BY <1>3, <1>5, <1>6, <1>8, <1>9, <1>10, <1>11 DEF WireIInv, ioVars

LEMMA EndRequestsStep ==
  ASSUME WireIInv, EndRequests
  PROVE  WireIInv' /\ OrderedIoNext
<1>1. PICK answered \in 0 .. issued, begun \in 0 .. issued, pulled \in 0 .. issued :
        InStep(answered, begun, pulled)
  BY DEF WireIInv
<1> USE DEF InStep
<1>2. /\ issued \in Nat /\ issued <= MaxRequests /\ queue \in Seq(Requests)
      /\ calls \in [Requests -> Answers] /\ Len(queue) \in Nat
  BY MaxRequestsAssumption DEF WireIInv, TypeOK, OrderedIoTypeOK, AnswersTypeOK
<1>3. /\ feeding /\ feeding' = FALSE /\ queue' = << >>
      /\ calls' = [r \in Requests |-> IF r \in Range(queue) THEN Failed ELSE calls[r]]
      /\ UNCHANGED <<issued, work, kinds, handles, outstanding, monitor, held, inbound, serving, completions,
                     sender, connected, replies, replyEnd>>
  BY DEF EndRequests, FailAll, serverVars, wireVars
<1>4. \A r \in Range(queue) : r \in Requests /\ pulled < r /\ r <= issued /\ calls[r] = Waiting
  <2> SUFFICES ASSUME NEW r \in Range(queue)
               PROVE  r \in Requests /\ pulled < r /\ r <= issued /\ calls[r] = Waiting
    OBVIOUS
  <2>1. PICK i \in 1 .. Len(queue) : r = queue[i] /\ r \in Requests
    BY <1>2, Elements
  <2>2. r = pulled + i /\ pulled + Len(queue) = issued
    BY <1>1, <1>3, <2>1 DEF Feeds, Counts
  <2>3. pulled < r /\ r <= issued
    BY <1>2, <2>1, <2>2
  <2> QED
    BY <1>1, <1>3, <2>1, <2>3 DEF Feeds
<1>5. /\ calls' \in [Requests -> Answers]
      /\ \A r \in Requests : r <= pulled => calls'[r] = calls[r]
  <2>1. Failed \in Answers
    BY DEF Answers
  <2>2. \A r \in Requests : r <= pulled => r \notin Range(queue)
    BY <1>2, <1>4 DEF Requests
  <2> QED
    BY <1>2, <1>3, <2>1, <2>2
<1>6. TypeOK'
  <2>1. << >> \in Seq(Requests) /\ Len(<< >>) <= QueueSize
    BY CapacityAssumption
  <2> QED
    BY <1>3, <1>5, <2>1 DEF WireIInv, TypeOK, OrderedIoTypeOK, AnswersTypeOK, Requests, Results, Answers
<1>7. Feeds(pulled)'
  BY <1>2, <1>3 DEF Feeds, Counts
<1>8. Awaits(answered, pulled)'
  <2>1. ASSUME monitor # "ended" PROVE \A r \in 1 .. answered : r \in Requests /\ r <= pulled
    <3>1. answered <= pulled
      <4>1. AwaitsOne \in Nat /\ Len(outstanding) \in Nat
        BY DEF AwaitsOne, WireIInv, TypeOK
      <4>2. answered + AwaitsOne + Len(outstanding) = pulled
        BY <1>1, <2>1 DEF Awaits
      <4> QED
        BY <1>2, <4>1, <4>2
    <3> QED
      BY <1>2, <3>1, MaxRequestsAssumption DEF Requests
  <2> QED
    BY <1>1, <1>3, <1>5, <2>1 DEF Awaits, Counts, AwaitsOne, Ok, Waiting
<1>9. Serves(begun, pulled)' /\ Replies(answered, begun)'
  BY <1>1, <1>3 DEF Serves, Replies, Counts, Requests
<1>10. OrderedIoNext
  <2>1. Fail(Range(queue)) /\ Range(queue) \in SUBSET Requests
    BY <1>3, <1>4 DEF Fail
  <2> QED
    BY <1>3, <2>1 DEF OrderedIoNext
<1> QED
  BY <1>3, <1>6, <1>7, <1>8, <1>9, <1>10 DEF WireIInv

\* The steps that answer nothing and begin nothing.
LEMMA QuietSteps ==
  ASSUME WireIInv,
         Close \/ TakeOutstanding \/ NoMoreOutstanding \/ CallReturns \/ StopServing
  PROVE  WireIInv' /\ UNCHANGED ioVars
<1>1. PICK answered \in 0 .. issued, begun \in 0 .. issued, pulled \in 0 .. issued :
        InStep(answered, begun, pulled)
  BY DEF WireIInv
<1> USE DEF InStep
<1>2. /\ UNCHANGED <<issued, calls, work, kinds, queue, feeding, connected, inbound, completions, sender,
                     replies, replyEnd>>
      /\ handles' \in BOOLEAN /\ serving' \in {"reading", "busy", "stopped"}
  BY DEF Close, TakeOutstanding, NoMoreOutstanding, CallReturns, StopServing, ioVars, wireVars, serverVars,
         clientVars, WireIInv, TypeOK
<1>3. Feeds(pulled)' /\ Serves(begun, pulled)'
  BY <1>1, <1>2 DEF Feeds, Serves, Counts, Requests, Waiting
<1>4. outstanding \in Seq(Requests) /\ held \in Requests \cup {0} /\ answered \in Nat
  BY DEF WireIInv, TypeOK, OrderedIoTypeOK, AnswersTypeOK
<1>5. ASSUME /\ outstanding' \in Seq(Requests) /\ held' \in Requests \cup {0}
             /\ monitor' \in {"recv", "await", "ended"} /\ (monitor' # "ended" => monitor # "ended")
             /\ Awaits(answered, pulled)'
      PROVE  WireIInv'
  <2>1. TypeOK'
    BY <1>2, <1>5 DEF WireIInv, TypeOK, OrderedIoTypeOK, AnswersTypeOK, Requests, Results, Answers
  <2>2. Replies(answered, begun)'
    BY <1>1, <1>2, <1>5 DEF Replies, Counts
  <2> QED
    BY <1>2, <1>3, <1>5, <2>1, <2>2 DEF WireIInv
<1>6. CASE TakeOutstanding
  <2>1. /\ monitor = "recv" /\ monitor' = "await" /\ outstanding # << >>
        /\ held' = Head(outstanding) /\ outstanding' = Tail(outstanding)
    BY <1>6 DEF TakeOutstanding
  <2>2. AwaitsOne = 0 /\ AwaitsOne' = 1
    BY <2>1 DEF AwaitsOne
  <2>3. Counts(outstanding, answered) /\ answered + Len(outstanding) = pulled
    BY <1>1, <1>4, <2>1, <2>2 DEF Awaits
  <2>4. /\ held' = answered + 1 /\ held' \in Requests /\ Counts(outstanding', answered + 1)
        /\ outstanding' \in Seq(Requests) /\ Len(outstanding) \in Nat /\ Len(outstanding') = Len(outstanding) - 1
    BY <1>4, <2>1, <2>3, FirstTaken, CountsOn
  <2>5. answered + 1 + Len(outstanding') = pulled
    BY <1>4, <2>3, <2>4
  <2>6. Awaits(answered, pulled)'
    BY <1>1, <1>2, <2>1, <2>2, <2>4, <2>5 DEF Awaits, Ok, Waiting
  <2> QED
    BY <1>2, <1>5, <2>1, <2>4, <2>6 DEF ioVars
<1>7. CASE NoMoreOutstanding
  <2>1. monitor = "recv" /\ monitor' = "ended" /\ outstanding' = << >> /\ held' = held
    BY <1>7 DEF NoMoreOutstanding, MonitorEnds
  <2>2. Awaits(answered, pulled)' /\ << >> \in Seq(Requests)
    BY <2>1 DEF Awaits
  <2> QED
    BY <1>2, <1>4, <1>5, <2>1, <2>2 DEF ioVars
<1>8. CASE Close \/ CallReturns \/ StopServing
  <2>1. UNCHANGED <<outstanding, monitor, held>>
    BY <1>8 DEF Close, CallReturns, StopServing, clientVars
  <2>2. Awaits(answered, pulled)'
    BY <1>1, <1>2, <2>1 DEF Awaits, Counts, AwaitsOne, Ok, Waiting
  <2> QED
    BY <1>2, <1>5, <2>1, <2>2 DEF WireIInv, TypeOK, ioVars
<1> QED
  BY <1>6, <1>7, <1>8

LEMMA AnswerOkStep ==
  ASSUME WireIInv, AnswerOk
  PROVE  WireIInv' /\ OrderedIoNext
<1>1. PICK answered \in 0 .. issued, begun \in 0 .. issued, pulled \in 0 .. issued :
        InStep(answered, begun, pulled)
  BY DEF WireIInv
<1> USE DEF InStep
<1>2. /\ issued \in Nat /\ issued <= MaxRequests /\ outstanding \in Seq(Requests)
      /\ calls \in [Requests -> Answers] /\ replies \in Seq(Results) /\ Len(replies) <= ReplyCapacity
      /\ Len(outstanding) \in Nat /\ answered \in Nat /\ begun \in Nat /\ pulled \in Nat
      /\ ReplyCapacity \in Nat
  BY MaxRequestsAssumption, CapacityAssumption DEF WireIInv, TypeOK, OrderedIoTypeOK, AnswersTypeOK
<1>3. /\ monitor = "await" /\ replies # << >> /\ Head(replies).ok /\ replyEnd # "over"
      /\ AwaitsOne = 1 /\ held = answered + 1 /\ answered + 1 + Len(outstanding) = pulled
      /\ Counts(outstanding, answered + 1)
  BY <1>1 DEF AnswerOk, Awaits, AwaitsOne, Replies
<1>4. /\ Head(replies) = replies[1] /\ Len(replies) \in Nat \ {0} /\ Tail(replies) \in Seq(Results)
      /\ Len(Tail(replies)) = Len(replies) - 1
      /\ \A i \in 1 .. Len(replies) - 1 : Tail(replies)[i] = replies[i + 1]
  BY <1>2, <1>3, FirstTaken
<1>5. Head(replies).of = answered + 1 /\ work[answered + 1] = "ok"
  BY <1>1, <1>3, <1>4 DEF Replies
<1>6. answered + 1 \in Requests /\ answered + 1 \in 0 .. issued /\ answered + 1 <= pulled
  BY <1>2, <1>3, MaxRequestsAssumption, NextIsThere DEF Requests
<1>7. /\ calls' = [calls EXCEPT ![answered + 1] = Ok(answered + 1)] /\ monitor' = "recv"
      /\ replies' = Tail(replies)
      /\ UNCHANGED <<issued, work, kinds, handles, queue, feeding, outstanding, held, inbound, serving,
                     completions, sender, connected, replyEnd>>
  BY <1>3, <1>5 DEF AnswerOk, serverVars
<1>8. /\ calls' \in [Requests -> Answers] /\ calls'[answered + 1] = Ok(answered + 1)
      /\ \A r \in Requests : r # answered + 1 => calls'[r] = calls[r]
  BY <1>2, <1>6, <1>7 DEF Answers
<1>9. TypeOK'
  <2>1. Len(replies') <= ReplyCapacity
    BY <1>2, <1>4, <1>7
  <2> QED
    BY <1>4, <1>7, <1>8, <2>1 DEF WireIInv, TypeOK, OrderedIoTypeOK, AnswersTypeOK, Requests, Results, Answers
<1>10. Feeds(pulled)'
  <2>1. \A r \in Requests : r > pulled => r # answered + 1
    BY <1>2, <1>6 DEF Requests
  <2> QED
    BY <1>1, <1>7, <1>8, <2>1 DEF Feeds, Counts
<1>11. Awaits(answered + 1, pulled)'
  <2>1. \A r \in Requests : answered + 1 < r => answered < r /\ r # answered + 1
    BY <1>2 DEF Requests
  <2>2. \A r \in 1 .. answered + 1 : r = answered + 1 \/ (r \in 1 .. answered /\ r # answered + 1 /\ r \in Requests)
    BY <1>2, <1>6, MaxRequestsAssumption DEF Requests
  <2>3. \A r \in 1 .. answered + 1 : calls'[r] = Ok(r)
    BY <1>1, <1>3, <1>8, <2>2 DEF Awaits
  <2>4. \A r \in Requests : answered + 1 < r /\ r <= pulled => calls'[r] = Waiting
    BY <1>1, <1>3, <1>8, <2>1 DEF Awaits
  <2>5. AwaitsOne' = 0 /\ answered + 1 + 0 = answered + 1
    BY <1>2, <1>7 DEF AwaitsOne
  <2>6. answered + 1 + AwaitsOne' + Len(outstanding) = pulled /\ Counts(outstanding, answered + 1 + AwaitsOne')
    BY <1>3, <2>5
  <2> QED
    BY <1>3, <1>7, <2>3, <2>4, <2>6 DEF Awaits
<1>12. Serves(begun, pulled)'
  BY <1>1, <1>7 DEF Serves, Counts
<1>13. Replies(answered + 1, begun)'
  <2> PICK n \in Nat : Len(replies) = n + 1 /\ Len(replies') = n
    BY <1>4, <1>7
  <2>1. ASSUME NEW i \in 1 .. n PROVE /\ replies'[i] = replies[i + 1] /\ i + 1 \in 1 .. n + 1
                                       /\ answered + 1 + i = answered + (i + 1)
    <3>1. i \in 1 .. (n + 1) - 1 /\ i + 1 \in 1 .. n + 1 /\ answered + 1 + i = answered + (i + 1)
      BY <1>2
    <3> QED
      BY <1>4, <1>7, <3>1
  <2>2. \A i \in 1 .. Len(replies') : (replies'[i].ok => work[replies'[i].of] = "ok") /\ replies'[i].of = answered + 1 + i
    <3>1. \A j \in 1 .. n + 1 : (replies[j].ok => work[replies[j].of] = "ok") /\ replies[j].of = answered + j
      BY <1>1, <1>3 DEF Replies
    <3> SUFFICES ASSUME NEW i \in 1 .. n
                 PROVE  (replies'[i].ok => work[replies'[i].of] = "ok") /\ replies'[i].of = answered + 1 + i
      BY <1>7
    <3> PICK j \in 1 .. n + 1 : replies'[i] = replies[j] /\ answered + 1 + i = answered + j
      BY <2>1
    <3>2. (replies[j].ok => work[replies[j].of] = "ok") /\ replies[j].of = answered + j
      BY <3>1
    <3> QED
      BY <3>2, Zenon
  <2>3. answered + 1 + Len(replies') = answered + Len(replies)
    BY <1>2, <1>4, <1>7
  <2> QED
    BY <1>1, <1>3, <1>7, <2>2, <2>3 DEF Replies, Counts
<1>14. OrderedIoNext
  <2>1. Succeed(answered + 1)
    <3>1. calls[answered + 1] = Waiting /\ \A q \in 1 .. answered : calls[q] = Ok(q)
      BY <1>1, <1>2, <1>3, <1>6 DEF Awaits
    <3>2. answered + 1 <= issued /\ 1 .. (answered + 1) - 1 = 1 .. answered
      BY <1>2, <1>6
    <3> QED
      BY <1>7, <3>1, <3>2 DEF Succeed
  <2> QED
    BY <1>5, <1>6, <1>7, <2>1 DEF OrderedIoNext
<1> QED
  BY <1>6, <1>7, <1>9, <1>10, <1>11, <1>12, <1>13, <1>14 DEF WireIInv

\* The requests that a reply or its absence fails are those that wait.
LEMMA AnswerErrorStep ==
  ASSUME WireIInv, AnswerError
  PROVE  WireIInv' /\ OrderedIoNext
<1>1. PICK answered \in 0 .. issued, begun \in 0 .. issued, pulled \in 0 .. issued :
        InStep(answered, begun, pulled)
  BY DEF WireIInv
<1> USE DEF InStep
<1>2. /\ issued \in Nat /\ issued <= MaxRequests /\ outstanding \in Seq(Requests)
      /\ calls \in [Requests -> Answers] /\ Len(outstanding) \in Nat /\ answered \in Nat /\ pulled \in Nat
  BY MaxRequestsAssumption DEF WireIInv, TypeOK, OrderedIoTypeOK, AnswersTypeOK
<1>3. /\ monitor = "await" /\ AwaitsOne = 1 /\ held = answered + 1
      /\ answered + 1 + Len(outstanding) = pulled /\ Counts(outstanding, answered + 1)
  BY <1>1 DEF AnswerError, Awaits, AwaitsOne
<1>4. answered + 1 \in Requests /\ answered + 1 \in 0 .. issued /\ answered + 1 <= pulled
  BY <1>2, <1>3, MaxRequestsAssumption, NextIsThere DEF Requests
<1>5. /\ calls' = [r \in Requests |-> IF r \in {answered + 1} THEN Failed ELSE calls[r]] /\ monitor' = "recv"
      /\ replies' = << >> /\ replyEnd' = "over"
      /\ UNCHANGED <<issued, work, kinds, handles, queue, feeding, outstanding, held, inbound, serving,
                     completions, sender, connected>>
  BY <1>3 DEF AnswerError, FailAll, serverVars
<1>6. /\ calls' \in [Requests -> Answers]
      /\ \A r \in Requests : r # answered + 1 => calls'[r] = calls[r]
  BY <1>2, <1>5 DEF Answers
<1>7. TypeOK'
  <2>1. << >> \in Seq(Results) /\ Len(<< >>) <= ReplyCapacity
    BY CapacityAssumption
  <2> QED
    BY <1>5, <1>6, <2>1 DEF WireIInv, TypeOK, OrderedIoTypeOK, AnswersTypeOK, Requests, Results, Answers
<1>8. Feeds(pulled)'
  <2>1. \A r \in Requests : r > pulled => r # answered + 1
    BY <1>2, <1>4 DEF Requests
  <2> QED
    BY <1>1, <1>5, <1>6, <2>1 DEF Feeds, Counts
<1>9. Awaits(answered + 1, pulled)'
  <2>1. \A r \in Requests : answered + 1 < r => answered < r /\ r # answered + 1
    BY <1>2 DEF Requests
  <2>2. \A r \in Requests : answered + 1 < r /\ r <= pulled => calls'[r] = Waiting
    BY <1>1, <1>3, <1>6, <2>1 DEF Awaits
  <2>3. AwaitsOne' = 0 /\ answered + 1 + 0 = answered + 1
    BY <1>2, <1>5 DEF AwaitsOne
  <2>4. answered + 1 + AwaitsOne' + Len(outstanding) = pulled /\ Counts(outstanding, answered + 1 + AwaitsOne')
    BY <1>3, <2>3
  <2> QED
    BY <1>5, <2>2, <2>4 DEF Awaits
<1>10. Serves(begun, pulled)' /\ Replies(answered + 1, begun)'
  BY <1>1, <1>5 DEF Serves, Replies, Counts
<1>11. OrderedIoNext
  <2>1. calls[answered + 1] = Waiting /\ answered + 1 <= issued
    BY <1>1, <1>2, <1>3, <1>4 DEF Awaits
  <2>2. Fail({answered + 1}) /\ {answered + 1} \in SUBSET Requests
    BY <1>4, <1>5, <2>1 DEF Fail
  <2> QED
    BY <1>5, <2>2 DEF OrderedIoNext
<1> QED
  BY <1>4, <1>5, <1>7, <1>8, <1>9, <1>10, <1>11 DEF WireIInv

LEMMA EndOfRepliesStep ==
  ASSUME WireIInv, EndOfReplies
  PROVE  WireIInv' /\ OrderedIoNext
<1> DEFINE gone == {held} \cup Range(outstanding)
<1>1. PICK answered \in 0 .. issued, begun \in 0 .. issued, pulled \in 0 .. issued :
        InStep(answered, begun, pulled)
  BY DEF WireIInv
<1> USE DEF InStep
<1>2. /\ issued \in Nat /\ issued <= MaxRequests /\ outstanding \in Seq(Requests)
      /\ calls \in [Requests -> Answers] /\ Len(outstanding) \in Nat /\ answered \in Nat /\ pulled \in Nat
      /\ pulled <= issued
  BY MaxRequestsAssumption DEF WireIInv, TypeOK, OrderedIoTypeOK, AnswersTypeOK
<1>3. /\ monitor = "await" /\ AwaitsOne = 1 /\ held = answered + 1
      /\ answered + 1 + Len(outstanding) = pulled /\ Counts(outstanding, answered + 1)
  BY <1>1 DEF EndOfReplies, Awaits, AwaitsOne
<1>4. /\ calls' = [r \in Requests |-> IF r \in gone THEN Failed ELSE calls[r]]
      /\ monitor' = "ended" /\ outstanding' = << >>
      /\ UNCHANGED <<issued, work, kinds, handles, queue, feeding, held, inbound, serving, completions, sender,
                     connected, replies, replyEnd>>
  BY DEF EndOfReplies, FailAll, MonitorEnds, serverVars, wireVars
<1>5. ASSUME NEW r \in gone
      PROVE  r \in Requests /\ answered < r /\ r <= pulled
  <2>1. CASE r = held
    BY <1>2, <1>3, <2>1, MaxRequestsAssumption, NextIsThere DEF Requests
  <2>2. CASE r \in Range(outstanding)
    <3>1. PICK i \in 1 .. Len(outstanding) : r = outstanding[i] /\ r \in Requests
      BY <1>2, <2>2, Elements
    <3>2. r = answered + 1 + i
      BY <1>3, <3>1 DEF Counts
    <3> QED
      BY <1>2, <1>3, <3>1, <3>2
  <2> QED
    BY <2>1, <2>2
<1> HIDE DEF gone
<1>6. \A r \in gone : calls[r] = Waiting /\ r <= issued
  BY <1>1, <1>2, <1>3, <1>5 DEF Awaits, Requests
<1>7. /\ calls' \in [Requests -> Answers]
      /\ \A r \in Requests : r > pulled => calls'[r] = calls[r]
  <2>1. \A r \in Requests : r > pulled => r \notin gone
    BY <1>2, <1>5 DEF Requests
  <2> QED
    BY <1>2, <1>4, <2>1 DEF Answers
<1>8. TypeOK'
  <2>1. << >> \in Seq(Requests)
    OBVIOUS
  <2> QED
    BY <1>4, <1>7, <2>1 DEF WireIInv, TypeOK, OrderedIoTypeOK, AnswersTypeOK, Requests, Results, Answers
<1>9. InStep(answered, begun, pulled)'
  <2>1. Feeds(pulled)'
    BY <1>1, <1>4, <1>7 DEF Feeds, Counts
  <2> QED
    BY <1>1, <1>4, <2>1 DEF Awaits, Serves, Replies, Counts
<1>10. OrderedIoNext
  <2>1. Fail(gone) /\ gone \in SUBSET Requests
    BY <1>4, <1>5, <1>6 DEF Fail
  <2> QED
    BY <1>4, <2>1 DEF OrderedIoNext
<1> QED
  BY <1>4, <1>8, <1>9, <1>10 DEF WireIInv

\* The volume is given the requests in the order they were made in.
LEMMA ReceiveStep ==
  ASSUME WireIInv, Receive
  PROVE  WireIInv' /\ OrderedIoNext
<1>1. PICK answered \in 0 .. issued, begun \in 0 .. issued, pulled \in 0 .. issued :
        InStep(answered, begun, pulled)
  BY DEF WireIInv
<1> USE DEF InStep
<1>2. /\ issued \in Nat /\ issued <= MaxRequests /\ inbound \in Seq(Requests)
      /\ completions \in Seq(Requests) /\ replies \in Seq(Results) /\ work \in [Requests -> WorkStates]
      /\ answered \in Nat /\ begun \in Nat /\ pulled \in 0 .. issued /\ Len(replies) \in Nat
  BY MaxRequestsAssumption DEF WireIInv, TypeOK, OrderedIoTypeOK, AnswersTypeOK
<1>3. inbound # << >> /\ Counts(inbound, begun) /\ begun + Len(inbound) <= pulled
  BY <1>1 DEF Receive, Serves
<1>4. /\ Head(inbound) = begun + 1 /\ begun + 1 \in Requests /\ Counts(Tail(inbound), begun + 1)
      /\ Tail(inbound) \in Seq(Requests) /\ Len(inbound) \in Nat \ {0} /\ Len(Tail(inbound)) = Len(inbound) - 1
  BY <1>2, <1>3, FirstTaken, CountsOn
<1>5. /\ inbound' = Tail(inbound) /\ work' = [work EXCEPT ![begun + 1] = "started"]
      /\ completions' = IF sender = "running" THEN Append(completions, begun + 1) ELSE completions
      /\ serving' = "busy"
      /\ UNCHANGED <<issued, calls, kinds, handles, queue, feeding, outstanding, monitor, held, sender,
                     connected, replies, replyEnd>>
  BY <1>4 DEF Receive, clientVars, wireVars
<1>6. /\ begun + 1 <= pulled /\ begun + 1 \in 0 .. issued
      /\ begun + 1 + Len(inbound') = begun + Len(inbound)
  BY <1>2, <1>3, <1>4, <1>5
<1>7. /\ completions' \in Seq(Requests)
      /\ sender = "running" =>
           /\ Len(completions') = Len(completions) + 1 /\ Len(completions) \in Nat
           /\ \A n \in Nat : Counts(completions, n) /\ n + Len(completions) = begun => Counts(completions', n)
  BY <1>2, <1>4, <1>5, LastAdded, CountsMore
<1>8. /\ work' \in [Requests -> WorkStates] /\ work'[begun + 1] = "started"
      /\ \A r \in Requests : r # begun + 1 => work'[r] = work[r]
  BY <1>2, <1>4, <1>5 DEF WorkStates
<1>9. TypeOK'
  BY <1>4, <1>5, <1>7, <1>8 DEF WireIInv, TypeOK, OrderedIoTypeOK, AnswersTypeOK, Requests, Results, Answers
<1>10. Feeds(pulled)' /\ Awaits(answered, pulled)'
  BY <1>1, <1>5 DEF Feeds, Awaits, Counts, AwaitsOne, Requests, Ok, Waiting
<1>11. Serves(begun + 1, pulled)'
  <2>1. \A r \in Requests : work'[r] # "none" <=> r <= begun + 1
    <3>1. \A r \in Requests : (r <= begun + 1 <=> r <= begun \/ r = begun + 1)
      BY <1>2 DEF Requests
    <3> QED
      BY <1>1, <1>8, <3>1 DEF Serves
  <2> QED
    BY <1>1, <1>4, <1>5, <1>6, <2>1 DEF Serves
<1>12. Replies(answered, begun + 1)'
  <2>1. \A i \in 1 .. Len(replies) : replies[i].ok => work'[replies[i].of] = "ok"
    <3> SUFFICES ASSUME NEW i \in 1 .. Len(replies), replies[i].ok
                 PROVE  work'[replies[i].of] = "ok"
      OBVIOUS
    <3>1. replies[i].of \in Requests /\ work[replies[i].of] = "ok"
      <4>1. replies[i] \in Results
        BY <1>2, Elements
      <4> QED
        BY <1>1, <4>1 DEF Replies, Results
    <3>2. work[begun + 1] = "none"
      BY <1>1, <1>2, <1>4 DEF Serves
    <3> QED
      BY <1>8, <3>1, <3>2
  <2>2. ASSUME monitor # "ended", replyEnd # "over"
        PROVE  answered + Len(replies) <= begun + 1
    <3>1. answered + Len(replies) <= begun
      BY <1>1, <2>2 DEF Replies
    <3> QED
      BY <1>2, <3>1
  <2>3. ASSUME monitor # "ended", replyEnd = "open"
        PROVE  /\ answered + Len(replies) + Len(completions') = begun + 1
               /\ Counts(completions', answered + Len(replies))
    <3>1. /\ sender = "running" /\ answered + Len(replies) + Len(completions) = begun
          /\ Counts(completions, answered + Len(replies)) /\ answered + Len(replies) \in Nat
      BY <1>1, <1>2, <2>3 DEF Replies
    <3>2. Counts(completions', answered + Len(replies)) /\ Len(completions') = Len(completions) + 1
      BY <1>7, <3>1
    <3>3. answered + Len(replies) + Len(completions') = begun + 1
      <4>1. /\ answered \in Nat /\ begun \in Nat /\ Len(replies) \in Nat /\ Len(completions) \in Nat
            /\ Len(completions') = Len(completions) + 1
        BY <1>2, <1>7, <3>1
      <4>2. answered + Len(replies) + Len(completions) = begun
        BY <3>1
      <4> QED
        BY <4>1, <4>2
    <3> QED
      BY <3>2, <3>3
  <2> QED
    BY <1>1, <1>5, <2>1, <2>2, <2>3 DEF Replies
<1>13. OrderedIoNext
  <2>1. work[begun + 1] = "none" /\ \A q \in 1 .. begun : work[q] # "none"
    BY <1>1, <1>2, <1>4, MaxRequestsAssumption DEF Serves, Requests
  <2>2. begun + 1 <= issued /\ 1 .. (begun + 1) - 1 = 1 .. begun
    BY <1>2, <1>6
  <2>3. Begin(begun + 1)
    BY <1>5, <2>1, <2>2 DEF Begin
  <2> QED
    BY <1>4, <2>3 DEF OrderedIoNext
<1> QED
  BY <1>5, <1>6, <1>9, <1>10, <1>11, <1>12, <1>13 DEF WireIInv

LEMMA CompleteStep ==
  ASSUME WireIInv, NEW r \in Requests, Complete(r)
  PROVE  WireIInv' /\ OrderedIoNext
<1>1. PICK answered \in 0 .. issued, begun \in 0 .. issued, pulled \in 0 .. issued :
        InStep(answered, begun, pulled)
  BY DEF WireIInv
<1> USE DEF InStep
<1>2. Finish(r) /\ work \in [Requests -> WorkStates] /\ replies \in Seq(Results)
  BY DEF Complete, WireIInv, TypeOK, OrderedIoTypeOK
<1>3. /\ work[r] = "started" /\ \E result \in {"ok", "failed", "lost"} : work' = [work EXCEPT ![r] = result]
      /\ UNCHANGED <<issued, calls, kinds, handles, queue, feeding, outstanding, monitor, held, inbound, serving,
                     completions, sender, connected, replies, replyEnd>>
  BY <1>2 DEF Complete, Finish, clientVars, serverVars, wireVars
<1>4. /\ work' \in [Requests -> WorkStates] /\ work'[r] # "none"
      /\ \A q \in Requests : q # r => work'[q] = work[q]
  BY <1>2, <1>3 DEF WorkStates
<1>5. TypeOK'
  BY <1>3, <1>4 DEF WireIInv, TypeOK, OrderedIoTypeOK, AnswersTypeOK, Requests, Results, Answers
<1>6. Feeds(pulled)' /\ Awaits(answered, pulled)'
  BY <1>1, <1>3 DEF Feeds, Awaits, Counts, AwaitsOne, Requests, Ok, Waiting
<1>7. Serves(begun, pulled)'
  BY <1>1, <1>3, <1>4 DEF Serves, Counts
<1>8. Replies(answered, begun)'
  <2>1. \A i \in 1 .. Len(replies) : replies[i].ok => work'[replies[i].of] = "ok"
    BY <1>1, <1>2, <1>3, <1>4 DEF Replies, Results
  <2> QED
    BY <1>1, <1>3, <2>1 DEF Replies, Counts
<1>9. OrderedIoNext
  BY <1>2 DEF OrderedIoNext
<1> QED
  BY <1>3, <1>5, <1>6, <1>7, <1>8, <1>9 DEF WireIInv

LEMMA SendReplyStep ==
  ASSUME WireIInv, SendReply
  PROVE  WireIInv' /\ UNCHANGED ioVars
<1>1. PICK answered \in 0 .. issued, begun \in 0 .. issued, pulled \in 0 .. issued :
        InStep(answered, begun, pulled)
  BY DEF WireIInv
<1> USE DEF InStep
<1> DEFINE result == [of |-> Head(completions), ok |-> work[Head(completions)] = "ok"]
<1>2. /\ completions \in Seq(Requests) /\ replies \in Seq(Results) /\ Len(replies) <= ReplyCapacity
      /\ issued \in Nat /\ answered \in Nat /\ begun \in Nat /\ ReplyCapacity \in Nat
  BY CapacityAssumption DEF WireIInv, TypeOK, OrderedIoTypeOK, AnswersTypeOK
<1>3. /\ sender = "running" /\ completions # << >> /\ replyEnd = "open" /\ Len(replies) < ReplyCapacity
      /\ replies' = Append(replies, result) /\ completions' = Tail(completions)
      /\ UNCHANGED <<issued, calls, work, kinds, handles, queue, feeding, outstanding, monitor, held, inbound,
                     serving, sender, connected, replyEnd>>
  BY DEF SendReply, ioVars, clientVars
<1>4. /\ Head(completions) \in Requests /\ completions' \in Seq(Requests)
      /\ Len(completions) \in Nat \ {0} /\ Len(completions') = Len(completions) - 1
  BY <1>2, <1>3, FirstTaken
<1>5. result \in Results /\ result.of = Head(completions) /\ (result.ok => work[result.of] = "ok")
  BY <1>4 DEF Results
<1> HIDE DEF result
<1>6. /\ replies' \in Seq(Results) /\ Len(replies) \in Nat /\ Len(replies') = Len(replies) + 1
      /\ replies'[Len(replies) + 1] = result
      /\ \A i \in 1 .. Len(replies) : replies'[i] = replies[i]
  BY <1>2, <1>3, <1>5, LastAdded
<1>7. TypeOK'
  <2>1. Len(replies') <= ReplyCapacity
    BY <1>2, <1>3, <1>6
  <2> QED
    BY <1>3, <1>4, <1>6, <2>1 DEF WireIInv, TypeOK, OrderedIoTypeOK, AnswersTypeOK, Requests, Results, Answers
<1>8. Feeds(pulled)' /\ Awaits(answered, pulled)' /\ Serves(begun, pulled)'
  BY <1>1, <1>3 DEF Feeds, Awaits, Serves, Counts, AwaitsOne, Requests, Ok, Waiting
<1>9. \A i \in 1 .. Len(replies') : i = Len(replies) + 1 \/ i \in 1 .. Len(replies)
  BY <1>6
<1>10. \A i \in 1 .. Len(replies') : replies'[i].ok => work[replies'[i].of] = "ok"
  BY <1>1, <1>5, <1>6, <1>9 DEF Replies
<1>11. ASSUME monitor # "ended"
       PROVE  /\ \A i \in 1 .. Len(replies') : replies'[i].of = answered + i
              /\ answered + Len(replies') <= begun
              /\ answered + Len(replies') + Len(completions') = begun
              /\ Counts(completions', answered + Len(replies'))
  <2>1. /\ answered + Len(replies) + Len(completions) = begun /\ Counts(completions, answered + Len(replies))
        /\ \A i \in 1 .. Len(replies) : replies[i].of = answered + i
    BY <1>1, <1>3, <1>11 DEF Replies
  <2>2. answered + Len(replies) \in Nat /\ answered + Len(replies) + 1 = answered + Len(replies')
    BY <1>2, <1>6
  <2>3. Head(completions) = answered + Len(replies) + 1 /\ Counts(completions', answered + Len(replies) + 1)
    BY <1>2, <1>3, <2>1, <2>2, CountsOn
  <2>4. answered + Len(replies') <= begun /\ answered + Len(replies') + Len(completions') = begun
    <3>1. /\ answered \in Nat /\ begun \in Nat /\ Len(replies) \in Nat /\ Len(completions) \in Nat \ {0}
          /\ Len(replies') = Len(replies) + 1 /\ Len(completions') = Len(completions) - 1
      BY <1>2, <1>4, <1>6
    <3>2. answered + Len(replies) + Len(completions) = begun
      BY <2>1
    <3> QED
      BY <3>1, <3>2
  <2>5. ASSUME NEW i \in 1 .. Len(replies') PROVE replies'[i].of = answered + i
    <3>1. CASE i \in 1 .. Len(replies)
      BY <1>6, <2>1, <3>1
    <3>2. CASE i = Len(replies) + 1
      <4>1. replies'[i].of = Head(completions) /\ answered + i = answered + Len(replies) + 1
        BY <1>2, <1>5, <1>6, <3>2
      <4> QED
        BY <2>3, <4>1
    <3> QED
      BY <1>9, <3>1, <3>2
  <2> QED
    BY <2>2, <2>3, <2>4, <2>5
<1>12. Replies(answered, begun)'
  BY <1>1, <1>3, <1>10, <1>11 DEF Replies
<1> QED
  BY <1>3, <1>7, <1>8, <1>12 DEF WireIInv, ioVars

LEMMA EndRepliesStep ==
  ASSUME WireIInv, EndReplies
  PROVE  WireIInv' /\ UNCHANGED ioVars
<1>1. PICK answered \in 0 .. issued, begun \in 0 .. issued, pulled \in 0 .. issued :
        InStep(answered, begun, pulled)
  BY DEF WireIInv
<1> USE DEF InStep
<1>2. /\ sender' = "ended" /\ completions' = << >> /\ << >> \in Seq(Requests)
      /\ replyEnd' = IF replyEnd = "open" THEN "done" ELSE replyEnd
      /\ UNCHANGED <<issued, calls, work, kinds, handles, queue, feeding, outstanding, monitor, held, inbound,
                     serving, connected, replies>>
  BY DEF EndReplies, ioVars, clientVars
<1>3. /\ replyEnd' \in {"open", "done", "error", "over"} /\ replyEnd' # "open"
      /\ (replyEnd' = "over" <=> replyEnd = "over")
  BY <1>2 DEF WireIInv, TypeOK
<1>4. TypeOK'
  BY <1>2, <1>3 DEF WireIInv, TypeOK, OrderedIoTypeOK, AnswersTypeOK, Requests, Results, Answers
<1>5. InStep(answered, begun, pulled)'
  BY <1>1, <1>2, <1>3 DEF Feeds, Awaits, Serves, Replies, Counts, AwaitsOne, Requests, Ok, Waiting
<1> QED
  BY <1>2, <1>4, <1>5 DEF WireIInv, ioVars

\* What had not arrived is lost: what has is still without a gap.
LEMMA BreakStep ==
  ASSUME WireIInv, Break
  PROVE  WireIInv' /\ UNCHANGED ioVars
<1>1. PICK answered \in 0 .. issued, begun \in 0 .. issued, pulled \in 0 .. issued :
        InStep(answered, begun, pulled)
  BY DEF WireIInv
<1> USE DEF InStep
<1>2. /\ inbound \in Seq(Requests) /\ replies \in Seq(Results) /\ Len(replies) <= ReplyCapacity
      /\ issued \in Nat /\ answered \in Nat /\ begun \in Nat /\ pulled \in Nat /\ ReplyCapacity \in Nat
      /\ Len(inbound) \in Nat /\ Len(replies) \in Nat
  BY CapacityAssumption DEF WireIInv, TypeOK, OrderedIoTypeOK, AnswersTypeOK
<1>3. /\ connected' = FALSE
      /\ UNCHANGED <<issued, calls, work, kinds, handles, queue, feeding, outstanding, monitor, held, serving,
                     completions, sender>>
  BY DEF Break, ioVars, clientVars
<1>4. PICK n \in 0 .. Len(inbound) : inbound' = SubSeq(inbound, 1, n)
  BY DEF Break
<1>5. /\ inbound' \in Seq(Requests) /\ Len(inbound') = n /\ \A i \in 1 .. n : inbound'[i] = inbound[i]
  BY <1>2, <1>4, Cut
<1>6. Feeds(pulled)'
  BY <1>1, <1>3 DEF Feeds, Counts
<1>7. Serves(begun, pulled)'
  <2>1. begun + n <= pulled
    BY <1>1, <1>2 DEF Serves
  <2> QED
    BY <1>1, <1>2, <1>3, <1>5, <2>1 DEF Serves, Counts
<1>8. ASSUME /\ replies' \in Seq(Results) /\ Len(replies') <= Len(replies)
             /\ \A i \in 1 .. Len(replies') : replies'[i] = replies[i]
             /\ replyEnd' \in {"done", "error", "over"} /\ (replyEnd' = "over" <=> replyEnd = "over")
      PROVE  WireIInv'
  <2>1. Len(replies') \in Nat /\ Len(replies') <= ReplyCapacity
    BY <1>2, <1>8
  <2>2. TypeOK'
    BY <1>3, <1>5, <1>8, <2>1 DEF WireIInv, TypeOK, OrderedIoTypeOK, AnswersTypeOK, Requests, Results, Answers
  <2>3. Awaits(answered, pulled)'
    BY <1>1, <1>3, <1>8 DEF Awaits, Counts, AwaitsOne, Ok, Waiting
  <2>4. \A i \in 1 .. Len(replies') : i \in 1 .. Len(replies)
    BY <1>2, <1>8, <2>1
  <2>5. replyEnd = "over" => replies' = << >>
    <3>1. replyEnd = "over" => Len(replies) = 0
      BY <1>1 DEF Replies
    <3>2. Len(replies') = 0 => replies' = << >>
      BY <1>8
    <3> QED
      BY <1>8, <2>1, <3>1, <3>2
  <2>6. ASSUME monitor # "ended", replyEnd # "over" PROVE answered + Len(replies') <= begun
    <3>1. answered + Len(replies) <= begun
      BY <1>1, <2>6 DEF Replies
    <3> QED
      BY <1>2, <1>8, <2>1, <3>1
  <2>7. Replies(answered, begun)'
    BY <1>1, <1>3, <1>8, <2>4, <2>5, <2>6 DEF Replies
  <2> QED
    BY <1>3, <1>6, <1>7, <2>2, <2>3, <2>7 DEF WireIInv
<1>9. CASE /\ \E m \in 0 .. Len(replies) : replies' = SubSeq(replies, 1, m)
           /\ replyEnd # "over" /\ replyEnd' = "error"
  <2>1. PICK m \in 0 .. Len(replies) : replies' = SubSeq(replies, 1, m)
    BY <1>9
  <2>2. /\ replies' \in Seq(Results) /\ Len(replies') = m /\ \A i \in 1 .. m : replies'[i] = replies[i]
    BY <1>2, <2>1, Cut
  <2> QED
    BY <1>2, <1>3, <1>8, <1>9, <2>2 DEF ioVars
<1>10. CASE replyEnd # "open" /\ UNCHANGED <<replies, replyEnd>>
  <2>1. replyEnd' \in {"done", "error", "over"}
    BY <1>10 DEF WireIInv, TypeOK
  <2> QED
    BY <1>2, <1>3, <1>8, <1>10, <2>1 DEF ioVars
<1> QED
  BY <1>9, <1>10 DEF Break

LEMMA WireStep ==
  ASSUME WireIInv, [Next]_vars
  PROVE  WireIInv' /\ [OrderedIoNext]_ioVars
<1>1. CASE UNCHANGED vars
  <2>1. PICK answered \in 0 .. issued, begun \in 0 .. issued, pulled \in 0 .. issued :
          InStep(answered, begun, pulled)
    BY DEF WireIInv
  <2> USE <1>1 DEF vars, ioVars, clientVars, serverVars, wireVars
  <2>2. InStep(answered, begun, pulled)' /\ issued' = issued
    BY <2>1 DEF InStep, Feeds, Awaits, Serves, Replies, Counts, AwaitsOne, Requests, Ok, Waiting
  <2>3. TypeOK'
    BY DEF WireIInv, TypeOK, OrderedIoTypeOK, AnswersTypeOK, Requests, Results, Answers
  <2> QED
    BY <2>2, <2>3 DEF WireIInv
<1>2. CASE Request \/ EndRequests
  BY <1>2, RequestStep, EndRequestsStep
<1>3. CASE Pull
  BY <1>3, PullStep
<1>4. CASE Close \/ TakeOutstanding \/ NoMoreOutstanding \/ CallReturns \/ StopServing
  BY <1>4, QuietSteps
<1>5. CASE AnswerOk \/ AnswerError \/ EndOfReplies
  BY <1>5, AnswerOkStep, AnswerErrorStep, EndOfRepliesStep
<1>6. CASE Receive \/ \E r \in Requests : Complete(r)
  BY <1>6, ReceiveStep, CompleteStep
<1>7. CASE SendReply \/ EndReplies \/ Break
  BY <1>7, SendReplyStep, EndRepliesStep, BreakStep
<1> QED
  BY <1>1, <1>2, <1>3, <1>4, <1>5, <1>6, <1>7 DEF Next, ClientStep, ServerStep

\* What comes back begins with the reply to the oldest request without one, and goes on
\* in the order of the requests.
LEMMA ReplyIsNext ==
  ASSUME WireIInv
  PROVE  RepliesFollowRequests
<1>1. PICK answered \in 0 .. issued, begun \in 0 .. issued, pulled \in 0 .. issued :
        InStep(answered, begun, pulled)
  BY DEF WireIInv
<1> USE DEF InStep
<1> DEFINE sent == [i \in 1 .. Len(replies) |-> replies[i].of]
           rest == IF replyEnd = "open" THEN completions ELSE << >>
           first == IF monitor = "await" THEN <<held>> ELSE << >>
<1> SUFFICES ASSUME replyEnd # "over", monitor # "ended", NEW i \in DOMAIN (sent \o rest)
             PROVE  i \in DOMAIN (first \o outstanding) /\ (sent \o rest)[i] = (first \o outstanding)[i]
  BY DEF RepliesFollowRequests
<1>2. /\ answered \in Nat /\ begun \in Nat /\ pulled \in Nat /\ issued \in Nat
      /\ replies \in Seq(Results) /\ completions \in Seq(Requests) /\ outstanding \in Seq(Requests)
      /\ held \in Requests \cup {0} /\ held \in Nat
  BY DEF WireIInv, TypeOK, OrderedIoTypeOK, AnswersTypeOK, Requests
<1>11. Requests \subseteq Nat
  BY DEF Requests
<1>3. /\ sent \in Seq(Nat) /\ Len(sent) = Len(replies) /\ Len(replies) \in Nat
      /\ \A j \in 1 .. Len(sent) : sent[j] = answered + j
  <2>1. \A j \in 1 .. Len(replies) : replies[j].of = answered + j /\ answered + j \in Nat
    BY <1>1, <1>2 DEF Replies
  <2> QED
    BY <1>2, <2>1
<1>4. /\ rest \in Seq(Nat) /\ Len(rest) \in Nat /\ answered + Len(sent) + Len(rest) <= begun
      /\ \A j \in 1 .. Len(rest) : rest[j] = answered + Len(sent) + j
  <2>1. CASE replyEnd = "open"
    <3>1. completions \in Seq(Nat)
      BY <1>2, <1>11, Widens
    <3> QED
      BY <1>1, <1>2, <1>3, <2>1, <3>1 DEF Replies, Counts
  <2>2. CASE replyEnd # "open"
    BY <1>1, <1>2, <1>3, <2>2 DEF Replies
  <2> QED
    BY <2>1, <2>2
<1>5. /\ first \in Seq(Nat) /\ Len(first) = AwaitsOne /\ AwaitsOne \in 0 .. 1
      /\ \A j \in 1 .. Len(first) : first[j] = answered + j
  BY <1>1, <1>2 DEF Awaits, AwaitsOne
<1>6. /\ outstanding \in Seq(Nat) /\ Len(outstanding) \in Nat
      /\ answered + AwaitsOne + Len(outstanding) = pulled /\ Counts(outstanding, answered + AwaitsOne)
  <2>1. outstanding \in Seq(Nat)
    BY <1>2, <1>11, Widens
  <2> QED
    BY <1>1, <2>1 DEF Awaits
<1>7. begun <= pulled
  <2>1. begun + Len(inbound) <= pulled /\ Len(inbound) \in Nat
    BY <1>1 DEF Serves, WireIInv, TypeOK
  <2> QED
    BY <1>2, <2>1
<1> HIDE DEF sent, rest, first
<1>8. i \in 1 .. Len(sent) + Len(rest) /\ (sent \o rest)[i] = answered + i
  <2>1. i \in 1 .. Len(sent) + Len(rest)
    BY <1>3, <1>4
  <2>2. CASE i <= Len(sent)
    BY <1>3, <1>4, <2>1, <2>2
  <2>3. CASE i > Len(sent)
    <3>1. (sent \o rest)[i] = rest[i - Len(sent)] /\ i - Len(sent) \in 1 .. Len(rest)
      BY <1>3, <1>4, <2>1, <2>3
    <3>2. rest[i - Len(sent)] = answered + Len(sent) + (i - Len(sent))
      BY <1>4, <3>1
    <3>3. answered + Len(sent) + (i - Len(sent)) = answered + i
      <4>1. i \in Int /\ Len(sent) \in Nat /\ answered \in Nat
        BY <1>2, <1>3, <1>4, <2>1
      <4> QED
        BY <4>1
    <3> QED
      BY <2>1, <3>1, <3>2, <3>3
  <2> QED
    BY <1>3, <2>1, <2>2, <2>3
<1>9. i \in 1 .. Len(first) + Len(outstanding)
  BY <1>2, <1>3, <1>4, <1>5, <1>6, <1>7, <1>8
<1>10. (first \o outstanding)[i] = answered + i
  <2>1. CASE i <= Len(first)
    BY <1>5, <1>6, <1>9, <2>1
  <2>2. CASE i > Len(first)
    <3>1. (first \o outstanding)[i] = outstanding[i - Len(first)] /\ i - Len(first) \in 1 .. Len(outstanding)
      <4>1. Len(first) \in Nat /\ Len(outstanding) \in Nat /\ i \in Nat
        BY <1>5, <1>6, <1>9
      <4>2. i - Len(first) \in 1 .. Len(outstanding)
        BY <1>9, <2>2, <4>1
      <4>3. \A S : \A s, t \in Seq(S) : \A j \in 1 .. Len(s) + Len(t) :
              j > Len(s) => (s \o t)[j] = t[j - Len(s)]
        OBVIOUS
      <4>4. (first \o outstanding)[i] = outstanding[i - Len(first)]
        BY <1>5, <1>6, <1>9, <2>2, <4>3, Zenon
      <4> QED
        BY <4>2, <4>4
    <3>2. outstanding[i - Len(first)] = answered + Len(first) + (i - Len(first))
      BY <1>5, <1>6, <3>1 DEF Counts
    <3> QED
      BY <1>2, <1>5, <1>9, <3>1, <3>2
  <2> QED
    BY <1>5, <1>9, <2>1, <2>2
<1> QED
  BY <1>5, <1>6, <1>8, <1>9, <1>10

\* The channels, the stream and the completions between client and server stay in step,
\* so that every reply meets its request (request_monitor of client.rs, VolumeIoReplies
\* and volume_io of main.rs).
THEOREM WireSafe == Spec => []WireInv
<1>1. WireIInv => WireInv
  BY ReplyIsNext DEF WireInv, WireIInv
<1> QED
  BY <1>1, WireInitInv, WireStep, PTL DEF Spec

\* The pipelined stream implements the promise of an opened volume: an Ok is the result
\* of the client's own request and of every one before it, wherever the connection
\* breaks, and in whichever order the volume completes what it was asked.
THEOREM WireImplementsOrderedIo == Spec => ImplementsOrderedIo
<1>1. Init => OrderedIoInit
  BY DEF Init
<1> QED
  BY <1>1, WireInitInv, WireStep, PTL DEF Spec, ImplementsOrderedIo, OrderedIoSpec

-----------------------------------------------------------------------------
(* VolumeIoRW: a volume as a file. *)

\* A set of numbers has a least one.
LEMMA LeastNumber ==
  ASSUME NEW T, T \subseteq Nat, T # {}
  PROVE  \E m \in T : \A k \in T : m <= k
<1> DEFINE R == OpToRel(<, Nat)
<1>1. \A m, k \in Nat : <<k, m>> \in R <=> k < m
  BY DEF OpToRel
<1>2. IsWellFoundedOn(R, Nat)
  BY NatLessThanWellFounded
<1> HIDE DEF R
<1>3. PICK m \in T : \A k \in T : ~ (<<k, m>> \in R)
  BY <1>2, WFMin
<1>4. \A k \in T : m <= k
  <2>1. \A k \in T : k \in Nat /\ m \in Nat /\ ~ k < m
    BY <1>1, <1>3
  <2> QED
    BY <2>1
<1> QED
  BY <1>4

Elems(s) == {s[i] : i \in DOMAIN s}
Writes == {r \in 1 .. issued : what[r].kind = "write"}
Below(S, r) == \A s \in S : s < r

\* An answer is that of its request; what is asked for is in the volume.
AnswersMatch ==
  \A r \in Requests : /\ calls[r] \in {Waiting, Failed, Ok(r)}
                      /\ what[r].at + what[r].len <= Top

\* A write is waited for, was carried out, or its error is known.
WritesTracked == \A r \in Writes : r \in Elems(pending) \/ calls[r] = Ok(r) \/ r \in told

\* What is asked for, or buffered, was asked for after all writes; it is never both.
ReadsAreLatest ==
  /\ state = "Read" => what[reading].kind = "read" /\ reading <= issued /\ Below(Writes, reading)
  /\ buffered.len > 0 => /\ Below(Writes, buffered.of) /\ state # "Read"
                         /\ buffered.at + buffered.len <= Top

\* Unless a seek came over it, it is for the position of the user.
ReadsInPlace ==
  ~ overtaken => /\ state = "Read" => what[reading].at = pos
                 /\ buffered.len > 0 => buffered.at = pos

FileIInv ==
  RWTypeOK /\ AnswersMatch /\ WritesTracked /\ ReadsAreLatest /\ ReadsInPlace
    /\ FlushedMeansWritten /\ ReadsSeeWrites

\* What a poll leaves of a seek over a read.
Overtakes ==
  overtaken' = (/\ outcome'.op = "seek" \/ overtaken
                /\ state' = "Read" \/ buffered'.len > 0)

\* The requests at the front that are answered: there is an end to them.
LEMMA AnsweredIs ==
  ASSUME RWTypeOK
  PROVE  /\ Answered \in 0 .. Len(pending)
         /\ \A i \in 1 .. Answered : calls[pending[i]] \notin {Waiting, Failed}
         /\ Answered < Len(pending) => calls[pending[Answered + 1]] \in {Waiting, Failed}
<1> DEFINE T == {n \in 0 .. Len(pending) : n < Len(pending) => calls[pending[n + 1]] \in {Waiting, Failed}}
<1>1. PICK l \in Nat : l = Len(pending)
  BY DEF RWTypeOK
<1>2. T \subseteq Nat /\ l \in T
  BY <1>1
<1> HIDE DEF T
<1>3. PICK m \in T : \A k \in T : m <= k
  BY <1>2, LeastNumber
<1>4. m \in 0 .. l /\ (m < l => calls[pending[m + 1]] \in {Waiting, Failed})
  BY <1>1, <1>3 DEF T
<1>5. ASSUME NEW i \in 1 .. m PROVE calls[pending[i]] \notin {Waiting, Failed}
  <2>1. i - 1 \in 0 .. l /\ ~ m <= i - 1 /\ (i - 1) + 1 = i
    BY <1>4
  <2>2. i - 1 \notin T
    BY <1>3, <2>1
  <2> QED
    BY <1>1, <2>1, <2>2 DEF T
<1>6. \E n \in 0 .. Len(pending) :
         /\ \A i \in 1 .. n : calls[pending[i]] \notin {Waiting, Failed}
         /\ n < Len(pending) => calls[pending[n + 1]] \in {Waiting, Failed}
  BY <1>1, <1>4, <1>5
<1> QED
  BY <1>6 DEF Answered

\* What the cleanup takes from the queue is settled.
LEMMA CleanedUpIs ==
  ASSUME RWTypeOK, AnswersMatch
  PROVE  /\ CleanedUp \in Seq(Requests)
         /\ Told \subseteq Requests /\ told \subseteq Told
         /\ \A r \in Elems(pending) : r \in Elems(CleanedUp) \/ calls[r] = Ok(r) \/ r \in Told
<1>1. pending \in Seq(Requests)
  BY DEF RWTypeOK
<1>2. PICK l \in Nat : l = Len(pending) /\ DOMAIN pending = 1 .. l
  BY <1>1
<1>3. PICK n \in 0 .. l : /\ n = Answered
                          /\ \A i \in 1 .. n : calls[pending[i]] \notin {Waiting, Failed}
  BY <1>2, AnsweredIs
<1>4. PICK a \in 1 .. l + 1 : /\ a = IF CleanupFails THEN n + 2 ELSE n + 1
                              /\ CleanedUp = SubSeq(pending, a, l)
  <2>1. CleanupFails => n < l
    BY <1>2, <1>3 DEF CleanupFails
  <2>2. n + 1 \in 1 .. l + 1 /\ (n < l => n + 2 \in 1 .. l + 1)
    OBVIOUS
  <2> QED
    BY <1>2, <1>3, <2>1, <2>2 DEF CleanedUp
<1>5. /\ CleanedUp \in Seq(Requests) /\ Len(CleanedUp) = l - a + 1
      /\ \A i \in 1 .. l - a + 1 : CleanedUp[i] = pending[a + i - 1]
  <2>1. a \in Int /\ l \in Int /\ (IF a <= l THEN l - a + 1 ELSE 0) = l - a + 1
    OBVIOUS
  <2>2. \A i \in a .. l : pending[i] \in Requests
    BY <1>1, <1>2
  <2>3. /\ SubSeq(pending, a, l) \in Seq(Requests)
        /\ Len(SubSeq(pending, a, l)) = IF a <= l THEN l - a + 1 ELSE 0
        /\ \A i \in 1 .. l - a + 1 : SubSeq(pending, a, l)[i] = pending[a + i - 1]
    BY <2>1, <2>2, SubSeqProperties
  <2> QED
    BY <1>4, <2>1, <2>3
<1>6. DOMAIN CleanedUp = 1 .. l - a + 1
  BY <1>4, <1>5
<1>7. ASSUME NEW i \in 1 .. l
      PROVE  pending[i] \in Elems(CleanedUp) \/ calls[pending[i]] = Ok(pending[i]) \/ pending[i] \in Told
  <2>1. CASE i >= a
    <3>1. i - a + 1 \in 1 .. l - a + 1 /\ a + (i - a + 1) - 1 = i
      BY <2>1
    <3> QED
      BY <1>5, <1>6, <3>1 DEF Elems
  <2>2. CASE i <= n
    <3>1. pending[i] \in Requests /\ calls[pending[i]] \notin {Waiting, Failed}
      BY <1>1, <1>2, <1>3, <2>2
    <3> QED
      BY <3>1 DEF AnswersMatch
  <2>3. CASE ~ i >= a /\ ~ i <= n
    <3>1. CleanupFails /\ i = n + 1
      BY <1>4, <2>3
    <3> QED
      BY <1>3, <3>1 DEF Told
  <2> QED
    BY <2>1, <2>2, <2>3
<1>8. Told \subseteq Requests /\ told \subseteq Told
  <2>1. CleanupFails => pending[Answered + 1] \in Requests
    <3>1. CleanupFails => n + 1 \in 1 .. l
      BY <1>2, <1>3 DEF CleanupFails
    <3> QED
      BY <1>1, <1>2, <1>3, <3>1
  <2> QED
    BY <2>1 DEF Told, RWTypeOK
<1> QED
  BY <1>2, <1>5, <1>7, <1>8 DEF Elems

LEMMA ReturnedIs ==
  ASSUME NEW op \in {"write", "read", "flush", "shutdown", "seek"},
         NEW result \in {"ok", "pending", "error", "panic"}, RWTypeOK
  PROVE  /\ Returned(op, result) \in Outcomes /\ NoBytes \in Bytes
         /\ Returned(op, result).data.len = 0 /\ NoBytes.len = 0
         /\ Returned(op, result).op = op /\ Returned(op, result).result = result
<1>1. NoBytes \in Bytes /\ NoBytes.len = 0
  BY RWAssumption DEF NoBytes, Bytes, Positions
<1> QED
  BY <1>1 DEF Returned, Outcomes

\* A poll that makes no request, and one that does.
LEMMA WithoutRequest ==
  ASSUME RWTypeOK, AnswersMatch, NoSend
  PROVE  /\ AnswersTypeOK' /\ AnswersMatch' /\ Writes' = Writes
         /\ what' = what /\ calls' = calls /\ issued' = issued /\ closed' = closed
         /\ what' \in [Requests -> RequestKinds \cup {NoRequest}] /\ closed' \in BOOLEAN
  BY DEF NoSend, answerVars, AnswersMatch, RWTypeOK, AnswersTypeOK, Writes

LEMMA WithRequest ==
  ASSUME RWTypeOK, AnswersMatch, NEW kind \in {"write", "read", "flush", "shutdown"},
         NEW at \in Positions, NEW len \in Amounts, at + len <= Top, SendRequest(kind, at, len)
  PROVE  /\ AnswersTypeOK' /\ AnswersMatch'
         /\ issued \in Nat /\ issued' = issued + 1 /\ issued + 1 \in Requests
         /\ what'[issued + 1] = [kind |-> kind, at |-> at, len |-> len]
         /\ \A r \in 1 .. issued : what'[r] = what[r] /\ r < issued + 1
         /\ calls' = calls /\ closed' = closed
         /\ Writes' = Writes \cup (IF kind = "write" THEN {issued + 1} ELSE {})
         /\ what' \in [Requests -> RequestKinds \cup {NoRequest}] /\ closed' \in BOOLEAN
<1>1. PICK n \in Nat : n = issued /\ n < MaxRequests /\ issued' = n + 1 /\ calls' = calls
  BY DEF RWTypeOK, AnswersTypeOK, SendRequest, Ask
<1>2. /\ n + 1 \in Requests /\ issued' \in 0 .. MaxRequests
      /\ 1 .. n + 1 = 1 .. n \cup {n + 1} /\ \A r \in 1 .. n : r < n + 1 /\ r # n + 1
  BY <1>1, MaxRequestsAssumption DEF Requests
<1>3. [kind |-> kind, at |-> at, len |-> len] \in RequestKinds
  BY DEF RequestKinds
<1>4. /\ what' = [what EXCEPT ![n + 1] = [kind |-> kind, at |-> at, len |-> len]]
      /\ what \in [Requests -> RequestKinds \cup {NoRequest}] /\ closed' = closed
  BY <1>1 DEF SendRequest, RWTypeOK
<1>5. /\ what' \in [Requests -> RequestKinds \cup {NoRequest}]
      /\ \A r \in Requests : what'[r] = IF r = n + 1 THEN [kind |-> kind, at |-> at, len |-> len] ELSE what[r]
  BY <1>2, <1>3, <1>4
<1>6. AnswersTypeOK'
  BY <1>1, <1>2 DEF AnswersTypeOK, RWTypeOK
<1>7. AnswersMatch'
  BY <1>1, <1>5 DEF AnswersMatch
<1>8. \A r \in 1 .. n : r \in Requests
  BY <1>1, MaxRequestsAssumption DEF Requests
<1>9. Writes' = Writes \cup (IF kind = "write" THEN {issued + 1} ELSE {})
  BY <1>1, <1>2, <1>5, <1>8 DEF Writes
<1> QED
  BY <1>1, <1>2, <1>4, <1>5, <1>6, <1>7, <1>8, <1>9 DEF RWTypeOK

\* Writes are not forgotten, if what leaves the queue is settled.
LEMMA StaysTracked ==
  ASSUME RWTypeOK, WritesTracked, calls' = calls, told \subseteq told',
         \A r \in Elems(pending) : r \in Elems(pending)' \/ calls[r] = Ok(r) \/ r \in told',
         Writes' \subseteq Writes \cup Elems(pending)'
  PROVE  WritesTracked'
  BY DEF WritesTracked

LEMMA Flushed ==
  ASSUME WritesTracked',
         outcome'.op \in {"flush", "shutdown"} /\ outcome'.result = "ok" => pending' = << >>
  PROVE  FlushedMeansWritten'
<1>1. pending' = << >> => Elems(pending)' = {}
  BY DEF Elems
<1> QED
  BY <1>1 DEF FlushedMeansWritten, WritesTracked, Writes

LEMMA AppendElems ==
  ASSUME NEW S, NEW s \in Seq(S), NEW e \in S
  PROVE  Append(s, e) \in Seq(S) /\ Elems(Append(s, e)) = Elems(s) \cup {e}
<1>1. PICK n \in Nat : /\ n = Len(s) /\ DOMAIN s = 1 .. n /\ DOMAIN Append(s, e) = 1 .. n + 1
                       /\ Append(s, e) \in Seq(S) /\ Append(s, e)[n + 1] = e
                       /\ \A k \in 1 .. n : Append(s, e)[k] = s[k]
  <2>1. /\ Len(s) \in Nat /\ DOMAIN s = 1 .. Len(s) /\ DOMAIN Append(s, e) = 1 .. Len(s) + 1
        /\ Append(s, e) \in Seq(S) /\ Append(s, e)[Len(s) + 1] = e
        /\ \A k \in 1 .. Len(s) : Append(s, e)[k] = s[k]
    OBVIOUS
  <2> QED
    BY <2>1
<1>2. 1 .. n + 1 = 1 .. n \cup {n + 1}
  OBVIOUS
<1> QED
  BY <1>1, <1>2 DEF Elems

\* The reservation.
LEMMA ReservingIs ==
  ASSUME RWTypeOK, NEW op \in {"write", "read", "flush", "shutdown"}, Reserving(op)
  PROVE  /\ NoSend /\ state' \in {"Reserve", "Spent"} /\ reading' = 0
         /\ outcome' \in Outcomes /\ outcome'.data.len = 0 /\ outcome'.op = op /\ outcome'.result # "ok"
  BY ReturnedIs DEF Reserving

\* A poll that leaves no read behind and no data.
LEMMA WithoutRead ==
  ASSUME FileIInv, Overtakes, AnswersTypeOK', AnswersMatch',
         what' \in [Requests -> RequestKinds \cup {NoRequest}], closed' \in BOOLEAN,
         state' \in {"Idle", "Reserve", "Spent", "Flush", "Shutdown"}, reading' = 0,
         pending' \in Seq(Requests), told' \subseteq Requests, outcome' \in Outcomes,
         pos' \in Positions,
         \/ buffered' = NoBytes
         \/ /\ buffered' = buffered /\ Writes' = Writes
            /\ pos' = pos \/ outcome'.op = "seek",
         outcome'.data.len = 0, WritesTracked',
         outcome'.op \in {"flush", "shutdown"} /\ outcome'.result = "ok" => pending' = << >>
  PROVE  FileIInv'
<1>1. RWTypeOK /\ ReadsAreLatest /\ ReadsInPlace
  BY DEF FileIInv
<1>2. NoBytes \in Bytes /\ NoBytes.len = 0
  BY <1>1, ReturnedIs
<1>3. RWTypeOK'
  BY <1>1, <1>2 DEF RWTypeOK, Overtakes
<1>4. ReadsAreLatest'
  BY <1>1, <1>2 DEF ReadsAreLatest
<1>5. ReadsInPlace'
  BY <1>1, <1>2 DEF ReadsInPlace, Overtakes, RWTypeOK
<1>6. ReadsSeeWrites'
  BY DEF ReadsSeeWrites
<1>7. FlushedMeansWritten'
  BY Flushed
<1> QED
  BY <1>3, <1>4, <1>5, <1>6, <1>7 DEF FileIInv

LEMMA PollWriteKeeps ==
  ASSUME FileIInv, Overtakes, NEW len \in Lengths, PollWrite(len)
  PROVE  FileIInv'
<1>1. RWTypeOK /\ AnswersMatch /\ WritesTracked /\ ReadsAreLatest /\ ReadsInPlace
  BY DEF FileIInv
<1>2. /\ CleanedUp \in Seq(Requests) /\ Told \subseteq Requests /\ told \subseteq Told
      /\ \A r \in Elems(pending) : r \in Elems(CleanedUp) \/ calls[r] = Ok(r) \/ r \in Told
  BY <1>1, CleanedUpIs
<1>3. buffered' = NoBytes /\ told' = Told
  BY DEF PollWrite, InvalidatedBuffer
<1>4. /\ \A result \in {"ok", "error"} :
           /\ Returned("write", result) \in Outcomes /\ Returned("write", result).data.len = 0
           /\ Returned("write", result).op = "write"
      /\ NoBytes \in Bytes /\ NoBytes.len = 0
  BY <1>1, ReturnedIs
\* An error of an earlier request.
<1>5. CASE /\ CleanupFails
           /\ pending' = CleanedUp
           /\ outcome' = Returned("write", "error")
           /\ NoSend /\ UNCHANGED <<pos, state, reading>>
  <2>1. /\ AnswersTypeOK' /\ AnswersMatch' /\ Writes' = Writes
        /\ what' = what /\ calls' = calls /\ issued' = issued
        /\ what' \in [Requests -> RequestKinds \cup {NoRequest}] /\ closed' \in BOOLEAN
    BY <1>1, <1>5, WithoutRequest
  <2>2. WritesTracked'
    <3>1. \A r \in Elems(pending) : r \in Elems(pending)' \/ calls[r] = Ok(r) \/ r \in told'
      BY <1>2, <1>3, <1>5 DEF Elems
    <3> QED
      BY <1>1, <1>2, <1>3, <2>1, <3>1, StaysTracked
  <2>3. RWTypeOK'
    BY <1>1, <1>2, <1>3, <1>4, <1>5, <2>1 DEF RWTypeOK, Overtakes
  <2>4. ReadsAreLatest'
    BY <1>1, <1>3, <1>4, <1>5, <2>1 DEF ReadsAreLatest
  <2>5. ReadsInPlace'
    BY <1>1, <1>3, <1>4, <1>5, <2>1 DEF ReadsInPlace, Overtakes, RWTypeOK
  <2>6. ReadsSeeWrites' /\ FlushedMeansWritten'
    BY <1>4, <1>5, <2>2, Flushed DEF ReadsSeeWrites
  <2> QED
    BY <2>1, <2>2, <2>3, <2>4, <2>5, <2>6 DEF FileIInv
<1>6. CASE pending' = CleanedUp /\ Reserving("write") /\ UNCHANGED pos
  <2>1. /\ NoSend /\ state' \in {"Reserve", "Spent"} /\ reading' = 0
        /\ outcome' \in Outcomes /\ outcome'.data.len = 0 /\ outcome'.op = "write"
    BY <1>1, <1>6, ReservingIs
  <2>2. /\ AnswersTypeOK' /\ AnswersMatch' /\ Writes' = Writes
        /\ what' = what /\ calls' = calls /\ issued' = issued
        /\ what' \in [Requests -> RequestKinds \cup {NoRequest}] /\ closed' \in BOOLEAN
    BY <1>1, <2>1, WithoutRequest
  <2>3. WritesTracked'
    <3>1. \A r \in Elems(pending) : r \in Elems(pending)' \/ calls[r] = Ok(r) \/ r \in told'
      BY <1>2, <1>3, <1>6 DEF Elems
    <3> QED
      BY <1>1, <1>2, <1>3, <2>2, <3>1, StaysTracked
  <2>4. pos' \in Positions
    BY <1>1, <1>6 DEF RWTypeOK
  <2> QED
    BY <1>2, <1>3, <1>6, <2>1, <2>2, <2>3, <2>4, WithoutRead
<1>7. CASE /\ pos + len <= Top
           /\ SendRequest("write", pos, len)
           /\ pending' = Append(CleanedUp, issued + 1)
           /\ pos' = pos + len
           /\ state' = "Idle"
           /\ outcome' = Returned("write", "ok")
           /\ reading' = 0
  <2>1. pos \in Positions /\ len \in Amounts /\ pos + len \in Positions
    BY <1>1, <1>7, RWAssumption DEF RWTypeOK, Positions, Amounts
  <2>2. /\ AnswersTypeOK' /\ AnswersMatch' /\ issued + 1 \in Requests
        /\ calls' = calls /\ Writes' = Writes \cup {issued + 1}
        /\ what' \in [Requests -> RequestKinds \cup {NoRequest}] /\ closed' \in BOOLEAN
    BY <1>1, <1>7, <2>1, WithRequest
  <2>3. pending' \in Seq(Requests) /\ Elems(pending)' = Elems(CleanedUp) \cup {issued + 1}
    <3>1. Elems(pending)' = Elems(Append(CleanedUp, issued + 1))
      BY <1>7 DEF Elems
    <3> QED
      BY <1>2, <1>7, <2>2, <3>1, AppendElems
  <2>4. WritesTracked'
    BY <1>1, <1>2, <1>3, <2>2, <2>3, StaysTracked
  <2> QED
    BY <1>2, <1>3, <1>4, <1>7, <2>1, <2>2, <2>3, <2>4, WithoutRead
<1> QED
  BY <1>5, <1>6, <1>7 DEF PollWrite

LEMMA PollDoneKeeps ==
  ASSUME FileIInv, Overtakes, NEW op \in {"flush", "shutdown"}, NEW own \in {"Flush", "Shutdown"}, PollDone(op, own)
  PROVE  FileIInv'
<1>1. RWTypeOK /\ AnswersMatch /\ WritesTracked /\ ReadsAreLatest /\ ReadsInPlace
  BY DEF FileIInv
<1>2. /\ CleanedUp \in Seq(Requests) /\ Told \subseteq Requests /\ told \subseteq Told
      /\ \A r \in Elems(pending) : r \in Elems(CleanedUp) \/ calls[r] = Ok(r) \/ r \in Told
  BY <1>1, CleanedUpIs
<1>3. buffered' = buffered /\ pos' = pos /\ pos' \in Positions /\ told' = Told
  BY <1>1 DEF PollDone, RWTypeOK
<1>4. \A result \in {"ok", "pending", "error"} :
        /\ Returned(op, result) \in Outcomes /\ Returned(op, result).data.len = 0
        /\ Returned(op, result).op = op /\ Returned(op, result).result = result
  BY <1>1, ReturnedIs
\* What is the same whether the poll returns, waits or fails.
<1>5. ASSUME NoSend, pending' = CleanedUp, outcome' \in Outcomes, outcome'.data.len = 0,
             state' \in {"Idle", "Reserve", "Spent", "Flush", "Shutdown"}, reading' = 0,
             outcome'.result = "ok" => CleanedUp = << >>
      PROVE  FileIInv'
  <2>1. /\ AnswersTypeOK' /\ AnswersMatch' /\ Writes' = Writes
        /\ what' = what /\ calls' = calls /\ issued' = issued
        /\ what' \in [Requests -> RequestKinds \cup {NoRequest}] /\ closed' \in BOOLEAN
    BY <1>1, <1>5, WithoutRequest
  <2>2. WritesTracked'
    <3>1. \A r \in Elems(pending) : r \in Elems(pending)' \/ calls[r] = Ok(r) \/ r \in told'
      BY <1>2, <1>3, <1>5 DEF Elems
    <3> QED
      BY <1>1, <1>2, <1>3, <2>1, <3>1, StaysTracked
  <2> QED
    BY <1>2, <1>3, <1>5, <2>1, <2>2, WithoutRead
<1>6. CASE /\ pending' = CleanedUp
           /\ state' = "Idle" /\ reading' = 0
           /\ outcome' = Returned(op, "error")
           /\ NoSend
  BY <1>4, <1>5, <1>6
<1>7. CASE /\ state = own
           /\ pending' = CleanedUp
           /\ IF CleanedUp = << >> THEN state' = "Idle" /\ outcome' = Returned(op, "ok")
              ELSE UNCHANGED state /\ outcome' = Returned(op, "pending")
           /\ NoSend /\ UNCHANGED reading
  <2>1. reading' = 0 /\ state' \in {"Idle", "Flush", "Shutdown"}
    BY <1>1, <1>7 DEF RWTypeOK
  <2>2. outcome' \in Outcomes /\ outcome'.data.len = 0 /\ (outcome'.result = "ok" => CleanedUp = << >>)
    BY <1>4, <1>7
  <2> QED
    BY <1>5, <1>7, <2>1, <2>2
<1>8. CASE /\ state = "Shutdown"
           /\ pending' = CleanedUp
           /\ outcome' = Returned(op, "error")
           /\ NoSend /\ UNCHANGED <<state, reading>>
  <2>1. reading' = 0 /\ state' = "Shutdown"
    BY <1>1, <1>8 DEF RWTypeOK
  <2> QED
    BY <1>4, <1>5, <1>8, <2>1
<1>9. CASE pending' = CleanedUp /\ Reserving(op)
  BY <1>1, <1>5, <1>9, ReservingIs
<1>10. CASE /\ SendRequest(op, 0, 0)
            /\ pending' = Append(CleanedUp, issued + 1)
            /\ state' = own /\ reading' = 0
            /\ outcome' = Returned(op, "pending")
  <2>1. 0 \in Positions /\ 0 \in Amounts /\ 0 + 0 <= Top
    BY RWAssumption DEF Positions, Amounts
  <2>2. /\ AnswersTypeOK' /\ AnswersMatch' /\ issued + 1 \in Requests
        /\ calls' = calls /\ Writes' = Writes
        /\ what' \in [Requests -> RequestKinds \cup {NoRequest}] /\ closed' \in BOOLEAN
    BY <1>1, <1>10, <2>1, WithRequest
  <2>3. pending' \in Seq(Requests) /\ Elems(pending)' = Elems(CleanedUp) \cup {issued + 1}
    <3>1. Elems(pending)' = Elems(Append(CleanedUp, issued + 1))
      BY <1>10 DEF Elems
    <3> QED
      BY <1>2, <1>10, <2>2, <3>1, AppendElems
  <2>4. WritesTracked'
    BY <1>1, <1>2, <1>3, <2>2, <2>3, StaysTracked
  <2>5. outcome' \in Outcomes /\ outcome'.data.len = 0 /\ outcome'.result # "ok"
    BY <1>4, <1>10
  <2> QED
    BY <1>2, <1>3, <1>10, <2>2, <2>3, <2>4, <2>5, WithoutRead
<1> QED
  BY <1>6, <1>7, <1>8, <1>9, <1>10 DEF PollDone

\* What is copied is the beginning of what there is, and the position moves with it.
LEMMA CopyIs ==
  ASSUME RWTypeOK, NEW bytes \in Bytes, NEW len \in Lengths,
         pos + bytes.len <= Top, bytes.at + bytes.len <= Top, CopyBuffered(bytes, len)
  PROVE  /\ buffered' \in Bytes /\ outcome' \in Outcomes /\ pos' \in Positions
         /\ outcome'.op = "read" /\ outcome'.data.of = bytes.of /\ outcome'.data.at = bytes.at
         /\ outcome'.data.len > 0 => bytes.len > 0
         /\ buffered'.len > 0 => /\ bytes.len > 0 /\ buffered'.of = bytes.of
                                 /\ buffered'.at + buffered'.len <= Top
                                 /\ bytes.at = pos => buffered'.at = pos'
<1>1. PICK n \in Nat : n = (IF bytes.len < len THEN bytes.len ELSE len) /\ n <= bytes.len
  BY RWAssumption DEF Bytes
<1>2. /\ buffered' = IF n = bytes.len THEN NoBytes
                     ELSE [bytes EXCEPT !.at = @ + n, !.len = @ - n]
      /\ pos' = pos + n
      /\ outcome' = [op |-> "read", result |-> "ok", data |-> [bytes EXCEPT !.len = n]]
  BY <1>1 DEF CopyBuffered
<1>3. PICK a \in Nat, l \in Nat, o \in Requests \cup {0}, p \in Nat :
        /\ a = bytes.at /\ l = bytes.len /\ o = bytes.of /\ p = pos /\ a <= Top
        /\ bytes = [at |-> a, len |-> l, of |-> o]
  BY RWAssumption DEF Bytes, RWTypeOK, Positions
<1>4. a + l <= Top /\ p + l <= Top /\ n <= l /\ Top \in Nat
  BY <1>1, <1>3, RWAssumption
<1>5. a + n \in Positions /\ p + n \in Positions /\ l - n \in Nat
  BY <1>4 DEF Positions
<1>6. n \in Nat
  BY <1>1
<1>7. PICK d \in Bytes : d = [bytes EXCEPT !.len = n] /\ d.at = a /\ d.len = n /\ d.of = o
  <2>1. PICK d : d = [bytes EXCEPT !.len = n]
    OBVIOUS
  <2>2. d \in Bytes /\ d.at = bytes.at /\ d.len = n /\ d.of = bytes.of
    BY <1>6, <2>1 DEF Bytes
  <2> QED
    BY <1>3, <2>1, <2>2
<1>8. PICK e \in Bytes : e = [bytes EXCEPT !.at = @ + n, !.len = @ - n] /\ e.at = a + n /\ e.len = l - n /\ e.of = o
  <2>1. PICK e : e = [bytes EXCEPT !.at = @ + n, !.len = @ - n]
    OBVIOUS
  <2>2. e = [bytes EXCEPT !.at = a + n, !.len = l - n]
    BY <1>3, <2>1
  <2>3. e \in Bytes /\ e.at = a + n /\ e.len = l - n /\ e.of = bytes.of
    BY <1>5, <2>2 DEF Bytes
  <2> QED
    BY <1>3, <2>1, <2>3
<1>9. /\ NoBytes \in Bytes /\ NoBytes.len = 0
      /\ outcome' = [op |-> "read", result |-> "ok", data |-> d] /\ pos' = p + n
      /\ buffered' = IF n = l THEN NoBytes ELSE e
      /\ outcome' \in Outcomes /\ outcome'.op = "read" /\ outcome'.data = d
  <2>1. NoBytes \in Bytes /\ NoBytes.len = 0
    BY RWAssumption DEF NoBytes, Bytes, Positions
  <2>2. outcome' = [op |-> "read", result |-> "ok", data |-> d]
    BY <1>2, <1>7
  <2> QED
    BY <1>2, <1>3, <1>8, <2>1, <2>2 DEF Outcomes
<1>10. CASE n = l
  BY <1>3, <1>4, <1>5, <1>7, <1>9, <1>10
<1>11. CASE n # l
  <2>1. l > 0 /\ (a + n) + (l - n) <= Top
    BY <1>4, <1>11
  <2> QED
    BY <1>3, <1>5, <1>7, <1>8, <1>9, <1>11, <2>1
<1> QED
  BY <1>10, <1>11

\* The poll of a read: what it hands out, is waiting for, or asks for.
LEMMA PollReadKeeps ==
  ASSUME FileIInv, Overtakes, NEW len \in Lengths, PollRead(len)
  PROVE  FileIInv' /\ (outcome'.data.len > 0 /\ ~ overtaken => outcome'.data.at = pos)
<1>1. RWTypeOK /\ AnswersMatch /\ WritesTracked /\ ReadsAreLatest /\ ReadsInPlace
  BY DEF FileIInv
<1>2. pending' = pending /\ told' = told /\ Elems(pending)' = Elems(pending)
  BY DEF PollRead, Elems
<1>3. /\ \A result \in {"pending", "error"} :
           /\ Returned("read", result) \in Outcomes /\ Returned("read", result).data.len = 0
           /\ Returned("read", result).op = "read" /\ Returned("read", result).result = result
      /\ NoBytes \in Bytes /\ NoBytes.len = 0
  BY <1>1, ReturnedIs
<1>4. ASSUME NoSend
      PROVE  /\ AnswersTypeOK' /\ AnswersMatch' /\ Writes' = Writes
             /\ what' = what /\ calls' = calls /\ issued' = issued
             /\ what' \in [Requests -> RequestKinds \cup {NoRequest}] /\ closed' \in BOOLEAN
             /\ WritesTracked'
  <2>1. /\ AnswersTypeOK' /\ AnswersMatch' /\ Writes' = Writes
        /\ what' = what /\ calls' = calls /\ issued' = issued
        /\ what' \in [Requests -> RequestKinds \cup {NoRequest}] /\ closed' \in BOOLEAN
    BY <1>1, <1>4, WithoutRequest
  <2>2. WritesTracked'
    BY <1>1, <1>2, <2>1, StaysTracked
  <2> QED
    BY <2>1, <2>2
\* Some of it is there.
<1>5. ASSUME NEW bytes \in Bytes, CopyBuffered(bytes, len), NoSend,
             pos + bytes.len <= Top, bytes.at + bytes.len <= Top,
             bytes.len > 0 => Below(Writes, bytes.of),
             bytes.len > 0 /\ ~ overtaken => bytes.at = pos,
             state' \in {"Idle", "Reserve", "Spent", "Flush", "Shutdown"}, reading' = 0
      PROVE  FileIInv' /\ (outcome'.data.len > 0 /\ ~ overtaken => outcome'.data.at = pos)
  <2>1. /\ buffered' \in Bytes /\ outcome' \in Outcomes /\ pos' \in Positions
        /\ outcome'.op = "read" /\ outcome'.data.of = bytes.of /\ outcome'.data.at = bytes.at
        /\ outcome'.data.len > 0 => bytes.len > 0
        /\ buffered'.len > 0 => /\ bytes.len > 0 /\ buffered'.of = bytes.of
                                /\ buffered'.at + buffered'.len <= Top
                                /\ bytes.at = pos => buffered'.at = pos'
    BY <1>1, <1>5, CopyIs
  <2>2. RWTypeOK'
    BY <1>1, <1>2, <1>4, <1>5, <2>1 DEF RWTypeOK, Overtakes
  <2>3. ReadsAreLatest'
    BY <1>4, <1>5, <2>1 DEF ReadsAreLatest
  <2>4. ReadsInPlace'
    BY <1>1, <1>5, <2>1 DEF ReadsInPlace, Overtakes, RWTypeOK
  <2>5. ReadsSeeWrites'
    BY <1>4, <1>5, <2>1 DEF ReadsSeeWrites, Below, Writes
  <2>6. FlushedMeansWritten'
    BY <2>1 DEF FlushedMeansWritten
  <2> QED
    BY <1>4, <1>5, <2>1, <2>2, <2>3, <2>4, <2>5, <2>6 DEF FileIInv
<1>6. CASE /\ buffered.len > 0
           /\ pos + buffered.len <= Top
           /\ CopyBuffered(buffered, len)
           /\ NoSend /\ UNCHANGED <<state, reading>>
  <2>1. PICK bytes \in Bytes : bytes = buffered
    BY <1>1 DEF RWTypeOK
  <2>2. /\ Below(Writes, bytes.of) /\ bytes.at + bytes.len <= Top /\ (~ overtaken => bytes.at = pos)
        /\ state' # "Read" /\ state' \in {"Idle", "Reserve", "Spent", "Flush", "Shutdown"} /\ reading' = 0
    BY <1>1, <1>6, <2>1 DEF ReadsAreLatest, ReadsInPlace, RWTypeOK
  <2> QED
    BY <1>5, <1>6, <2>1, <2>2
<1>7. CASE Reserving("read") /\ UNCHANGED <<pos, buffered>>
  <2>1. /\ NoSend /\ state' \in {"Reserve", "Spent"} /\ reading' = 0
        /\ outcome' \in Outcomes /\ outcome'.data.len = 0 /\ outcome'.op = "read"
    BY <1>1, <1>7, ReservingIs
  <2>2. pos' \in Positions /\ pending' \in Seq(Requests) /\ told' \subseteq Requests
    BY <1>1, <1>2, <1>7 DEF RWTypeOK
  <2> QED
    BY <1>4, <1>7, <2>1, <2>2, WithoutRead
<1>8. CASE /\ buffered.len = 0
           /\ pos + len <= Top
           /\ SendRequest("read", pos, len)
           /\ state' = "Read" /\ reading' = issued + 1
           /\ outcome' = Returned("read", "pending")
           /\ UNCHANGED <<pos, buffered>>
  <2>1. pos \in Positions /\ len \in Amounts
    BY <1>1 DEF RWTypeOK, Amounts
  <2>2. /\ AnswersTypeOK' /\ AnswersMatch'
        /\ issued \in Nat /\ issued' = issued + 1 /\ issued + 1 \in Requests
        /\ what'[issued + 1] = [kind |-> "read", at |-> pos, len |-> len]
        /\ \A r \in 1 .. issued : what'[r] = what[r] /\ r < issued + 1
        /\ calls' = calls /\ Writes' = Writes
        /\ what' \in [Requests -> RequestKinds \cup {NoRequest}] /\ closed' \in BOOLEAN
    BY <1>1, <1>8, <2>1, WithRequest
  <2>3. WritesTracked'
    BY <1>1, <1>2, <2>2, StaysTracked
  <2>4. outcome' \in Outcomes /\ outcome'.data.len = 0 /\ outcome'.op = "read"
    BY <1>3, <1>8
  <2>5. RWTypeOK'
    <3>1. issued + 1 # 0
      BY <2>2
    <3> QED
      BY <1>1, <1>2, <1>8, <2>2, <2>4, <3>1 DEF RWTypeOK, Overtakes
  <2>6. ReadsAreLatest'
    <3>1. Below(Writes, issued + 1)
      BY <2>2 DEF Below, Writes
    <3> QED
      BY <1>8, <2>2, <3>1 DEF ReadsAreLatest
  <2>7. ReadsInPlace'
    BY <1>8, <2>2 DEF ReadsInPlace
  <2>8. ReadsSeeWrites' /\ FlushedMeansWritten'
    BY <2>4 DEF ReadsSeeWrites, FlushedMeansWritten
  <2> QED
    BY <2>2, <2>3, <2>4, <2>5, <2>6, <2>7, <2>8 DEF FileIInv
<1>9. CASE /\ outcome' = Returned("read", "pending")
           /\ NoSend /\ UNCHANGED <<pos, state, reading, buffered>>
  <2>1. outcome' \in Outcomes /\ outcome'.data.len = 0 /\ outcome'.op = "read"
    BY <1>3, <1>9
  <2>2. RWTypeOK'
    BY <1>1, <1>2, <1>4, <1>9, <2>1 DEF RWTypeOK, Overtakes
  <2>3. ReadsAreLatest' /\ ReadsInPlace'
    BY <1>1, <1>4, <1>9, <2>1 DEF ReadsAreLatest, ReadsInPlace, Overtakes, RWTypeOK
  <2>4. ReadsSeeWrites' /\ FlushedMeansWritten'
    BY <2>1 DEF ReadsSeeWrites, FlushedMeansWritten
  <2> QED
    BY <1>4, <1>9, <2>1, <2>2, <2>3, <2>4 DEF FileIInv
<1>10. CASE /\ state' = "Idle" /\ reading' = 0
            /\ outcome' = Returned("read", "error")
            /\ NoSend /\ UNCHANGED <<pos, buffered>>
  <2>1. outcome' \in Outcomes /\ outcome'.data.len = 0 /\ outcome'.op = "read"
    BY <1>3, <1>10
  <2>2. pos' \in Positions /\ pending' \in Seq(Requests) /\ told' \subseteq Requests
    BY <1>1, <1>2, <1>10 DEF RWTypeOK
  <2> QED
    BY <1>4, <1>10, <2>1, <2>2, WithoutRead
<1>11. CASE /\ state = "Read"
            /\ state' = "Idle" /\ reading' = 0
            /\ \E n \in 0 .. what[reading].len :
                 /\ pos + n <= Top
                 /\ CopyBuffered([at |-> what[reading].at, len |-> n, of |-> reading], len)
            /\ NoSend
  <2>1. PICK n \in 0 .. what[reading].len :
           pos + n <= Top /\ CopyBuffered([at |-> what[reading].at, len |-> n, of |-> reading], len)
    BY <1>11
  <2>2. /\ reading \in Requests /\ what[reading].at \in Positions /\ what[reading].len \in Nat
        /\ what[reading].at + what[reading].len <= Top /\ Below(Writes, reading)
        /\ ~ overtaken => what[reading].at = pos
    <3>1. reading \in Requests
      BY <1>1, <1>11 DEF RWTypeOK
    <3>2. what[reading].at \in Positions /\ what[reading].len \in Nat
      <4>1. what[reading] \in RequestKinds \cup {NoRequest}
        BY <1>1, <3>1 DEF RWTypeOK
      <4>2. 0 \in Positions /\ Amounts \subseteq Nat
        BY RWAssumption DEF Positions, Amounts
      <4>3. NoRequest.at = 0 /\ NoRequest.len = 0
        BY DEF NoRequest
      <4>4. \A k \in RequestKinds : k.at \in Positions /\ k.len \in Amounts
        BY DEF RequestKinds
      <4>5. CASE what[reading] = NoRequest
        BY <4>2, <4>3, <4>5
      <4>6. CASE what[reading] \in RequestKinds
        BY <4>2, <4>4, <4>6
      <4> QED
        BY <4>1, <4>5, <4>6
    <3> QED
      BY <1>1, <1>11, <3>1, <3>2 DEF AnswersMatch, ReadsAreLatest, ReadsInPlace
  <2>3. n \in Nat /\ what[reading].at + n <= Top
    BY <2>2, RWAssumption DEF Positions
  <2>4. PICK bytes \in Bytes : bytes = [at |-> what[reading].at, len |-> n, of |-> reading]
    BY <2>2, <2>3 DEF Bytes
  <2>5. bytes.at = what[reading].at /\ bytes.len = n /\ bytes.of = reading
    BY <2>4
  <2> QED
    BY <1>5, <1>11, <2>1, <2>2, <2>3, <2>4, <2>5
<1> QED
  BY <1>6, <1>7, <1>8, <1>9, <1>10, <1>11 DEF PollRead

LEMMA SeekKeeps ==
  ASSUME FileIInv, Overtakes, Seek
  PROVE  FileIInv' /\ outcome'.data.len = 0
<1>1. RWTypeOK /\ AnswersMatch /\ WritesTracked /\ ReadsAreLatest
  BY DEF FileIInv
<1>2. pos' \in Positions /\ outcome' = Returned("seek", "ok") /\ NoSend /\ UNCHANGED <<state, reading, pending, buffered, told>>
  BY DEF Seek
<1>3. outcome' \in Outcomes /\ outcome'.data.len = 0 /\ outcome'.op = "seek"
  BY <1>1, <1>2, ReturnedIs
<1>4. /\ AnswersTypeOK' /\ AnswersMatch' /\ Writes' = Writes
      /\ what' = what /\ calls' = calls /\ issued' = issued
      /\ what' \in [Requests -> RequestKinds \cup {NoRequest}] /\ closed' \in BOOLEAN
  BY <1>1, <1>2, WithoutRequest
<1>5. WritesTracked'
  <2>1. Elems(pending)' = Elems(pending) /\ told' = told
    BY <1>2 DEF Elems
  <2> QED
    BY <1>1, <1>4, <2>1, StaysTracked
<1>6. RWTypeOK'
  BY <1>1, <1>2, <1>3, <1>4 DEF RWTypeOK, Overtakes
<1>7. ReadsAreLatest' /\ ReadsInPlace'
  BY <1>1, <1>2, <1>3, <1>4 DEF ReadsAreLatest, ReadsInPlace, Overtakes, RWTypeOK
<1>8. ReadsSeeWrites' /\ FlushedMeansWritten'
  BY <1>3 DEF ReadsSeeWrites, FlushedMeansWritten
<1> QED
  BY <1>3, <1>4, <1>5, <1>6, <1>7, <1>8 DEF FileIInv

\* Answers arrive: what was answered stays so.
LEMMA PipeKeeps == FileIInv /\ PipeStep => FileIInv' /\ outcome' = outcome
<1> SUFFICES ASSUME FileIInv, PipeStep PROVE FileIInv' /\ outcome' = outcome
  OBVIOUS
<1>1. RWTypeOK /\ AnswersMatch /\ WritesTracked /\ ReadsAreLatest /\ ReadsInPlace /\ FlushedMeansWritten /\ ReadsSeeWrites
  BY DEF FileIInv
<1>2. UNCHANGED <<issued, what, closed, pos, state, reading, pending, buffered, outcome, told, overtaken>>
  BY DEF PipeStep, Succeed, Fail, rwVars
<1>3. /\ calls' \in [Requests -> Answers]
      /\ \A r \in Requests : /\ calls'[r] \in {Waiting, Failed, Ok(r)}
                             /\ calls[r] = Ok(r) => calls'[r] = Ok(r)
  <2>1. Waiting \in Answers /\ Failed \in Answers /\ \A r \in Requests : Ok(r) \in Answers /\ Ok(r) # Waiting
    BY DEF Answers, Waiting, Failed, Ok
  <2>2. calls \in [Requests -> Answers] /\ \A r \in Requests : calls[r] \in {Waiting, Failed, Ok(r)}
    BY <1>1 DEF RWTypeOK, AnswersTypeOK, AnswersMatch
  <2>3. CASE \E r \in Requests : Succeed(r)
    BY <2>1, <2>2, <2>3 DEF Succeed
  <2>4. CASE \E set \in SUBSET Requests \ {{}} : Fail(set)
    <3>1. PICK set \in SUBSET Requests \ {{}} : Fail(set)
      BY <2>4
    <3>2. /\ \A r \in set : calls[r] = Waiting
          /\ calls' = [r \in Requests |-> IF r \in set THEN Failed ELSE calls[r]]
      BY <3>1 DEF Fail
    <3> QED
      BY <2>1, <2>2, <3>2
  <2> QED
    BY <2>3, <2>4 DEF PipeStep
<1>4. RWTypeOK' /\ AnswersMatch'
  BY <1>1, <1>2, <1>3 DEF RWTypeOK, AnswersTypeOK, AnswersMatch
<1>5. Writes' = Writes /\ Elems(pending)' = Elems(pending) /\ \A r \in 1 .. issued : r \in Requests
  BY <1>1, <1>2, MaxRequestsAssumption DEF Writes, Elems, RWTypeOK, AnswersTypeOK, Requests
<1>6. WritesTracked' /\ FlushedMeansWritten'
  BY <1>1, <1>2, <1>3, <1>5 DEF WritesTracked, FlushedMeansWritten, Writes
<1>7. ReadsAreLatest' /\ ReadsInPlace' /\ ReadsSeeWrites'
  BY <1>1, <1>2, <1>5 DEF ReadsAreLatest, ReadsInPlace, ReadsSeeWrites
<1> QED
  BY <1>2, <1>4, <1>6, <1>7 DEF FileIInv

LEMMA QuietKeeps ==
  FileIInv /\ (CloseRequests \/ UNCHANGED fileVars) => FileIInv' /\ outcome' = outcome
<1> SUFFICES ASSUME FileIInv, CloseRequests \/ UNCHANGED fileVars PROVE FileIInv' /\ outcome' = outcome
  OBVIOUS
<1>1. UNCHANGED <<issued, calls, what, pos, state, reading, pending, buffered, outcome, told, overtaken>> /\ closed' \in {closed, TRUE}
  BY DEF CloseRequests, fileVars, answerVars, rwVars
<1>2. RWTypeOK' /\ AnswersMatch'
  BY <1>1 DEF FileIInv, RWTypeOK, AnswersTypeOK, AnswersMatch
<1>3. Writes' = Writes /\ Elems(pending)' = Elems(pending)
  BY <1>1 DEF Writes, Elems
<1>4. WritesTracked' /\ FlushedMeansWritten' /\ ReadsAreLatest' /\ ReadsInPlace' /\ ReadsSeeWrites'
  BY <1>1, <1>3 DEF FileIInv, WritesTracked, FlushedMeansWritten, ReadsAreLatest, ReadsInPlace, ReadsSeeWrites
<1> QED
  BY <1>1, <1>2, <1>4 DEF FileIInv

LEMMA FileInitInv == RWInit => FileIInv
<1> SUFFICES ASSUME RWInit PROVE FileIInv
  OBVIOUS
<1>1. /\ issued = 0 /\ calls = [r \in Requests |-> Waiting]
      /\ what = [r \in Requests |-> NoRequest] /\ closed = FALSE
      /\ pos = 0 /\ state = "Idle" /\ reading = 0
      /\ pending = << >> /\ buffered = NoBytes /\ outcome = Returned("none", "ok")
      /\ told = {} /\ overtaken = FALSE
  BY DEF RWInit, AnswersInit
<1>2. NoBytes \in Bytes /\ NoBytes.len = 0 /\ 0 \in Positions
  BY RWAssumption DEF NoBytes, Bytes, Positions
<1>3. outcome \in Outcomes /\ outcome.data.len = 0 /\ outcome.op = "none"
  BY <1>1, <1>2 DEF Returned, Outcomes
<1>4. RWTypeOK
  <2>1. AnswersTypeOK
    BY <1>1, MaxRequestsAssumption DEF AnswersTypeOK, Answers
  <2>2. pending \in Seq(Requests) /\ 0 \notin Requests
    BY <1>1 DEF Requests
  <2> QED
    BY <1>1, <1>2, <1>3, <2>1, <2>2 DEF RWTypeOK
<1>5. AnswersMatch
  BY <1>1, RWAssumption DEF AnswersMatch, NoRequest
<1>6. Writes = {}
  BY <1>1 DEF Writes
<1>7. WritesTracked /\ ReadsAreLatest /\ ReadsInPlace /\ FlushedMeansWritten /\ ReadsSeeWrites
  BY <1>1, <1>2, <1>3, <1>6 DEF WritesTracked, ReadsAreLatest, ReadsInPlace, FlushedMeansWritten, ReadsSeeWrites
<1> QED
  BY <1>4, <1>5, <1>7 DEF FileIInv

LEMMA FileStep ==
  ASSUME FileIInv, [RWNext]_fileVars
  PROVE  /\ FileIInv'
         /\ outcome' # outcome /\ outcome'.data.len > 0 /\ ~ overtaken => outcome'.data.at = pos
<1>1. CASE UserStep
  <2>1. Overtakes
    BY <1>1 DEF UserStep, Overtakes
  <2>2. CASE \E len \in Lengths : PollWrite(len)
    <3>1. PICK len \in Lengths : PollWrite(len)
      BY <2>2
    <3>2. outcome'.data.len = 0
      <4>1. RWTypeOK
        BY DEF FileIInv
      <4>2. Returned("write", "ok").data.len = 0 /\ Returned("write", "error").data.len = 0
        BY <4>1, ReturnedIs
      <4> QED
        BY <3>1, <4>1, <4>2, ReservingIs DEF PollWrite
    <3> QED
      BY <2>1, <3>1, <3>2, PollWriteKeeps
  <2>3. CASE \E len \in Lengths : PollRead(len)
    BY <2>1, <2>3, PollReadKeeps
  <2>4. CASE PollDone("flush", "Flush") \/ PollDone("shutdown", "Shutdown")
    <3>1. PICK op \in {"flush", "shutdown"}, own \in {"Flush", "Shutdown"} : PollDone(op, own)
      BY <2>4
    <3>2. outcome'.data.len = 0
      <4>1. RWTypeOK
        BY DEF FileIInv
      <4>2. \A result \in {"ok", "pending", "error"} : Returned(op, result).data.len = 0
        BY <4>1, ReturnedIs
      <4> QED
        BY <3>1, <4>1, <4>2, ReservingIs DEF PollDone
    <3> QED
      BY <2>1, <3>1, <3>2, PollDoneKeeps
  <2>5. CASE Seek
    BY <2>1, <2>5, SeekKeeps
  <2> QED
    BY <1>1, <2>2, <2>3, <2>4, <2>5 DEF UserStep
<1>2. CASE PipeStep
  BY <1>2, PipeKeeps
<1>3. CASE CloseRequests \/ UNCHANGED fileVars
  BY <1>3, QuietKeeps
<1> QED
  BY <1>1, <1>2, <1>3 DEF RWNext

\* Whatever a user of the file gives up or starts, no write and no error of one is lost,
\* and no read is older than a write.
THEOREM RWSafe == RWSpec => []RWInv
<1>1. FileIInv /\ [RWNext]_fileVars => FileIInv'
  BY FileStep
<1>2. FileIInv => RWInv
  BY DEF FileIInv, RWInv
<1> QED
  BY <1>1, <1>2, FileInitInv, PTL DEF RWSpec

\* A read that no seek has overtaken comes from the position of the user.
THEOREM ReadsAreInPlace == RWSpec => ReadsFromPosition
<1>1. FileIInv /\ [RWNext]_fileVars => FileIInv'
  BY FileStep
<1>2. FileIInv /\ [RWNext]_fileVars =>
        [outcome' # outcome /\ outcome'.data.len > 0 /\ ~ overtaken => outcome'.data.at = pos]_fileVars
  BY FileStep
<1> QED
  BY <1>1, <1>2, FileInitInv, PTL DEF RWSpec, ReadsFromPosition
=============================================================================
