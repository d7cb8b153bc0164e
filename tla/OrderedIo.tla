----------------------------- MODULE OrderedIo -----------------------------
(***************************************************************************)
(* What an opened volume promises: requests are carried out in the order   *)
(* they were made, and a client that is told one succeeded has the result  *)
(* of that very request, and of every one before it.                       *)
(***************************************************************************)
EXTENDS IoAnswers

VARIABLE work              \* work[r]: what the volume made of request r

ioVars == <<issued, calls, work>>

WorkStates == {"none", "started", "ok", "failed", "lost"}

OrderedIoTypeOK ==
  /\ AnswersTypeOK
  /\ work \in [Requests -> WorkStates]

OrderedIoInit ==
  /\ AnswersInit
  /\ work = [r \in Requests |-> "none"]

Begin(r) ==
  /\ r <= issued
  /\ work[r] = "none"
  /\ \A q \in 1 .. r - 1 : work[q] # "none"
  /\ work' = [work EXCEPT ![r] = "started"]
  /\ UNCHANGED <<issued, calls>>

\* The volume ends its work on r; "lost" is an end it tells nobody about.
Finish(r) ==
  /\ work[r] = "started"
  /\ \E result \in {"ok", "failed", "lost"} : work' = [work EXCEPT ![r] = result]
  /\ UNCHANGED <<issued, calls>>

OrderedIoNext ==
  \/ Ask /\ UNCHANGED work
  \/ \E r \in Requests : Begin(r) \/ Finish(r)
  \/ \E r \in Requests : work[r] = "ok" /\ Succeed(r) /\ UNCHANGED work
  \/ \E set \in SUBSET Requests : Fail(set) /\ UNCHANGED work

OrderedIoSpec == OrderedIoInit /\ [][OrderedIoNext]_ioVars
=============================================================================
