----------------------------- MODULE IoAnswers -----------------------------
(***************************************************************************)
(* The client's side of an opened volume: requests are made one by one,    *)
(* each is answered once, and once one has failed none after it succeeds,  *)
(* so the requests that succeeded are always the first ones.               *)
(***************************************************************************)
EXTENDS Naturals

CONSTANT MaxRequests       \* requests on one opened volume

ASSUME MaxRequestsAssumption == MaxRequests \in Nat

VARIABLES issued,          \* requests made so far; they are numbered from 1
          calls            \* calls[r]: what the client knows of request r

Requests == 1 .. MaxRequests
Waiting == [state |-> "waiting", from |-> 0]
Failed == [state |-> "failed", from |-> 0]
Ok(n) == [state |-> "ok", from |-> n]     \* with the result of request n
Answers == {Waiting, Failed} \cup {Ok(n) : n \in Requests}

AnswersTypeOK ==
  /\ issued \in 0 .. MaxRequests
  /\ calls \in [Requests -> Answers]

AnswersInit ==
  /\ issued = 0
  /\ calls = [r \in Requests |-> Waiting]

Ask ==
  /\ issued < MaxRequests
  /\ issued' = issued + 1
  /\ UNCHANGED calls

Succeed(r) ==
  /\ r <= issued
  /\ calls[r] = Waiting
  /\ \A q \in 1 .. r - 1 : calls[q] = Ok(q)
  /\ calls' = [calls EXCEPT ![r] = Ok(r)]
  /\ UNCHANGED issued

\* Several requests fail together when what they wait for has gone.
Fail(set) ==
  /\ \A r \in set : r <= issued /\ calls[r] = Waiting
  /\ calls' = [r \in Requests |-> IF r \in set THEN Failed ELSE calls[r]]
  /\ UNCHANGED issued
=============================================================================
