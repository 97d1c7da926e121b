---------------------------- MODULE CommandEngine ----------------------------
(***************************************************************************)
(* The command engine of the gateway (gateway/app/commands): a dispatch    *)
(* per command, with retries and timeouts, and the correlation of what the *)
(* device answers with the commands sent to it.                            *)
(*                                                                         *)
(* Dispatches are coroutines of one asyncio loop: a step is what one does  *)
(* between two awaits that suspend it, the drain of the socket and the     *)
(* sleeps. handle_rx suspends nowhere.                                     *)
(***************************************************************************)
EXTENDS Integers

CONSTANTS
  Commands,   \* the commands ever sent
  DeviceOf,   \* Commands -> the device each is for
  Retries,    \* Commands -> max_retries
  Encodable,  \* the commands whose template exists and has its parameters
  Polls       \* timeout_s over the 0.05 s of a nap: the polls before the deadline

ASSUME CommandAssumption ==
  /\ Retries \in [Commands -> Int]
  /\ Encodable \subseteq Commands
  /\ Polls \in Nat

VARIABLES
  pc,       \* where each dispatch is
  record,   \* CommandRecord: [status, attempts, sentAt, finished]
  polls,    \* polls left before the deadline
  clock,    \* orders sent_at
  written,  \* how many payloads of each command reached the socket
  answered, \* how many of them its device has answered
  replies   \* the answers on their way: [to, nth]

vars == <<pc, record, polls, clock, written, answered, replies>>

Statuses == {"PENDING", "SENT", "ACKNOWLEDGED", "FAILED", "TIMEOUT"}

Init ==
  /\ pc = [c \in Commands |-> "new"]
  /\ record = [c \in Commands |->
       [status |-> "PENDING", attempts |-> 0, sentAt |-> 0, finished |-> FALSE]]
  /\ polls = [c \in Commands |-> 0]
  /\ clock = 0
  /\ written = [c \in Commands |-> 0]
  /\ answered = [c \in Commands |-> 0]
  /\ replies = {}

MaxAttempts(c) == IF Retries[c] < 0 THEN 1 ELSE Retries[c] + 1

GoTo(c, label) == pc' = [pc EXCEPT ![c] = label]

Finish(c, outcome) ==
  /\ record' = [record EXCEPT ![c].status = outcome, ![c].finished = TRUE]
  /\ GoTo(c, "done")

(* Attempt n: the payload is written to the device's session, or there is    *)
(* none and the next attempt waits. `before` is the status until then.       *)
Attempt(c, n, before) ==
  \/ /\ record' = [record EXCEPT ![c].attempts = n, ![c].status = before]
     /\ written' = [written EXCEPT ![c] = @ + 1]
     /\ GoTo(c, "drain")
  \/ /\ IF n < MaxAttempts(c)
        THEN /\ record' = [record EXCEPT ![c].attempts = n, ![c].status = "FAILED"]
             /\ GoTo(c, "backoff")
        ELSE /\ record' = [record EXCEPT ![c].attempts = n, ![c].status = "FAILED",
                                         ![c].finished = TRUE]
             /\ GoTo(c, "done")
     /\ UNCHANGED written

(* send and dispatch; a command that cannot be encoded fails at once.        *)
Dispatch(c) ==
  /\ pc[c] = "new" /\ c \in Encodable
  /\ Attempt(c, 1, "PENDING")
  /\ UNCHANGED <<polls, clock, answered, replies>>

DispatchFails(c) ==
  /\ pc[c] = "new" /\ c \notin Encodable
  /\ Finish(c, "FAILED")
  /\ UNCHANGED <<polls, clock, written, answered, replies>>

(* The drain returns: SENT ...                                               *)
Sent(c) ==
  /\ pc[c] = "drain"
  /\ clock' = clock + 1
  /\ record' = [record EXCEPT ![c].status = "SENT", ![c].sentAt = clock + 1]
  /\ polls' = [polls EXCEPT ![c] = Polls]
  /\ GoTo(c, "wait")
  /\ UNCHANGED <<written, answered, replies>>

(* ... or raises: the attempt failed, though the payload may be out.         *)
DrainFails(c) ==
  /\ pc[c] = "drain"
  /\ IF record[c].attempts < MaxAttempts(c)
     THEN /\ record' = [record EXCEPT ![c].status = "FAILED"]
          /\ GoTo(c, "backoff")
     ELSE Finish(c, "FAILED")
  /\ UNCHANGED <<polls, clock, written, answered, replies>>

(* The sleep after a failed attempt ends; the first form forgets to count.   *)
RetryUncounted(c) ==
  /\ pc[c] = "backoff"
  /\ Attempt(c, record[c].attempts, record[c].status)
  /\ UNCHANGED <<polls, clock, answered, replies>>
Retry(c) ==
  /\ pc[c] = "backoff"
  /\ Attempt(c, record[c].attempts + 1, record[c].status)
  /\ UNCHANGED <<polls, clock, answered, replies>>

-----------------------------------------------------------------------------
(* _wait_ack: a look at the record, then a nap; the other forms give up one  *)
(* look early, or too late.                                                  *)
DeadlinePassedEarly(c) == polls[c] <= 1
DeadlinePassedLate(c) == polls[c] < 0
DeadlinePassed(c) == polls[c] = 0

\* The first form takes the acknowledgement for granted.
PollForever(c) ==
  /\ pc[c] = "wait"
  /\ record[c].status = "ACKNOWLEDGED"
  /\ GoTo(c, "done")
  /\ UNCHANGED <<record, polls, clock, written, answered, replies>>

Poll(c) ==
  /\ pc[c] = "wait" /\ ~DeadlinePassed(c)
  /\ IF record[c].status = "ACKNOWLEDGED"
     THEN GoTo(c, "done") /\ UNCHANGED polls
     ELSE polls' = [polls EXCEPT ![c] = @ - 1] /\ UNCHANGED pc
  /\ UNCHANGED <<record, clock, written, answered, replies>>

(* The deadline: TIMEOUT, whatever came during the last nap, and the next    *)
(* attempt at once.                                                          *)
Timeout(c) ==
  /\ pc[c] = "wait" /\ DeadlinePassed(c)
  /\ IF record[c].attempts < MaxAttempts(c)
     THEN Attempt(c, record[c].attempts + 1, "TIMEOUT")
     ELSE Finish(c, "TIMEOUT") /\ UNCHANGED written
  /\ UNCHANGED <<polls, clock, answered, replies>>

-----------------------------------------------------------------------------
(* The device answers payloads it got, or not; answers may overtake.         *)
Answer(c) ==
  /\ answered[c] < written[c]
  /\ answered' = [answered EXCEPT ![c] = @ + 1]
  /\ replies' = replies \cup {[to |-> c, nth |-> answered[c] + 1]}
  /\ UNCHANGED <<pc, record, polls, clock, written>>

(* Every acknowledgement reads "OK", so it matches any command: handle_rx    *)
(* credits the one of that device most recently sent that is still SENT.     *)
CandidatesUnlessAcked(d) ==
  {c \in Commands : DeviceOf[c] = d /\ pc[c] # "new"
                    /\ record[c].status \notin {"PENDING", "ACKNOWLEDGED"}}
Candidates(d) == {c \in Commands : DeviceOf[c] = d /\ record[c].status = "SENT"}

HandleRx(a) ==
  LET found == Candidates(DeviceOf[a.to]) IN
  /\ a \in replies
  /\ replies' = replies \ {a}
  /\ IF found = {}
     THEN UNCHANGED record
     ELSE \E c \in found :
            /\ \A o \in found : record[o].sentAt <= record[c].sentAt
            /\ record' = [record EXCEPT ![c].status = "ACKNOWLEDGED",
                                        ![c].finished = TRUE]
  /\ UNCHANGED <<pc, polls, clock, written, answered>>

Step(c) ==
  Sent(c) \/ DrainFails(c) \/ Retry(c) \/ Poll(c) \/ Timeout(c)

Next ==
  \/ \E c \in Commands : Dispatch(c) \/ DispatchFails(c) \/ Step(c) \/ Answer(c)
  \/ \E a \in replies : HandleRx(a)

Spec == Init /\ [][Next]_vars

(* The loop resumes a coroutine whose sleep or drain is over; a drain on a   *)
(* dead connection raises.                                                   *)
FairSpec == Spec /\ \A c \in Commands : WF_vars(Step(c))
-----------------------------------------------------------------------------
(* Every variable ranges over what the code can store in it.                 *)
TypeOK ==
  /\ pc \in [Commands -> {"new", "drain", "wait", "backoff", "done"}]
  /\ record \in [Commands -> [status : Statuses, attempts : Nat, sentAt : 0..clock,
                              finished : BOOLEAN]]
  /\ polls \in [Commands -> 0..Polls]
  /\ clock \in Nat
  /\ \A c \in Commands : answered[c] \in 0..written[c]
  /\ replies \subseteq [to : Commands, nth : Nat \ {0}]

(* A device never gets a command more often than its retries allow, and a    *)
(* dispatch gives up only when they are used up (test_timeout_and_retry).    *)
TriesBounded ==
  \A c \in Commands :
    /\ written[c] <= MaxAttempts(c)
    /\ pc[c] = "done" /\ c \in Encodable /\ record[c].status # "ACKNOWLEDGED" =>
         record[c].attempts = MaxAttempts(c)

(* What dispatch returned stays true: answers that come late, or answer an   *)
(* earlier command, change no record that is finished.                       *)
OutcomeStands ==
  [][\A c \in Commands : pc[c] = "done" => record'[c] = record[c]]_vars

(* An acknowledgement that comes before the last poll is what the dispatch   *)
(* returns, and the command is not sent again.                               *)
AckReported ==
  [][\A c \in Commands :
       record[c].status = "ACKNOWLEDGED" /\ polls[c] > 0 =>
         /\ record'[c] = record[c]
         /\ written'[c] = written[c]]_vars

(* Every dispatch returns: each attempt ends by its deadline or its failure. *)
EveryDispatchEnds == \A c \in Commands : pc[c] # "new" ~> pc[c] = "done"
=============================================================================
