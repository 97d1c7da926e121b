------------------------ MODULE CommandEngineProofs -------------------------
(***************************************************************************)
(* Proofs about CommandEngine, for any commands, devices, numbers of       *)
(* retries and deadlines.                                                  *)
(***************************************************************************)
EXTENDS CommandEngine, TLAPS

(* How far each dispatch has got agrees with its attempts and its status.    *)
Progress ==
  \A c \in Commands :
    /\ written[c] <= record[c].attempts
    /\ record[c].attempts <= MaxAttempts(c)
    /\ pc[c] = "new" => record[c].attempts = 0
    /\ pc[c] = "backoff" => record[c].attempts < MaxAttempts(c)
    /\ pc[c] = "done" => record[c].status # "SENT"
    /\ pc[c] = "done" /\ c \in Encodable /\ record[c].status # "ACKNOWLEDGED" =>
         record[c].attempts = MaxAttempts(c)

(* The counters are counters: TypeOK only says that one is below the other.  *)
Counters == written \in [Commands -> Nat] /\ answered \in [Commands -> Nat]

(* Only a dispatch that waits has a record that can be acknowledged, and an  *)
(* acknowledged one is found by the poll or has been.                        *)
Waiting ==
  \A c \in Commands :
    /\ record[c].status = "SENT" => pc[c] = "wait"
    /\ record[c].status = "ACKNOWLEDGED" => pc[c] \in {"wait", "done"}

TypeInv == TypeOK /\ Counters
Inv == TypeInv /\ Progress

RecordsAt(n) == [status : Statuses, attempts : Nat, sentAt : 0..n, finished : BOOLEAN]
Records == RecordsAt(clock)

-----------------------------------------------------------------------------
\* Every command is tried once at least.
LEMMA TriedOnce ==
  ASSUME NEW c \in Commands
  PROVE  MaxAttempts(c) \in Nat /\ 1 <= MaxAttempts(c)
  BY CommandAssumption DEF MaxAttempts

\* Records of an earlier moment are records of a later one.
LEMMA RecordsWiden ==
  ASSUME NEW m \in Nat, NEW n \in Nat, m <= n, NEW f \in [Commands -> RecordsAt(m)]
  PROVE  f \in [Commands -> RecordsAt(n)]
<1>1. RecordsAt(m) \subseteq RecordsAt(n)
  BY DEF RecordsAt
<1> QED
  BY <1>1

\* Records stay records when fields of one are written: the status ...
LEMMA StatusWritten ==
  ASSUME NEW n \in Nat, NEW f \in [Commands -> RecordsAt(n)], NEW c \in Commands,
         NEW s \in Statuses
  PROVE  [f EXCEPT ![c].status = s] \in [Commands -> RecordsAt(n)]
<1>1. [f[c] EXCEPT !.status = s] \in RecordsAt(n)
  BY DEF RecordsAt
<1> QED
  BY <1>1

\* ... the end ...
LEMMA EndWritten ==
  ASSUME NEW n \in Nat, NEW f \in [Commands -> RecordsAt(n)], NEW c \in Commands,
         NEW s \in Statuses
  PROVE  [f EXCEPT ![c].status = s, ![c].finished = TRUE] \in [Commands -> RecordsAt(n)]
<1> DEFINE g == [f EXCEPT ![c].status = s]
<1>1. g \in [Commands -> RecordsAt(n)]
  BY StatusWritten
<1>2. [g[c] EXCEPT !.finished = TRUE] \in RecordsAt(n)
  BY <1>1 DEF RecordsAt
<1> HIDE DEF g
<1>3. [g EXCEPT ![c].finished = TRUE] \in [Commands -> RecordsAt(n)]
  BY <1>1, <1>2
<1> QED
  BY <1>3 DEF g

\* ... the time it was sent ...
LEMMA TimeWritten ==
  ASSUME NEW n \in Nat, NEW f \in [Commands -> RecordsAt(n)], NEW c \in Commands,
         NEW s \in Statuses, NEW at \in 0..n
  PROVE  [f EXCEPT ![c].status = s, ![c].sentAt = at] \in [Commands -> RecordsAt(n)]
<1> DEFINE g == [f EXCEPT ![c].status = s]
<1>1. g \in [Commands -> RecordsAt(n)]
  BY StatusWritten
<1>2. [g[c] EXCEPT !.sentAt = at] \in RecordsAt(n)
  BY <1>1 DEF RecordsAt
<1> HIDE DEF g
<1>3. [g EXCEPT ![c].sentAt = at] \in [Commands -> RecordsAt(n)]
  BY <1>1, <1>2
<1> QED
  BY <1>3 DEF g

\* ... the attempts, and with them the rest.
LEMMA AttemptWritten ==
  ASSUME NEW n \in Nat, NEW f \in [Commands -> RecordsAt(n)], NEW c \in Commands,
         NEW s \in Statuses, NEW k \in Nat
  PROVE  /\ [f EXCEPT ![c].attempts = k, ![c].status = s] \in [Commands -> RecordsAt(n)]
         /\ [f EXCEPT ![c].attempts = k, ![c].status = s, ![c].finished = TRUE]
               \in [Commands -> RecordsAt(n)]
<1> DEFINE g == [f EXCEPT ![c].attempts = k]
<1>1. [f[c] EXCEPT !.attempts = k] \in RecordsAt(n)
  BY DEF RecordsAt
<1>2. g \in [Commands -> RecordsAt(n)]
  BY <1>1
<1> HIDE DEF g
<1>3. /\ [g EXCEPT ![c].status = s] \in [Commands -> RecordsAt(n)]
      /\ [g EXCEPT ![c].status = s, ![c].finished = TRUE] \in [Commands -> RecordsAt(n)]
  BY <1>2, StatusWritten, EndWritten
<1> QED
  BY <1>3 DEF g

\* What an attempt does to the record and to what was written.
LEMMA AttemptTyped ==
  ASSUME TypeInv, NEW c \in Commands, NEW n \in Nat, NEW before \in Statuses,
         Attempt(c, n, before)
  PROVE  /\ record' \in [Commands -> Records]
         /\ pc' \in [Commands -> {"new", "drain", "wait", "backoff", "done"}]
         /\ written' \in [Commands -> Nat]
         /\ \A o \in Commands : written[o] <= written'[o]
<1>1. /\ record \in [Commands -> RecordsAt(clock)] /\ clock \in Nat
      /\ "FAILED" \in Statuses
  BY DEF TypeInv, TypeOK, RecordsAt, Statuses
<1>2. record' \in [Commands -> Records]
  <2>1. /\ [record EXCEPT ![c].attempts = n, ![c].status = before] \in [Commands -> Records]
        /\ [record EXCEPT ![c].attempts = n, ![c].status = "FAILED"] \in [Commands -> Records]
        /\ [record EXCEPT ![c].attempts = n, ![c].status = "FAILED", ![c].finished = TRUE]
             \in [Commands -> Records]
    BY <1>1, AttemptWritten, Zenon DEF Records
  <2> QED
    BY <2>1 DEF Attempt
<1>3. pc' \in [Commands -> {"new", "drain", "wait", "backoff", "done"}]
  BY DEF TypeInv, TypeOK, Attempt, GoTo
<1>4. written' \in [Commands -> Nat] /\ \A o \in Commands : written[o] <= written'[o]
  BY DEF TypeInv, Counters, Attempt
<1> QED
  BY <1>2, <1>3, <1>4

LEMMA FinishTyped ==
  ASSUME record \in [Commands -> RecordsAt(clock)], clock \in Nat,
         NEW c \in Commands, NEW outcome \in Statuses, Finish(c, outcome)
  PROVE  record' \in [Commands -> RecordsAt(clock)]
<1>1. [record EXCEPT ![c].status = outcome, ![c].finished = TRUE]
        \in [Commands -> RecordsAt(clock)]
  BY EndWritten, Zenon
<1> QED
  BY <1>1 DEF Finish

LEMMA AttemptProgress ==
  ASSUME TypeInv, Progress, NEW c \in Commands, NEW before \in Statuses,
         NEW n \in Nat, n = record[c].attempts + 1, n <= MaxAttempts(c),
         Attempt(c, n, before)
  PROVE  Progress'
<1> SUFFICES ASSUME NEW o \in Commands
             PROVE  /\ written'[o] <= record'[o].attempts
                    /\ record'[o].attempts <= MaxAttempts(o)
                    /\ pc'[o] = "new" => record'[o].attempts = 0
                    /\ pc'[o] = "backoff" => record'[o].attempts < MaxAttempts(o)
                    /\ pc'[o] = "done" => record'[o].status # "SENT"
                    /\ pc'[o] = "done" /\ o \in Encodable /\ record'[o].status # "ACKNOWLEDGED" =>
                         record'[o].attempts = MaxAttempts(o)
  BY DEF Progress, MaxAttempts
<1>1. MaxAttempts(c) \in Nat
  BY TriedOnce
<1>2. CASE o # c
  BY <1>2 DEF TypeInv, TypeOK, Counters, Progress, Attempt, GoTo
<1>3. CASE o = c
  <2>1. /\ record'[c].attempts = n
        /\ pc'[c] \in {"drain", "backoff", "done"}
        /\ pc'[c] = "backoff" => n < MaxAttempts(c)
        /\ pc'[c] = "done" => ~(n < MaxAttempts(c)) /\ record'[c].status = "FAILED"
        /\ written'[c] <= written[c] + 1
    BY DEF TypeInv, TypeOK, Counters, Attempt, GoTo
  <2>2. /\ written[c] <= record[c].attempts
        /\ written[c] \in Nat /\ record[c].attempts \in Nat /\ written'[c] \in Nat
    BY AttemptTyped DEF TypeInv, TypeOK, Counters, Progress
  <2> QED
    BY <1>1, <1>3, <2>1, <2>2
<1> QED
  BY <1>2, <1>3

-----------------------------------------------------------------------------
LEMMA InitInv == Init => Inv
<1> SUFFICES ASSUME Init PROVE Inv
  OBVIOUS
<1>1. TypeInv
  BY CommandAssumption DEF Init, TypeInv, TypeOK, Counters, Statuses
<1>2. ASSUME NEW c \in Commands
      PROVE  /\ written[c] = 0 /\ record[c].attempts = 0 /\ pc[c] = "new"
             /\ MaxAttempts(c) \in Nat
    BY TriedOnce DEF Init
<1>3. \A m \in Nat : 0 <= 0 /\ 0 <= m
  OBVIOUS
<1>4. Progress
  BY <1>2, <1>3, Zenon DEF Progress
<1> QED
  BY <1>1, <1>4 DEF Inv

LEMMA NextTypeInv == TypeInv /\ [Next]_vars => TypeInv'
<1> SUFFICES ASSUME TypeInv, [Next]_vars PROVE TypeInv'
  OBVIOUS
<1> USE DEF TypeInv, Counters
<1>0. /\ record \in [Commands -> RecordsAt(clock)] /\ clock \in Nat
      /\ {"PENDING", "SENT", "FAILED", "TIMEOUT", "ACKNOWLEDGED"} \subseteq Statuses
  BY DEF TypeOK, RecordsAt, Statuses
<1>1. ASSUME NEW c \in Commands, Dispatch(c) PROVE TypeInv'
  <2>1. 1 \in Nat /\ "PENDING" \in Statuses /\ Attempt(c, 1, "PENDING")
    BY <1>0, <1>1 DEF Dispatch
  <2> QED
    BY <1>1, <2>1, AttemptTyped DEF Dispatch, TypeOK, Records, RecordsAt
<1>2. ASSUME NEW c \in Commands, DispatchFails(c) PROVE TypeInv'
  <2>1. record' \in [Commands -> RecordsAt(clock)]
    BY <1>0, <1>2, FinishTyped DEF DispatchFails
  <2> QED
    BY <1>2, <2>1 DEF DispatchFails, Finish, GoTo, TypeOK, RecordsAt
<1>3. ASSUME NEW c \in Commands, Sent(c) PROVE TypeInv'
  <2>1. /\ clock' = clock + 1 /\ clock' \in Nat /\ clock + 1 \in 0..clock'
        /\ record \in [Commands -> RecordsAt(clock')]
    BY <1>0, <1>3, RecordsWiden DEF Sent
  <2>2. record' \in [Commands -> RecordsAt(clock')]
    BY <1>0, <1>3, <2>1, TimeWritten DEF Sent
  <2>3. polls' \in [Commands -> 0..Polls]
    BY <1>3, CommandAssumption DEF Sent, TypeOK
  <2> QED
    BY <1>3, <2>1, <2>2, <2>3 DEF Sent, GoTo, TypeOK, RecordsAt
<1>4. ASSUME NEW c \in Commands, DrainFails(c) PROVE TypeInv'
  <2>1. record' \in [Commands -> RecordsAt(clock)]
    <3>1. [record EXCEPT ![c].status = "FAILED"] \in [Commands -> RecordsAt(clock)]
      BY <1>0, StatusWritten, Zenon
    <3> QED
      BY <1>0, <1>4, <3>1, FinishTyped DEF DrainFails
  <2> QED
    BY <1>4, <2>1 DEF DrainFails, Finish, GoTo, TypeOK, RecordsAt
<1>5. ASSUME NEW c \in Commands, Retry(c) PROVE TypeInv'
  <2>1. record[c].attempts + 1 \in Nat /\ record[c].status \in Statuses
    BY DEF TypeOK
  <2> QED
    BY <1>5, <2>1, AttemptTyped DEF Retry, TypeOK, Records, RecordsAt
<1>6. ASSUME NEW c \in Commands, Poll(c) PROVE TypeInv'
  <2>0. polls[c] \in 0..Polls
    BY DEF TypeOK
  <2>1. polls[c] # 0 => polls[c] - 1 \in 0..Polls
    BY <2>0, CommandAssumption
  <2>2. polls' \in [Commands -> 0..Polls]
    BY <1>6, <2>1 DEF Poll, DeadlinePassed, TypeOK
  <2> QED
    BY <1>6, <2>2 DEF Poll, GoTo, TypeOK
<1>7. ASSUME NEW c \in Commands, Timeout(c) PROVE TypeInv'
  <2>1. CASE Attempt(c, record[c].attempts + 1, "TIMEOUT")
    <3>1. record[c].attempts + 1 \in Nat /\ "TIMEOUT" \in Statuses
      BY <1>0 DEF TypeOK
    <3> QED
      BY <1>7, <2>1, <3>1, AttemptTyped DEF Timeout, TypeOK, Records, RecordsAt
  <2>2. CASE Finish(c, "TIMEOUT") /\ UNCHANGED written
    <3>1. record' \in [Commands -> RecordsAt(clock)]
      BY <1>0, <2>2, FinishTyped
    <3> QED
      BY <1>7, <2>2, <3>1 DEF Timeout, Finish, GoTo, TypeOK, RecordsAt
  <2> QED
    BY <1>7, <2>1, <2>2 DEF Timeout
<1>8. ASSUME NEW c \in Commands, Answer(c) PROVE TypeInv'
  BY <1>8 DEF Answer, TypeOK
<1>9. ASSUME NEW a \in replies, HandleRx(a) PROVE TypeInv'
  <2>1. record' \in [Commands -> RecordsAt(clock)]
    <3>1. ASSUME NEW c \in Commands
          PROVE  [record EXCEPT ![c].status = "ACKNOWLEDGED", ![c].finished = TRUE]
                    \in [Commands -> RecordsAt(clock)]
      BY <1>0, EndWritten, Zenon
    <3> QED
      BY <1>0, <1>9, <3>1 DEF HandleRx, Candidates
  <2> QED
    BY <1>9, <2>1 DEF HandleRx, TypeOK, RecordsAt
<1>10. CASE UNCHANGED vars
  BY <1>10 DEF vars, TypeOK
<1> QED
  BY <1>1, <1>2, <1>3, <1>4, <1>5, <1>6, <1>7, <1>8, <1>9, <1>10 DEF Next, Step

(* The state of the engine keeps its types: records, deadlines, counters and *)
(* answers on their way, for any number of commands.                         *)
THEOREM TypeCorrect == Spec => []TypeOK
<1>1. Init => TypeInv
  BY InitInv DEF Inv
<1>2. TypeInv => TypeOK
  BY DEF TypeInv
<1> QED
  BY <1>1, <1>2, NextTypeInv, PTL DEF Spec

-----------------------------------------------------------------------------
\* A step of a dispatch other than an attempt, an answer, a lost answer.
LEMMA QuietProgress ==
  ASSUME TypeInv, Progress, NEW c \in Commands,
         DispatchFails(c) \/ Sent(c) \/ DrainFails(c) \/ Poll(c) \/ Answer(c)
  PROVE  Progress'
<1> USE DEF TypeInv, Counters, GoTo
<1>0. MaxAttempts(c) \in Nat /\ record[c].attempts \in Nat
  BY TriedOnce DEF TypeOK
<1>1. CASE DispatchFails(c)
  BY <1>0, <1>1 DEF DispatchFails, Finish, TypeOK, Progress, MaxAttempts
<1>2. CASE Sent(c)
  BY <1>2 DEF Sent, TypeOK, Progress, MaxAttempts
<1>3. CASE DrainFails(c)
  BY <1>0, <1>3 DEF DrainFails, Finish, TypeOK, Progress, MaxAttempts
<1>4. CASE Poll(c)
  BY <1>4 DEF Poll, TypeOK, Progress, MaxAttempts
<1>5. CASE Answer(c)
  BY <1>5 DEF Answer, TypeOK, Progress, MaxAttempts
<1> QED
  BY <1>1, <1>2, <1>3, <1>4, <1>5

LEMMA TimeoutProgress ==
  ASSUME TypeInv, Progress, NEW c \in Commands, Timeout(c)
  PROVE  Progress'
<1>1. MaxAttempts(c) \in Nat /\ record[c].attempts \in Nat
  BY TriedOnce DEF TypeInv, TypeOK
<1>2. CASE record[c].attempts < MaxAttempts(c)
  <2>1. /\ Attempt(c, record[c].attempts + 1, "TIMEOUT")
        /\ record[c].attempts + 1 \in Nat /\ "TIMEOUT" \in Statuses
        /\ record[c].attempts + 1 <= MaxAttempts(c)
    BY <1>1, <1>2 DEF Timeout, Statuses
  <2> QED
    BY <2>1, AttemptProgress
<1>3. CASE ~(record[c].attempts < MaxAttempts(c))
  BY <1>1, <1>3 DEF Timeout, Finish, GoTo, TypeInv, TypeOK, Counters, Progress, MaxAttempts
<1> QED
  BY <1>2, <1>3

LEMMA HandleRxProgress ==
  ASSUME TypeInv, Progress, NEW a \in replies, HandleRx(a)
  PROVE  Progress'
<1>1. /\ UNCHANGED <<pc, written>>
      /\ \/ UNCHANGED record
         \/ \E c \in Commands : record' =
              [record EXCEPT ![c].status = "ACKNOWLEDGED", ![c].finished = TRUE]
  BY DEF HandleRx, Candidates
<1>2. ASSUME NEW c \in Commands
      PROVE  /\ record'[c].attempts = record[c].attempts
             /\ record'[c].status \in {record[c].status, "ACKNOWLEDGED"}
  <2>1. ASSUME NEW o \in Commands,
               record' = [record EXCEPT ![o].status = "ACKNOWLEDGED", ![o].finished = TRUE]
        PROVE  \/ record'[c] = record[c]
               \/ record'[c] = [record[c] EXCEPT !.status = "ACKNOWLEDGED", !.finished = TRUE]
    BY <2>1 DEF TypeInv, TypeOK
  <2>2. record[c] \in Records
    BY DEF TypeInv, TypeOK, Records, RecordsAt
  <2>3. LET r == [record[c] EXCEPT !.status = "ACKNOWLEDGED", !.finished = TRUE]
        IN  r.attempts = record[c].attempts /\ r.status = "ACKNOWLEDGED"
    BY <2>2 DEF Records, RecordsAt
  <2> QED
    BY <1>1, <2>1, <2>3
<1> QED
  BY <1>1, <1>2 DEF Progress, MaxAttempts

LEMMA NextProgress == TypeInv /\ Progress /\ [Next]_vars => Progress'
<1> SUFFICES ASSUME TypeInv, Progress, [Next]_vars PROVE Progress'
  OBVIOUS
<1>1. ASSUME NEW c \in Commands, Dispatch(c) PROVE Progress'
  <2>1. /\ "PENDING" \in Statuses /\ 1 \in Nat /\ 1 <= MaxAttempts(c)
        /\ record[c].attempts = 0 /\ Attempt(c, 1, "PENDING")
    BY <1>1, TriedOnce DEF Dispatch, Statuses, Progress
  <2> QED
    BY <2>1, AttemptProgress
<1>2. ASSUME NEW c \in Commands, Retry(c) PROVE Progress'
  <2>1. /\ record[c].attempts \in Nat /\ record[c].status \in Statuses
        /\ record[c].attempts < MaxAttempts(c) /\ MaxAttempts(c) \in Nat
        /\ Attempt(c, record[c].attempts + 1, record[c].status)
    BY <1>2, TriedOnce DEF Retry, Progress, TypeInv, TypeOK
  <2> QED
    BY <2>1, AttemptProgress
<1>3. CASE UNCHANGED vars
  BY <1>3 DEF vars, Progress, MaxAttempts
<1> QED
  BY <1>1, <1>2, <1>3, QuietProgress, TimeoutProgress, HandleRxProgress DEF Next, Step

(* A device never gets a command more often than its retries allow, and a    *)
(* dispatch gives up only once they are used up, whatever answers arrive.    *)
THEOREM RetriesAreKept == Spec => []TriesBounded
<1>1. Init => TypeInv /\ Progress
  BY InitInv DEF Inv
<1>2. TypeInv /\ Progress => TriesBounded
  <2> SUFFICES ASSUME TypeInv, Progress, NEW c \in Commands
               PROVE  /\ written[c] <= MaxAttempts(c)
                      /\ pc[c] = "done" /\ c \in Encodable
                         /\ record[c].status # "ACKNOWLEDGED" =>
                           record[c].attempts = MaxAttempts(c)
    BY DEF TriesBounded
  <2>1. /\ written[c] \in Nat /\ record[c].attempts \in Nat
        /\ MaxAttempts(c) \in Nat
    BY TriedOnce DEF TypeInv, TypeOK, Counters
  <2> QED
    BY <2>1 DEF Progress
<1> QED
  BY <1>1, <1>2, NextTypeInv, NextProgress, PTL DEF Spec

-----------------------------------------------------------------------------
(* Only a record that is SENT is acknowledged, and none of those is finished.*)
LEMMA OutcomeStep ==
  ASSUME TypeInv, Progress, [Next]_vars, NEW c \in Commands, pc[c] = "done"
  PROVE  record'[c] = record[c]
<1>1. ASSUME NEW o \in Commands, Dispatch(o) \/ DispatchFails(o) \/ Step(o) \/ Answer(o)
      PROVE  record'[c] = record[c]
  <2>1. CASE o = c
    BY <1>1, <2>1 DEF Dispatch, DispatchFails, Step, Sent, DrainFails, Retry, Poll,
                      Timeout, Answer
  <2>2. CASE o # c
    BY <1>1, <2>2 DEF Dispatch, DispatchFails, Step, Sent, DrainFails, Retry, Poll,
                      Timeout, Answer, Attempt, Finish, TypeInv, TypeOK
  <2> QED
    BY <2>1, <2>2
<1>2. ASSUME NEW a \in replies, HandleRx(a)
      PROVE  record'[c] = record[c]
  <2>1. \/ UNCHANGED record
        \/ \E o \in Candidates(DeviceOf[a.to]) : record' =
             [record EXCEPT ![o].status = "ACKNOWLEDGED", ![o].finished = TRUE]
    BY <1>2 DEF HandleRx
  <2>2. c \notin Candidates(DeviceOf[a.to])
    BY DEF Candidates, Progress
  <2> QED
    BY <2>1, <2>2 DEF TypeInv, TypeOK
<1>3. CASE UNCHANGED vars
  BY <1>3 DEF vars
<1> QED
  BY <1>1, <1>2, <1>3 DEF Next

(* What a dispatch returned stays true: no later answer, and no other        *)
(* dispatch, changes a finished record.                                      *)
THEOREM OutcomesStand == Spec => OutcomeStands
<1>1. Init => TypeInv /\ Progress
  BY InitInv DEF Inv
<1>2. TypeInv /\ Progress /\ [Next]_vars =>
        [\A c \in Commands : pc[c] = "done" => record'[c] = record[c]]_vars
  BY OutcomeStep
<1> QED
  BY <1>1, <1>2, NextTypeInv, NextProgress, PTL DEF Spec, OutcomeStands

-----------------------------------------------------------------------------
\* An attempt leaves its own record out of reach of answers, and others alone.
LEMMA AttemptWaiting ==
  ASSUME TypeInv, Waiting, NEW c \in Commands, NEW n, NEW before,
         before \notin {"SENT", "ACKNOWLEDGED"}, Attempt(c, n, before)
  PROVE  Waiting'
<1> SUFFICES ASSUME NEW o \in Commands
             PROVE  /\ record'[o].status = "SENT" => pc'[o] = "wait"
                    /\ record'[o].status = "ACKNOWLEDGED" => pc'[o] \in {"wait", "done"}
  BY DEF Waiting
<1>1. CASE o # c
  BY <1>1 DEF TypeInv, TypeOK, Waiting, Attempt, GoTo
<1>2. CASE o = c
  <2>1. record'[c].status \in {before, "FAILED"}
    BY DEF TypeInv, TypeOK, Attempt
  <2> QED
    BY <1>2, <2>1
<1> QED
  BY <1>1, <1>2

LEMMA NextWaiting == TypeInv /\ Waiting /\ [Next]_vars => Waiting'
<1> SUFFICES ASSUME TypeInv, Waiting, [Next]_vars PROVE Waiting'
  OBVIOUS
<1> USE DEF TypeInv
<1>1. ASSUME NEW c \in Commands, Dispatch(c) PROVE Waiting'
  BY <1>1, AttemptWaiting DEF Dispatch
<1>2. ASSUME NEW c \in Commands, DispatchFails(c) PROVE Waiting'
  BY <1>2 DEF DispatchFails, Finish, GoTo, TypeOK, Waiting
<1>3. ASSUME NEW c \in Commands, Sent(c) PROVE Waiting'
  BY <1>3 DEF Sent, GoTo, TypeOK, Waiting
<1>4. ASSUME NEW c \in Commands, DrainFails(c) PROVE Waiting'
  BY <1>4 DEF DrainFails, Finish, GoTo, TypeOK, Waiting
<1>5. ASSUME NEW c \in Commands, Retry(c) PROVE Waiting'
  <2>1. record[c].status \notin {"SENT", "ACKNOWLEDGED"}
    BY <1>5 DEF Retry, Waiting
  <2> QED
    BY <1>5, <2>1, AttemptWaiting DEF Retry
<1>6. ASSUME NEW c \in Commands, Poll(c) PROVE Waiting'
  BY <1>6 DEF Poll, GoTo, TypeOK, Waiting
<1>7. ASSUME NEW c \in Commands, Timeout(c) PROVE Waiting'
  <2>1. CASE Attempt(c, record[c].attempts + 1, "TIMEOUT")
    BY <2>1, AttemptWaiting
  <2>2. CASE Finish(c, "TIMEOUT")
    BY <2>2 DEF Finish, GoTo, TypeOK, Waiting
  <2> QED
    BY <1>7, <2>1, <2>2 DEF Timeout
<1>8. ASSUME NEW c \in Commands, Answer(c) PROVE Waiting'
  BY <1>8 DEF Answer, Waiting
<1>9. ASSUME NEW a \in replies, HandleRx(a) PROVE Waiting'
  <2>1. /\ pc' = pc
        /\ \/ UNCHANGED record
           \/ \E o \in Commands : /\ record[o].status = "SENT"
                                  /\ record' = [record EXCEPT ![o].status = "ACKNOWLEDGED",
                                                              ![o].finished = TRUE]
    BY <1>9 DEF HandleRx, Candidates
  <2> QED
    BY <2>1 DEF TypeOK, Waiting
<1>10. CASE UNCHANGED vars
  BY <1>10 DEF vars, Waiting
<1> QED
  BY <1>1, <1>2, <1>3, <1>4, <1>5, <1>6, <1>7, <1>8, <1>9, <1>10 DEF Next, Step

LEMMA AckStep ==
  ASSUME TypeInv, Waiting, [Next]_vars, NEW c \in Commands,
         record[c].status = "ACKNOWLEDGED", polls[c] > 0
  PROVE  record'[c] = record[c] /\ written'[c] = written[c]
<1>1. pc[c] \in {"wait", "done"} /\ polls[c] # 0
  BY DEF Waiting, TypeInv, TypeOK
<1>2. ASSUME NEW o \in Commands, Dispatch(o) \/ DispatchFails(o) \/ Step(o) \/ Answer(o)
      PROVE  record'[c] = record[c] /\ written'[c] = written[c]
  <2>1. CASE o = c
    BY <1>1, <1>2, <2>1 DEF Dispatch, DispatchFails, Step, Sent, DrainFails, Retry,
                            Poll, Timeout, DeadlinePassed, Answer
  <2>2. CASE o # c
    BY <1>2, <2>2 DEF Dispatch, DispatchFails, Step, Sent, DrainFails, Retry, Poll,
                      Timeout, Answer, Attempt, Finish, TypeInv, TypeOK, Counters
  <2> QED
    BY <2>1, <2>2
<1>3. ASSUME NEW a \in replies, HandleRx(a)
      PROVE  record'[c] = record[c] /\ written'[c] = written[c]
  <2>1. /\ UNCHANGED written
        /\ \/ UNCHANGED record
           \/ \E o \in Candidates(DeviceOf[a.to]) : record' =
                [record EXCEPT ![o].status = "ACKNOWLEDGED", ![o].finished = TRUE]
    BY <1>3 DEF HandleRx
  <2>2. c \notin Candidates(DeviceOf[a.to])
    BY DEF Candidates
  <2> QED
    BY <2>1, <2>2 DEF TypeInv, TypeOK
<1>4. CASE UNCHANGED vars
  BY <1>4 DEF vars
<1> QED
  BY <1>2, <1>3, <1>4 DEF Next

(* An acknowledgement that comes before the last poll is never lost to a     *)
(* timeout, and the device does not get the command again.                   *)
THEOREM AcksAreReported == Spec => AckReported
<1>1. Init => TypeInv /\ Waiting
  <2>1. ASSUME Init, NEW c \in Commands PROVE record[c].status = "PENDING"
    BY <2>1 DEF Init
  <2> QED
    BY <2>1, InitInv DEF Inv, Waiting
<1>2. TypeInv /\ Waiting /\ [Next]_vars =>
        [\A c \in Commands :
           record[c].status = "ACKNOWLEDGED" /\ polls[c] > 0 =>
             /\ record'[c] = record[c]
             /\ written'[c] = written[c]]_vars
  BY AckStep
<1> QED
  BY <1>1, <1>2, NextTypeInv, NextWaiting, PTL DEF Spec, AckReported
=============================================================================
