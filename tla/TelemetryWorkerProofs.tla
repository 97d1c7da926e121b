----------------------- MODULE TelemetryWorkerProofs -----------------------
(***************************************************************************)
(* Proofs about TelemetryWorker, for any set of workers, devices and       *)
(* messages, any batch size and stream bound, and any subset of the        *)
(* faults.                                                                 *)
(***************************************************************************)
EXTENDS TelemetryWorker, TLAPS

Busy == {"handle", "commit", "ack", "dupAck", "dlq", "dlqAck"}

(* Nothing was handed out before the group existed, and only a started       *)
(* worker, which made sure that it does, consumes.                           *)
GroupInv ==
  /\ ~hasGroup => cursor = 0
  /\ \A w \in Workers : Running(w) => hasGroup

(* The entry a busy worker is at lies within its batch, which was handed     *)
(* out, and what is about to be committed is a message.                      *)
BatchInv ==
  \A w \in Workers : pc[w] \in Busy =>
    /\ next[w] \in 1..last[w]
    /\ last[w] <= cursor
    /\ pc[w] = "commit" => IsParseable(next[w])

TypeInv == TypeOK /\ GroupInv /\ BatchInv

(* Wherever an acknowledgement comes next, its entry is already accounted    *)
(* for.                                                                      *)
AboutToAck ==
  \A w \in Workers :
    pc[w] \in {"ack", "dupAck", "dlqAck"} => Accounted(next[w])

AckInv == AboutToAck /\ AckedIsAccounted

-----------------------------------------------------------------------------
\* What XREADGROUP hands out lies after the cursor and within the stream.
LEMMA NewEntries ==
  ASSUME TypeOK, FirstNew <= Len(stream)
  PROVE  /\ FirstNew \in Nat /\ LastNew \in Nat
         /\ cursor < FirstNew /\ 1 <= FirstNew
         /\ FirstNew <= LastNew /\ LastNew <= Len(stream)
  BY WorkerAssumption DEF TypeOK, FirstNew, LastNew

\* Appending to a sequence changes no element already there.
LEMMA AppendKeeps ==
  ASSUME NEW S, NEW s \in Seq(S), NEW e \in S
  PROVE  /\ Append(s, e) \in Seq(S)
         /\ Len(Append(s, e)) = Len(s) + 1
         /\ \A i \in 1..Len(s) : Append(s, e)[i] = s[i]
         /\ Append(s, e)[Len(s) + 1] = e
  OBVIOUS

\* A sequence stays one over a larger range of elements.
LEMMA SeqWidens ==
  ASSUME NEW S, NEW T, S \subseteq T, NEW s \in Seq(S)
  PROVE  s \in Seq(T)
  OBVIOUS

-----------------------------------------------------------------------------
LEMMA InitTypeInv == Init => TypeInv
<1> SUFFICES ASSUME Init PROVE TypeInv
  OBVIOUS
<1>1. /\ stream \in Seq(Messages \cup {Unparseable})
      /\ dlq \in Seq([id : 1..cursor, retries : 1..MaxRetries])
  BY DEF Init
<1>2. Len(stream) = 0
  BY DEF Init
<1>3. /\ 1 \in 1..MaxRetries
      /\ trimmed \in 0..Len(stream) /\ cursor \in 0..Len(stream)
  BY <1>2, WorkerAssumption DEF Init
<1>7. /\ pel = {} /\ acked = {}
      /\ processed = {} /\ rows = {}
      /\ hasGroup \in BOOLEAN
  BY Zenon DEF Init
<1>4. /\ device \in [Imeis -> [seen : 0..cursor, pos : 0..cursor]]
      /\ cache \in [Imeis -> 0..cursor]
  BY DEF Init
<1>5. /\ pc \in [Workers -> PcLabels]
      /\ next \in [Workers -> Nat] /\ last \in [Workers -> Nat]
      /\ attempt \in [Workers -> 1..MaxRetries]
      /\ found \in [Workers -> BOOLEAN]
  BY <1>3 DEF Init, PcLabels
<1>6. BatchInv /\ GroupInv
  BY DEF Init, BatchInv, GroupInv, Running, Busy
<1> QED
  BY <1>1, <1>3, <1>4, <1>5, <1>6, <1>7 DEF TypeInv, TypeOK

LEMMA PublishTypeInv ==
  ASSUME TypeInv, NEW m \in Messages \cup {Unparseable}, Publish(m)
  PROVE  TypeInv'
<1> USE DEF TypeInv, Publish, redisVars, dbVars, workerVars
<1>1. /\ stream' \in Seq(Messages \cup {Unparseable})
      /\ Len(stream') = Len(stream) + 1
      /\ \A i \in 1..Len(stream) : stream'[i] = stream[i]
  BY AppendKeeps DEF TypeOK
<1>2. /\ trimmed' \in 0..Len(stream') /\ cursor' \in 0..Len(stream')
  BY <1>1 DEF TypeOK
<1>3. TypeOK'
  BY <1>1, <1>2 DEF TypeOK
<1>4. BatchInv'
  <2> SUFFICES ASSUME NEW w \in Workers, pc[w] \in Busy
               PROVE  /\ next[w] \in 1..last[w] /\ last[w] <= cursor
                      /\ pc[w] = "commit" => stream'[next[w]] # Unparseable
    BY DEF BatchInv, IsParseable
  <2>1. next[w] \in 1..Len(stream)
    BY DEF BatchInv, TypeOK
  <2> QED
    BY <1>1, <2>1 DEF BatchInv, IsParseable
<1>5. GroupInv'
  BY DEF GroupInv, Running
<1> QED
  BY <1>3, <1>4, <1>5

LEMMA StartTypeInv ==
  ASSUME TypeInv, NEW w \in Workers, Start(w)
  PROVE  TypeInv'
<1> USE DEF TypeInv, Start, redisVars, dbVars, workerVars
<1>1. cursor' = cursor /\ (hasGroup => hasGroup') /\ hasGroup' \in BOOLEAN
  BY DEF GroupInv, TypeOK
<1>2. pc' \in [Workers -> PcLabels]
  BY DEF TypeOK, PcLabels
<1>3. TypeOK'
  BY <1>1, <1>2 DEF TypeOK
<1>4. BatchInv'
  BY <1>1 DEF BatchInv, IsParseable, Busy, TypeOK
<1>5. GroupInv'
  BY <1>1 DEF GroupInv, Running, TypeOK
<1> QED
  BY <1>3, <1>4, <1>5

LEMMA ReadBatchTypeInv ==
  ASSUME TypeInv, NEW w \in Workers, ReadBatch(w)
  PROVE  TypeInv'
<1> USE DEF TypeInv, ReadBatch, dbVars
<1>1. /\ FirstNew \in Nat /\ LastNew \in Nat /\ cursor < FirstNew
      /\ 1 <= FirstNew /\ FirstNew <= LastNew /\ LastNew <= Len(stream)
  BY NewEntries
<1>2. cursor' \in 0..Len(stream) /\ cursor \in Nat /\ cursor < cursor'
  BY <1>1 DEF TypeOK
<1>3. pel' \subseteq 1..cursor' /\ acked' \subseteq 1..cursor'
      /\ rows' \subseteq 1..cursor'
  BY <1>1, <1>2 DEF TypeOK
<1>4. dlq' \in Seq([id : 1..cursor', retries : 1..MaxRetries])
  <2>1. 1..cursor \subseteq 1..cursor'
    BY <1>2
  <2>2. [id : 1..cursor, retries : 1..MaxRetries]
          \subseteq [id : 1..cursor', retries : 1..MaxRetries]
    BY <2>1
  <2> QED
    BY <2>2, SeqWidens DEF TypeOK
<1>5. /\ device' \in [Imeis -> [seen : 0..cursor', pos : 0..cursor']]
      /\ cache' \in [Imeis -> 0..cursor']
  BY <1>2 DEF TypeOK
<1>a. 1 \in 1..MaxRetries
  BY WorkerAssumption
<1>b. pc' = pc \/ pc' = [pc EXCEPT ![w] = "handle"]
  OBVIOUS
<1>c. pc' \in [Workers -> PcLabels]
  BY <1>b DEF TypeOK, PcLabels
<1>d. /\ next' = next \/ next' = [next EXCEPT ![w] = FirstNew]
      /\ last' = last \/ last' = [last EXCEPT ![w] = LastNew]
      /\ attempt' = attempt \/ attempt' = [attempt EXCEPT ![w] = 1]
  OBVIOUS
<1>e. next' \in [Workers -> Nat]
  BY <1>1, <1>d DEF TypeOK
<1>f. last' \in [Workers -> Nat]
  BY <1>1, <1>d DEF TypeOK
<1>g. attempt' \in [Workers -> 1..MaxRetries]
  BY <1>a, <1>d DEF TypeOK
<1>6. /\ pc' \in [Workers -> PcLabels]
      /\ next' \in [Workers -> Nat] /\ last' \in [Workers -> Nat]
      /\ attempt' \in [Workers -> 1..MaxRetries]
  BY <1>c, <1>e, <1>f, <1>g
<1>7. TypeOK'
  BY <1>2, <1>3, <1>4, <1>5, <1>6 DEF TypeOK
<1>8. BatchInv'
  <2> SUFFICES ASSUME NEW v \in Workers, pc'[v] \in Busy
               PROVE  /\ next'[v] \in 1..last'[v] /\ last'[v] <= cursor'
                      /\ pc'[v] = "commit" => stream'[next'[v]] # Unparseable
    BY DEF BatchInv, IsParseable
  <2>1. /\ cursor < cursor' /\ cursor \in Nat /\ cursor' \in Nat
        /\ cursor' = LastNew /\ stream' = stream
    BY <1>2
  <2>2. CASE pc'[v] = pc[v] /\ next'[v] = next[v] /\ last'[v] = last[v]
    <3>1. /\ next[v] \in 1..last[v] /\ last[v] <= cursor
          /\ pc[v] = "commit" => stream[next[v]] # Unparseable
      BY <2>2 DEF BatchInv, IsParseable
    <3>2. last[v] \in Nat
      BY DEF TypeOK
    <3> QED
      BY <2>1, <2>2, <3>1, <3>2
  <2>3. CASE pc'[v] = "handle" /\ next'[v] = FirstNew /\ last'[v] = LastNew
    BY <1>1, <2>1, <2>3
  <2>4. \/ pc'[v] = pc[v] /\ next'[v] = next[v] /\ last'[v] = last[v]
        \/ pc'[v] = "handle" /\ next'[v] = FirstNew /\ last'[v] = LastNew
    <3>1. CASE v = w
      BY <3>1 DEF TypeOK
    <3>2. CASE v # w
      BY <3>2 DEF TypeOK
    <3> QED
      BY <3>1, <3>2
  <2> QED
    BY <2>2, <2>3, <2>4
<1>9. GroupInv'
  BY <1>6 DEF GroupInv, Running, TypeOK
<1> QED
  BY <1>7, <1>8, <1>9

-----------------------------------------------------------------------------
(* The steps of a worker on its current entry. None of them touches the      *)
(* stream or the group's cursor; LocalTypeInv is what they share.            *)
LEMMA GoToLabel ==
  ASSUME TypeOK, NEW w \in Workers, NEW label \in PcLabels, GoTo(w, label)
  PROVE  /\ pc' \in [Workers -> PcLabels]
         /\ pc'[w] = label
         /\ \A v \in Workers \ {w} : pc'[v] = pc[v]
  BY DEF GoTo, TypeOK

LEMMA LocalTypeInv ==
  ASSUME TypeInv, NEW w \in Workers, pc[w] # "off",
         UNCHANGED <<stream, trimmed, hasGroup, cursor>>,
         Running(w)' => Running(w),
         pc' \in [Workers -> PcLabels],
         next' \in [Workers -> Nat], last' \in [Workers -> Nat],
         \A v \in Workers \ {w} :
           pc'[v] = pc[v] /\ next'[v] = next[v] /\ last'[v] = last[v],
         pc'[w] \in Busy =>
           /\ next'[w] \in 1..last'[w] /\ last'[w] <= cursor
           /\ pc'[w] = "commit" => IsParseable(next'[w])
  PROVE  GroupInv' /\ BatchInv'
<1>1. GroupInv'
  BY DEF TypeInv, GroupInv, Running
<1>2. BatchInv'
  BY DEF TypeInv, BatchInv, IsParseable
<1> QED
  BY <1>1, <1>2

LEMMA HandleTypeInv ==
  ASSUME TypeInv, NEW w \in Workers,
         SkipUnparseable(w) \/ Retry(w) \/ Duplicate(w)
  PROVE  TypeInv'
<1> USE DEF redisVars, dbVars
<1>1. /\ UNCHANGED <<redisVars, dlq, dbVars, cache, next, last, found>>
      /\ pc[w] = "handle"
      /\ \/ GoTo(w, "ack") /\ UNCHANGED attempt
         \/ GoTo(w, "dlq") /\ UNCHANGED attempt
         \/ GoTo(w, "dupAck") /\ UNCHANGED attempt
         \/ /\ attempt' = [attempt EXCEPT ![w] = @ + 1]
            /\ attempt[w] < MaxRetries /\ pc' = pc
  BY DEF SkipUnparseable, Retry, Duplicate, AttemptsLeft
<1>2. attempt' \in [Workers -> 1..MaxRetries]
  BY <1>1, WorkerAssumption DEF TypeInv, TypeOK
<1>3. /\ pc' \in [Workers -> PcLabels] /\ pc'[w] # "commit" /\ pc'[w] # "off"
      /\ \A v \in Workers \ {w} : pc'[v] = pc[v]
  BY <1>1, GoToLabel DEF TypeInv, TypeOK, PcLabels
<1>4. TypeOK'
  BY <1>1, <1>2, <1>3 DEF TypeInv, TypeOK
<1>5. next[w] \in 1..last[w] /\ last[w] <= cursor
  BY <1>1 DEF TypeInv, BatchInv, Busy
<1>6. GroupInv' /\ BatchInv'
  BY <1>1, <1>3, <1>5, LocalTypeInv DEF Running, TypeInv, TypeOK
<1> QED
  BY <1>4, <1>6 DEF TypeInv

LEMMA CacheTyped ==
  ASSUME TypeInv, NEW i \in 1..cursor, IsParseable(i)
  PROVE  /\ CacheSet(i) \in [Imeis -> 0..cursor]
         /\ CacheAfter(i) \in [Imeis -> 0..cursor]
<1>1. Msg(i) \in Messages /\ i \in 0..cursor /\ 0 \in 0..cursor
  BY DEF TypeInv, TypeOK, Msg, IsParseable
<1>2. Msg(i).imei \in Imeis
  BY <1>1, WorkerAssumption DEF Contract
<1> QED
  BY <1>1, <1>2 DEF CacheSet, CacheAfter, TypeInv, TypeOK

\* Where the current entry of a busy worker is.
LEMMA Current ==
  ASSUME TypeInv, NEW w \in Workers, pc[w] \in Busy
  PROVE  /\ next[w] \in 1..last[w] /\ last[w] <= cursor
         /\ next[w] \in 1..cursor /\ next[w] \in 1..Len(stream)
         /\ next[w] \in Nat /\ last[w] \in Nat /\ cursor \in Nat
  BY DEF TypeInv, BatchInv, TypeOK

LEMMA HandleMessageTypeInv ==
  ASSUME TypeInv, NEW w \in Workers, Handle(w) \/ HandleRaises(w)
  PROVE  TypeInv'
<1> USE DEF redisVars, dbVars
<1>1. /\ UNCHANGED <<redisVars, dlq, dbVars, next, last, attempt>>
      /\ pc[w] = "handle" /\ IsParseable(next[w])
      /\ GoTo(w, "commit") \/ GoTo(w, "dlq")
      /\ cache' \in {cache, CacheSet(next[w]), CacheAfter(next[w])}
      /\ found' = found \/ \E r \in BOOLEAN : found' = [found EXCEPT ![w] = r]
  BY DEF Handle, HandleRaises, OnError
<1>2. /\ next[w] \in 1..last[w] /\ last[w] <= cursor /\ next[w] \in 1..cursor
  BY <1>1, Current DEF Busy
<1>3. cache' \in [Imeis -> 0..cursor]
  BY <1>1, <1>2, CacheTyped DEF TypeInv, TypeOK
<1>4. /\ pc' \in [Workers -> PcLabels] /\ pc'[w] # "off"
      /\ \A v \in Workers \ {w} : pc'[v] = pc[v]
  BY <1>1, GoToLabel DEF TypeInv, PcLabels
<1>5. found' \in [Workers -> BOOLEAN]
  BY <1>1 DEF TypeInv, TypeOK
<1>6. TypeOK'
  BY <1>1, <1>3, <1>4, <1>5 DEF TypeInv, TypeOK
<1>7. GroupInv' /\ BatchInv'
  BY <1>1, <1>2, <1>4, LocalTypeInv DEF Running, TypeInv, TypeOK
<1> QED
  BY <1>6, <1>7 DEF TypeInv

LEMMA PersistTyped ==
  ASSUME TypeInv, NEW w \in Workers, pc[w] = "commit", Persist(w)
  PROVE  /\ processed' \subseteq {DedupKey(m) : m \in Messages}
         /\ rows' \subseteq 1..cursor
         /\ device' \in [Imeis -> [seen : 0..cursor, pos : 0..cursor]]
<1> DEFINE i == next[w]
<1>1. i \in 1..cursor /\ i \in 0..cursor /\ i \in 1..Len(stream)
  BY Current DEF Busy
<1>2. Msg(i) \in Messages
  BY <1>1 DEF TypeInv, TypeOK, BatchInv, Busy, Msg, IsParseable
<1>3. processed' \subseteq {DedupKey(m) : m \in Messages}
  BY <1>2 DEF Persist, TypeInv, TypeOK
<1>4. rows' \subseteq 1..cursor
  BY <1>1 DEF Persist, TypeInv, TypeOK
<1>5. device' \in [Imeis -> [seen : 0..cursor, pos : 0..cursor]]
  <2>1. Msg(i).imei \in Imeis
    BY <1>2, WorkerAssumption DEF Contract
  <2>2. DeviceAfter(i, device[Msg(i).imei]) \in [seen : 0..cursor, pos : 0..cursor]
    BY <1>1, <2>1 DEF DeviceAfter, TypeInv, TypeOK
  <2> QED
    BY <2>1, <2>2 DEF Persist, TypeInv, TypeOK
<1> QED
  BY <1>3, <1>4, <1>5

LEMMA CommitTypeInv ==
  ASSUME TypeInv, NEW w \in Workers, Commit(w)
  PROVE  TypeInv'
<1> USE DEF redisVars
<1>1. /\ UNCHANGED <<redisVars, dlq, cache, next, last, attempt, found>>
      /\ pc[w] = "commit"
      /\ GoTo(w, "ack") \/ GoTo(w, "dlq")
      /\ Persist(w) \/ UNCHANGED dbVars
  BY DEF Commit, Rollback, OnError
<1>2. next[w] \in 1..last[w] /\ last[w] <= cursor
  BY <1>1, Current DEF Busy
<1>3. /\ processed' \subseteq {DedupKey(m) : m \in Messages}
      /\ rows' \subseteq 1..cursor
      /\ device' \in [Imeis -> [seen : 0..cursor, pos : 0..cursor]]
  BY <1>1, PersistTyped DEF TypeInv, TypeOK, dbVars
<1>4. /\ pc' \in [Workers -> PcLabels] /\ pc'[w] \in {"ack", "dlq"}
      /\ \A v \in Workers \ {w} : pc'[v] = pc[v]
  BY <1>1, GoToLabel DEF TypeInv, PcLabels
<1>5. TypeOK'
  BY <1>1, <1>3, <1>4 DEF TypeInv, TypeOK
<1>6. GroupInv' /\ BatchInv'
  BY <1>1, <1>2, <1>4, LocalTypeInv DEF Running, TypeInv, TypeOK
<1> QED
  BY <1>5, <1>6 DEF TypeInv

LEMMA NextEntryTyped ==
  ASSUME TypeInv, NEW w \in Workers, pc[w] \in Busy, NextEntry(w),
         last' = last
  PROVE  /\ pc' \in [Workers -> PcLabels] /\ pc'[w] \in {"handle", "poll"}
         /\ next' \in [Workers -> Nat]
         /\ attempt' \in [Workers -> 1..MaxRetries]
         /\ \A v \in Workers \ {w} : pc'[v] = pc[v] /\ next'[v] = next[v]
         /\ pc'[w] \in Busy => next'[w] \in 1..last[w]
<1>1. /\ next[w] \in 1..last[w] /\ last[w] \in Nat /\ next[w] \in Nat
  BY Current
<1>2. /\ next' = [next EXCEPT ![w] = next[w] + 1]
      /\ attempt' = [attempt EXCEPT ![w] = 1]
      /\ IF next[w] < last[w] THEN GoTo(w, "handle") ELSE GoTo(w, "poll")
  BY DEF NextEntry, MoreInBatch
<1>3. /\ pc' \in [Workers -> PcLabels]
      /\ pc'[w] = IF next[w] < last[w] THEN "handle" ELSE "poll"
      /\ \A v \in Workers \ {w} : pc'[v] = pc[v]
  BY <1>2, GoToLabel DEF TypeInv, PcLabels
<1>4. /\ next' \in [Workers -> Nat] /\ next'[w] = next[w] + 1
      /\ \A v \in Workers \ {w} : next'[v] = next[v]
  BY <1>1, <1>2 DEF TypeInv, TypeOK
<1>5. attempt' \in [Workers -> 1..MaxRetries]
  BY <1>2, WorkerAssumption DEF TypeInv, TypeOK
<1> QED
  BY <1>1, <1>3, <1>4, <1>5 DEF Busy

LEMMA ConsumerDiesTyped ==
  ASSUME TypeInv, NEW w \in Workers, ConsumerDies(w)
  PROVE  /\ pc' \in [Workers -> PcLabels] /\ pc'[w] = "dead"
         /\ \A v \in Workers \ {w} : pc'[v] = pc[v]
         /\ UNCHANGED <<next, attempt>>
  BY GoToLabel DEF ConsumerDies, TypeInv, PcLabels

LEMMA AckTypeInv ==
  ASSUME TypeInv, NEW w \in Workers, Ack(w) \/ AckInHandler(w)
  PROVE  TypeInv'
<1> USE DEF dbVars
<1>1. /\ UNCHANGED <<stream, trimmed, hasGroup, cursor, dlq, dbVars, cache,
                     last, found>>
      /\ pc[w] \in Busy /\ pc[w] # "off"
      /\ XAck(next[w]) \/ UNCHANGED <<pel, acked>>
      /\ \/ NextEntry(w)
         \/ ConsumerDies(w)
         \/ GoTo(w, "dlq") /\ UNCHANGED <<next, attempt>>
  BY DEF Ack, AckInHandler, OnError, Busy
<1>2. /\ next[w] \in 1..last[w] /\ last[w] <= cursor /\ next[w] \in 1..cursor
  BY <1>1, Current
<1>3. pel' \subseteq 1..cursor /\ acked' \subseteq 1..cursor
  BY <1>1, <1>2 DEF XAck, TypeInv, TypeOK
<1>4. /\ pc' \in [Workers -> PcLabels] /\ pc'[w] # "commit"
      /\ next' \in [Workers -> Nat]
      /\ attempt' \in [Workers -> 1..MaxRetries]
      /\ \A v \in Workers \ {w} : pc'[v] = pc[v] /\ next'[v] = next[v]
      /\ pc'[w] \in Busy => next'[w] \in 1..last[w]
  <2>1. CASE NextEntry(w)
    BY <1>1, <2>1, NextEntryTyped
  <2>2. CASE ConsumerDies(w)
    BY <1>1, <2>2, ConsumerDiesTyped DEF Busy, TypeInv, TypeOK
  <2>3. CASE GoTo(w, "dlq") /\ UNCHANGED <<next, attempt>>
    BY <1>1, <1>2, <2>3, GoToLabel DEF TypeInv, TypeOK, PcLabels
  <2> QED
    BY <1>1, <2>1, <2>2, <2>3
<1>5. TypeOK'
  BY <1>1, <1>3, <1>4 DEF TypeInv, TypeOK
<1>6. GroupInv' /\ BatchInv'
  BY <1>1, <1>2, <1>4, LocalTypeInv DEF Running, Busy, TypeInv, TypeOK
<1> QED
  BY <1>5, <1>6 DEF TypeInv

LEMMA SendToDlqTypeInv ==
  ASSUME TypeInv, NEW w \in Workers, SendToDlq(w)
  PROVE  TypeInv'
<1> USE DEF redisVars, dbVars
<1>1. /\ UNCHANGED <<redisVars, dbVars, cache, last, found, next, attempt>>
      /\ pc[w] = "dlq"
      /\ \/ dlq' = Append(dlq, [id |-> next[w], retries |-> attempt[w]])
         \/ dlq' = dlq
      /\ GoTo(w, "dlqAck") \/ ConsumerDies(w)
  BY DEF SendToDlq, ConsumerDies
<1>2. /\ next[w] \in 1..last[w] /\ last[w] <= cursor /\ next[w] \in 1..cursor
  BY <1>1, Current DEF Busy
<1>3. dlq' \in Seq([id : 1..cursor, retries : 1..MaxRetries])
  <2> DEFINE Dead == [id : 1..cursor, retries : 1..MaxRetries]
             entry == [id |-> next[w], retries |-> attempt[w]]
  <2>1. entry \in Dead /\ dlq \in Seq(Dead)
    BY <1>2 DEF TypeInv, TypeOK
  <2>2. dlq' = Append(dlq, entry) \/ dlq' = dlq
    BY <1>1
  <2> HIDE DEF Dead, entry
  <2>3. dlq' \in Seq(Dead)
    BY <2>1, <2>2, AppendKeeps
  <2> QED
    BY <2>3 DEF Dead
<1>4. /\ pc' \in [Workers -> PcLabels] /\ pc'[w] \in {"dlqAck", "dead"}
      /\ \A v \in Workers \ {w} : pc'[v] = pc[v]
  BY <1>1, GoToLabel, ConsumerDiesTyped DEF TypeInv, PcLabels
<1>5. TypeOK'
  BY <1>1, <1>3, <1>4 DEF TypeInv, TypeOK
<1>6. GroupInv' /\ BatchInv'
  BY <1>1, <1>2, <1>4, LocalTypeInv DEF Running, TypeInv, TypeOK
<1> QED
  BY <1>5, <1>6 DEF TypeInv

LEMMA CrashTypeInv ==
  ASSUME TypeInv, NEW w \in Workers, Crash(w)
  PROVE  TypeInv'
<1> USE DEF redisVars, dbVars
<1>1. /\ pc' \in [Workers -> PcLabels] /\ pc'[w] = "off"
      /\ \A v \in Workers \ {w} : pc'[v] = pc[v]
  BY GoToLabel DEF Crash, TypeInv, PcLabels
<1>2. /\ next' \in [Workers -> Nat] /\ last' \in [Workers -> Nat]
      /\ \A v \in Workers \ {w} : next'[v] = next[v] /\ last'[v] = last[v]
  BY DEF Crash, TypeInv, TypeOK
<1>3. attempt' \in [Workers -> 1..MaxRetries]
  BY WorkerAssumption DEF Crash, TypeInv, TypeOK
<1>4. TypeOK'
  BY <1>1, <1>2, <1>3 DEF Crash, TypeInv, TypeOK
<1>5. GroupInv' /\ BatchInv'
  BY <1>1, <1>2, LocalTypeInv DEF Crash, Running, Busy
<1> QED
  BY <1>4, <1>5 DEF TypeInv

LEMMA CacheExpiresTypeInv ==
  ASSUME TypeInv, NEW d \in Imeis, CacheExpires(d)
  PROVE  TypeInv'
<1> USE DEF CacheExpires, redisVars, dbVars, workerVars
<1>1. cache' \in [Imeis -> 0..cursor]
  BY DEF TypeInv, TypeOK
<1>2. TypeOK'
  BY <1>1 DEF TypeInv, TypeOK
<1>3. GroupInv' /\ BatchInv'
  BY DEF TypeInv, GroupInv, BatchInv, Running, IsParseable
<1> QED
  BY <1>2, <1>3 DEF TypeInv

LEMMA NextTypeInv == TypeInv /\ [Next]_vars => TypeInv'
<1> SUFFICES ASSUME TypeInv, [Next]_vars PROVE TypeInv'
  OBVIOUS
<1>1. ASSUME NEW w \in Workers, Step(w) PROVE TypeInv'
  BY <1>1, ReadBatchTypeInv, HandleTypeInv, HandleMessageTypeInv,
     CommitTypeInv, AckTypeInv, SendToDlqTypeInv DEF Step
<1>2. CASE UNCHANGED vars
  BY <1>2 DEF vars, redisVars, dbVars, workerVars, TypeInv, TypeOK, GroupInv,
              BatchInv, Running, IsParseable
<1> QED
  BY <1>1, <1>2, PublishTypeInv, StartTypeInv, CrashTypeInv,
     CacheExpiresTypeInv DEF Next

(* Every variable keeps the range TypeOK gives it, in every behaviour.       *)
THEOREM TypeCorrect == Spec => []TypeOK
<1>1. TypeInv => TypeOK
  BY DEF TypeInv
<1> QED
  BY <1>1, InitTypeInv, NextTypeInv, PTL DEF Spec

-----------------------------------------------------------------------------
(* The acknowledgement invariant. What accounts for an entry only grows.     *)
AckLabels == {"ack", "dupAck", "dlqAck"}

StreamExtends ==
  /\ Len(stream) <= Len(stream') /\ Len(stream') \in Nat
  /\ \A i \in 1..Len(stream) : stream'[i] = stream[i]

LEMMA AccountedGrows ==
  ASSUME StreamExtends, processed \subseteq processed', DlqIds \subseteq DlqIds',
         NEW i \in 1..Len(stream), Accounted(i)
  PROVE  Accounted(i)'
<1>1. stream'[i] = stream[i]
  BY DEF StreamExtends
<1> QED
  BY <1>1 DEF Accounted, IsParseable, Key, Msg

\* What a step of worker w must do, and no more, to keep the invariant.
LEMMA AckStep ==
  ASSUME TypeInv, AckInv, NEW w \in Workers,
         StreamExtends, processed \subseteq processed', DlqIds \subseteq DlqIds',
         \A v \in Workers \ {w} : pc'[v] = pc[v] /\ next'[v] = next[v],
         pc'[w] \in AckLabels => Accounted(next[w])',
         \/ acked' = acked
         \/ acked' = acked \cup {next[w]} /\ pc[w] \in AckLabels
  PROVE  AckInv'
<1>1. \A i \in 1..Len(stream) : Accounted(i) => Accounted(i)'
  BY AccountedGrows
<1>2. \A v \in Workers : pc[v] \in AckLabels =>
        next[v] \in 1..Len(stream) /\ Accounted(next[v])
  BY Current DEF AckInv, AboutToAck, AckLabels, Busy
<1>3. AboutToAck'
  <2> SUFFICES ASSUME NEW v \in Workers, pc'[v] \in AckLabels
               PROVE  Accounted(next[v])'
    BY DEF AboutToAck, AckLabels
  <2>1. CASE v = w
    BY <2>1
  <2>2. CASE v # w
    <3>1. next'[v] = next[v] /\ pc[v] \in AckLabels
      BY <2>2
    <3>2. PICK n \in 1..Len(stream) : n = next[v] /\ Accounted(n)
      BY <1>2, <3>1
    <3>3. n = next'[v] /\ Accounted(n)'
      BY <1>1, <3>1, <3>2
    <3> QED
      BY <3>3 DEF Accounted, IsParseable, Key, Msg
  <2> QED
    BY <2>1, <2>2
<1>4. AckedIsAccounted'
  <2> SUFFICES ASSUME NEW i \in acked' PROVE Accounted(i)'
    BY DEF AckedIsAccounted
  <2>1. CASE i \in acked
    <3>1. i \in 1..Len(stream) /\ Accounted(i)
      BY <2>1 DEF AckInv, AckedIsAccounted, TypeInv, TypeOK
    <3> QED
      BY <1>1, <3>1
  <2>2. CASE i = next[w] /\ pc[w] \in AckLabels
    BY <1>1, <1>2, <2>2
  <2> QED
    BY <2>1, <2>2
<1> QED
  BY <1>3, <1>4 DEF AckInv

\* A step that leaves the stream alone extends it.
LEMMA StreamStays == ASSUME TypeInv, stream' = stream PROVE StreamExtends
  BY DEF TypeInv, TypeOK, StreamExtends

LEMMA InitAckInv == Init => AckInv
  BY DEF Init, AckInv, AboutToAck, AckedIsAccounted

LEMMA PublishAckInv ==
  ASSUME TypeInv, AckInv, NEW m \in Messages \cup {Unparseable}, Publish(m)
  PROVE  AckInv'
<1>1. StreamExtends
  BY AppendKeeps DEF Publish, TypeInv, TypeOK, StreamExtends
<1>2. UNCHANGED <<processed, dlq, acked, pc, next>>
  BY DEF Publish, dbVars, workerVars
<1>3. \A i \in 1..Len(stream) : Accounted(i) => Accounted(i)'
  BY <1>1, <1>2, AccountedGrows DEF DlqIds
<1>4. \A v \in Workers : pc[v] \in AckLabels =>
        next[v] \in 1..Len(stream) /\ Accounted(next[v])
  BY Current DEF AckInv, AboutToAck, AckLabels, Busy
<1>5. ASSUME NEW v \in Workers, pc[v] \in AckLabels
      PROVE  Accounted(next[v])'
  <2>1. PICK n \in 1..Len(stream) : n = next[v] /\ Accounted(n)
    BY <1>4, <1>5
  <2>2. n = next'[v] /\ Accounted(n)'
    BY <1>2, <1>3, <2>1
  <2> QED
    BY <2>2 DEF Accounted, IsParseable, Key, Msg
<1>6. \A i \in acked : Accounted(i)'
  BY <1>3 DEF AckInv, AckedIsAccounted, TypeInv, TypeOK
<1> QED
  BY <1>2, <1>5, <1>6 DEF AckInv, AboutToAck, AckedIsAccounted, AckLabels

(* The steps of a worker that reach no acknowledgement and account for       *)
(* nothing: they leave the entries as they are.                              *)
LEMMA QuietAckInv ==
  ASSUME TypeInv, AckInv, NEW w \in Workers,
         \/ Start(w) \/ ReadBatch(w) \/ Retry(w) \/ Handle(w)
         \/ HandleRaises(w) \/ Crash(w)
  PROVE  AckInv'
<1>1. UNCHANGED <<stream, processed, dlq, acked>>
  BY DEF Start, ReadBatch, Retry, Handle, HandleRaises, Crash, redisVars, dbVars
<1>2. pc' = pc \/ \E label \in PcLabels \ AckLabels : GoTo(w, label)
  BY DEF Start, ReadBatch, Retry, Handle, HandleRaises, Crash, OnError, GoTo,
         PcLabels, AckLabels
<1>3. \A v \in Workers \ {w} : pc'[v] = pc[v] /\ next'[v] = next[v]
  BY <1>2, GoToLabel DEF TypeInv, TypeOK, Start, ReadBatch, Retry, Handle,
     HandleRaises, Crash
<1>4. pc'[w] \notin AckLabels
  <2>1. CASE pc' = pc
    BY <2>1 DEF Start, ReadBatch, Retry, Handle, HandleRaises, Crash, GoTo,
                AckLabels, TypeInv, TypeOK
  <2>2. CASE \E label \in PcLabels \ AckLabels : GoTo(w, label)
    BY <2>2, GoToLabel DEF TypeInv
  <2> QED
    BY <1>2, <2>1, <2>2
<1> QED
  BY <1>1, <1>3, <1>4, AckStep, StreamStays DEF DlqIds

(* The steps that lead to an acknowledgement: nothing to process, or the key *)
(* is in processed_events.                                                   *)
LEMMA SkipAckInv ==
  ASSUME TypeInv, AckInv, NEW w \in Workers, SkipUnparseable(w) \/ Duplicate(w)
  PROVE  AckInv'
<1>1. UNCHANGED <<stream, processed, dlq, acked, next>>
  BY DEF SkipUnparseable, Duplicate, redisVars, dbVars
<1>2. \A v \in Workers \ {w} : pc'[v] = pc[v]
  BY GoToLabel DEF SkipUnparseable, Duplicate, TypeInv, PcLabels
<1>3. Accounted(next[w])'
  BY <1>1 DEF SkipUnparseable, Duplicate, Accounted, IsParseable, Key, Msg
<1> QED
  BY <1>1, <1>2, <1>3, AckStep, StreamStays DEF DlqIds

LEMMA CommitAckInv ==
  ASSUME TypeInv, AckInv, NEW w \in Workers, Commit(w)
  PROVE  AckInv'
<1>1. UNCHANGED <<stream, dlq, acked, next>> /\ processed \subseteq processed'
  BY DEF Commit, Persist, Rollback, redisVars, dbVars
<1>2. \A v \in Workers \ {w} : pc'[v] = pc[v]
  BY GoToLabel DEF Commit, OnError, TypeInv, PcLabels
<1>3. ASSUME pc'[w] \in AckLabels PROVE Accounted(next[w])'
  <2>1. GoTo(w, "ack") /\ Persist(w)
    BY <1>3, GoToLabel DEF Commit, OnError, TypeInv, PcLabels, AckLabels
  <2>2. DedupKey(stream[next[w]]) \in processed'
    BY <2>1 DEF Persist, Msg
  <2> QED
    BY <1>1, <2>2 DEF Accounted, Key, Msg
<1> QED
  BY <1>1, <1>2, <1>3, AckStep, StreamStays DEF DlqIds

LEMMA AckAckInv ==
  ASSUME TypeInv, AckInv, NEW w \in Workers, Ack(w) \/ AckInHandler(w)
  PROVE  AckInv'
<1>1. /\ UNCHANGED <<stream, processed, dlq, last>>
      /\ pc[w] \in AckLabels /\ pc[w] \in Busy
      /\ \/ acked' = acked
         \/ acked' = acked \cup {next[w]}
      /\ \/ NextEntry(w)
         \/ ConsumerDies(w)
         \/ GoTo(w, "dlq") /\ UNCHANGED <<next, attempt>>
  BY DEF Ack, AckInHandler, XAck, OnError, AckLabels, Busy, dbVars
<1>2. /\ pc'[w] \notin AckLabels
      /\ \A v \in Workers \ {w} : pc'[v] = pc[v] /\ next'[v] = next[v]
  BY <1>1, NextEntryTyped, ConsumerDiesTyped, GoToLabel
     DEF AckLabels, TypeInv, PcLabels
<1> QED
  BY <1>1, <1>2, AckStep, StreamStays DEF DlqIds

LEMMA SendToDlqAckInv ==
  ASSUME TypeInv, AckInv, NEW w \in Workers, SendToDlq(w)
  PROVE  AckInv'
<1>1. /\ UNCHANGED <<stream, processed, acked, next>>
      /\ GoTo(w, "dlqAck") \/ ConsumerDies(w)
  BY DEF SendToDlq, ConsumerDies, redisVars, dbVars
<1>2. \A v \in Workers \ {w} : pc'[v] = pc[v]
  BY <1>1, GoToLabel, ConsumerDiesTyped DEF TypeInv, PcLabels
<1> DEFINE entry == [id |-> next[w], retries |-> attempt[w]]
<1>3. ASSUME dlq' = Append(dlq, entry)
      PROVE  DlqIds \subseteq DlqIds' /\ next[w] \in DlqIds'
  <2> DEFINE Dead == [id : 1..cursor, retries : 1..MaxRetries]
  <2>1. entry \in Dead /\ dlq \in Seq(Dead)
    BY Current DEF SendToDlq, Busy, TypeInv, TypeOK
  <2>2. entry.id = next[w]
    OBVIOUS
  <2> HIDE DEF Dead, entry
  <2>3. /\ \A n \in DOMAIN dlq : n \in DOMAIN dlq' /\ dlq'[n] = dlq[n]
        /\ Len(dlq) + 1 \in DOMAIN dlq' /\ dlq'[Len(dlq) + 1] = entry
    BY <1>3, <2>1, AppendKeeps
  <2> QED
    BY <2>2, <2>3 DEF DlqIds
<1>4. \/ DlqIds' = DlqIds
      \/ DlqIds \subseteq DlqIds' /\ next[w] \in DlqIds'
  BY <1>3 DEF SendToDlq, DlqIds
<1>5. ASSUME pc'[w] \in AckLabels PROVE Accounted(next[w])'
  <2>1. GoTo(w, "dlqAck") /\ dlq' = Append(dlq, entry)
    BY <1>5, GoToLabel, ConsumerDiesTyped
       DEF SendToDlq, TypeInv, PcLabels, AckLabels
  <2> QED
    BY <1>1, <1>3, <2>1 DEF Accounted
<1> QED
  BY <1>1, <1>2, <1>4, <1>5, AckStep, StreamStays

LEMMA CacheExpiresAckInv ==
  ASSUME TypeInv, AckInv, NEW d \in Imeis, CacheExpires(d)
  PROVE  AckInv'
  BY DEF CacheExpires, redisVars, dbVars, workerVars, AckInv, AboutToAck,
         AckedIsAccounted, Accounted, IsParseable, Key, Msg, DlqIds

LEMMA NextAckInv == TypeInv /\ AckInv /\ [Next]_vars => AckInv'
<1> SUFFICES ASSUME TypeInv, AckInv, [Next]_vars PROVE AckInv'
  OBVIOUS
<1>1. ASSUME NEW w \in Workers, Step(w) PROVE AckInv'
  BY <1>1, QuietAckInv, SkipAckInv, CommitAckInv, AckAckInv, SendToDlqAckInv
     DEF Step
<1>2. CASE UNCHANGED vars
  BY <1>2 DEF vars, redisVars, dbVars, workerVars, AckInv, AboutToAck,
              AckedIsAccounted, Accounted, IsParseable, Key, Msg, DlqIds
<1> QED
  BY <1>1, <1>2, PublishAckInv, QuietAckInv, CacheExpiresAckInv DEF Next

(* No acknowledged entry is lost: whatever fails or crashes, XACK follows a  *)
(* commit of the entry's key or a stored dead letter.                        *)
THEOREM AckSafety == Spec => []AckedIsAccounted
<1>1. AckInv => AckedIsAccounted
  BY DEF AckInv
<1> QED
  BY <1>1, InitTypeInv, InitAckInv, NextTypeInv, NextAckInv, PTL DEF Spec

-----------------------------------------------------------------------------
(* Idempotence. Only a commit adds an effect, and only under a free key,     *)
(* which it takes in the same transaction.                                   *)
LEMMA InitOneEffect == Init => OneEffectPerKey
  BY DEF Init, OneEffectPerKey

LEMMA NextOneEffect ==
  TypeInv /\ OneEffectPerKey /\ [Next]_vars => OneEffectPerKey'
<1> SUFFICES ASSUME TypeInv, OneEffectPerKey, [Next]_vars
             PROVE  OneEffectPerKey'
  OBVIOUS
<1>1. \A i \in rows : i \in 1..Len(stream)
  BY DEF TypeInv, TypeOK
<1>2. \/ UNCHANGED <<stream, processed, rows>>
      \/ \E m \in Messages \cup {Unparseable} : Publish(m)
      \/ \E w \in Workers : Commit(w)
  <2>1. ASSUME NEW w \in Workers, Start(w) \/ Crash(w)
        PROVE  UNCHANGED <<stream, processed, rows>>
    BY <2>1 DEF Start, Crash, redisVars, dbVars
  <2>2. ASSUME NEW w \in Workers, Step(w), ~Commit(w)
        PROVE  UNCHANGED <<stream, processed, rows>>
    <3>1. CASE ReadBatch(w)
      BY <3>1 DEF ReadBatch, dbVars
    <3>2. CASE SkipUnparseable(w) \/ Retry(w) \/ Duplicate(w)
      BY <3>2 DEF SkipUnparseable, Retry, Duplicate, redisVars, dbVars
    <3>3. CASE Handle(w) \/ HandleRaises(w)
      BY <3>3 DEF Handle, HandleRaises, redisVars, dbVars
    <3>4. CASE Ack(w) \/ AckInHandler(w) \/ SendToDlq(w)
      BY <3>4 DEF Ack, AckInHandler, SendToDlq, redisVars, dbVars
    <3> QED
      BY <2>2, <3>1, <3>2, <3>3, <3>4 DEF Step
  <2>3. ASSUME NEW d \in Imeis, CacheExpires(d)
        PROVE  UNCHANGED <<stream, processed, rows>>
    BY <2>3 DEF CacheExpires, redisVars, dbVars
  <2>4. CASE UNCHANGED vars
    BY <2>4 DEF vars, redisVars, dbVars
  <2> QED
    BY <2>1, <2>2, <2>3, <2>4 DEF Next
<1>3. CASE UNCHANGED <<stream, processed, rows>>
  BY <1>3 DEF OneEffectPerKey, Key, Msg
<1>4. ASSUME NEW m \in Messages \cup {Unparseable}, Publish(m)
      PROVE  OneEffectPerKey'
  <2>1. UNCHANGED <<processed, rows>>
    BY <1>4 DEF Publish, dbVars
  <2>2. \A i \in 1..Len(stream) : stream'[i] = stream[i]
    BY <1>4, AppendKeeps DEF Publish, TypeInv, TypeOK
  <2> QED
    BY <1>1, <2>1, <2>2 DEF OneEffectPerKey, Key, Msg
<1>5. ASSUME NEW w \in Workers, Commit(w)
      PROVE  OneEffectPerKey'
  <2>1. stream' = stream /\ next' = next
    BY <1>5 DEF Commit, redisVars
  <2>2. CASE KeyIsFree(w) /\ Persist(w)
    <3>1. /\ processed' = processed \cup {Key(next[w])}
          /\ rows' = rows \/ rows' = rows \cup {next[w]}
          /\ Key(next[w]) \notin processed
      BY <2>2 DEF KeyIsFree, Persist, Key
    <3> QED
      BY <2>1, <3>1 DEF OneEffectPerKey, Key, Msg
  <2>3. CASE Rollback(w)
    BY <2>1, <2>3 DEF Rollback, dbVars, OneEffectPerKey, Key, Msg
  <2> QED
    BY <1>5, <2>2, <2>3 DEF Commit
<1> QED
  BY <1>2, <1>3, <1>4, <1>5

(* Two entries with one dedup key never both take effect, for any number of  *)
(* consumers and any interleaving of theirs.                                 *)
THEOREM Idempotence == Spec => []OneEffectPerKey
  BY InitTypeInv, InitOneEffect, NextTypeInv, NextOneEffect, PTL DEF Spec

-----------------------------------------------------------------------------
(* Who owns the entries of the stream: consumers never share one, and        *)
(* TelemetryWorker implements AtMostOnceDelivery.                            *)

(* What a worker has not begun to settle: its batch but for the current      *)
(* entry, and that one too until its transaction ends.                       *)
Untouched(w) ==
  IF pc[w] \in {"handle", "commit"} THEN Held(w) ELSE Held(w) \ {next[w]}

(* The entries something became of.                                          *)
Touched == acked \cup rows \cup DlqIds

(* A worker without a batch holds nothing; no two hold the same entry; what  *)
(* one has not begun to settle is pending and nothing became of it.          *)
OwnerInv ==
  /\ \A w \in Workers : pc[w] \in {"off", "poll"} => last[w] < next[w]
  /\ \A w, v \in Workers : w # v => Held(w) \cap Held(v) = {}
  /\ \A w \in Workers : Untouched(w) \subseteq pel \ Touched

(* Only worker w moves.                                                      *)
OnlyMoves(w) ==
  \A v \in Workers \ {w} :
    pc'[v] = pc[v] /\ next'[v] = next[v] /\ last'[v] = last[v]

-----------------------------------------------------------------------------
\* What a worker holds was handed out.
LEMMA HeldIsHandedOut ==
  ASSUME TypeInv, OwnerInv, NEW w \in Workers
  PROVE  Held(w) \subseteq 1..cursor
<1>1. CASE pc[w] \in Busy
  <2>1. /\ next[w] \in 1..last[w] /\ last[w] <= cursor
        /\ next[w] \in Nat /\ last[w] \in Nat /\ cursor \in Nat
    BY <1>1, Current
  <2> QED
    BY <2>1 DEF Held
<1>2. CASE pc[w] = "poll"
  <2>1. last[w] < next[w] /\ next[w] \in Nat /\ last[w] \in Nat
    BY <1>2 DEF OwnerInv, TypeInv, TypeOK
  <2>2. next[w]..last[w] = {}
    BY <2>1
  <2> QED
    BY <2>2 DEF Held
<1>3. CASE ~Running(w)
  BY <1>3 DEF Held
<1> QED
  BY <1>1, <1>2, <1>3 DEF TypeInv, TypeOK, PcLabels, Busy, Running

\* A worker without a batch holds nothing.
LEMMA IdleHoldsNothing ==
  ASSUME TypeInv, OwnerInv, NEW w \in Workers, pc[w] \in {"off", "dead", "poll"}
  PROVE  Held(w) = {}
<1>1. CASE pc[w] = "poll"
  <2>1. last[w] < next[w] /\ next[w] \in Nat /\ last[w] \in Nat
    BY <1>1 DEF OwnerInv, TypeInv, TypeOK
  <2> QED
    BY <2>1 DEF Held
<1> QED
  BY <1>1 DEF Held, Running

\* A busy worker holds its current entry.
LEMMA BusyHoldsCurrent ==
  ASSUME TypeInv, NEW w \in Workers, pc[w] \in Busy
  PROVE  next[w] \in Held(w) /\ Held(w) = next[w]..last[w]
<1>1. next[w] \in 1..last[w] /\ next[w] \in Nat /\ last[w] \in Nat
  BY Current
<1> QED
  BY <1>1 DEF Held, Running, Busy

\* What a step of w must respect: it may settle its current entry, if that is
\* no longer counted as untouched, and gives up entries but takes none.
LEMMA OwnerStep ==
  ASSUME TypeInv, OwnerInv, NEW w \in Workers, OnlyMoves(w), NEW C,
         pc'[w] \in {"off", "poll"} => last'[w] < next'[w],
         Held(w)' \subseteq Held(w), Untouched(w)' \subseteq Untouched(w),
         C \subseteq Held(w), C \cap Untouched(w)' = {},
         pel \ C \subseteq pel', Touched' \subseteq Touched \cup C
  PROVE  OwnerInv'
<1>1. \A v \in Workers \ {w} : Held(v)' = Held(v) /\ Untouched(v)' = Untouched(v)
  BY DEF OnlyMoves, Held, Running, Untouched
<1>2. \A v \in Workers : pc'[v] \in {"off", "poll"} => last'[v] < next'[v]
  BY DEF OnlyMoves, OwnerInv
<1>3. \A u, v \in Workers : u # v => Held(u)' \cap Held(v)' = {}
  BY <1>1 DEF OwnerInv
<1>4. ASSUME NEW v \in Workers
      PROVE  Untouched(v)' \subseteq pel' \ Touched'
  <2>1. CASE v = w
    BY <2>1 DEF OwnerInv
  <2>2. CASE v # w
    <3>1. Untouched(v) \subseteq Held(v) /\ Held(v) \cap Held(w) = {}
      BY <2>2 DEF OwnerInv, Untouched
    <3>2. Untouched(v) \subseteq pel \ Touched
      BY DEF OwnerInv
    <3> QED
      BY <1>1, <2>2, <3>1, <3>2
  <2> QED
    BY <2>1, <2>2
<1> QED
  BY <1>2, <1>3, <1>4 DEF OwnerInv

LEMMA QuietStep ==
  ASSUME TypeInv, OwnerInv, NEW w \in Workers, OnlyMoves(w),
         pc'[w] \in {"off", "poll"} => last'[w] < next'[w],
         Held(w)' \subseteq Held(w), Untouched(w)' \subseteq Untouched(w),
         pel \subseteq pel', Touched' = Touched
  PROVE  OwnerInv'
<1> DEFINE C == {}
<1>1. /\ C \subseteq Held(w) /\ C \cap Untouched(w)' = {}
      /\ pel \ C \subseteq pel' /\ Touched' \subseteq Touched \cup C
  OBVIOUS
<1> HIDE DEF C
<1> QED
  BY <1>1, OwnerStep

\* What became of entries became of some that were handed out.
LEMMA TouchedIsHandedOut == ASSUME TypeInv PROVE Touched \subseteq 1..cursor
<1> DEFINE Dead == [id : 1..cursor, retries : 1..MaxRetries]
<1>0. dlq \in Seq(Dead)
  BY DEF TypeInv, TypeOK
<1>1. \A n \in DOMAIN dlq : dlq[n] \in Dead
  <2> HIDE DEF Dead
  <2> QED
    BY <1>0
<1>2. DlqIds \subseteq 1..cursor
  BY <1>1 DEF DlqIds
<1> QED
  BY <1>2 DEF Touched, TypeInv, TypeOK

-----------------------------------------------------------------------------
(* What the ways on from an entry do to what a worker holds.                 *)

\* It stays at its entry.
LEMMA StaysHeld ==
  ASSUME TypeInv, NEW w \in Workers, pc[w] \in Busy, NEW label \in Busy,
         GoTo(w, label), UNCHANGED <<next, last>>
  PROVE  /\ OnlyMoves(w) /\ pc'[w] = label
         /\ Held(w)' = Held(w) /\ next'[w] \in Held(w)
         /\ Untouched(w)' = IF label \in {"handle", "commit"} THEN Held(w)
                            ELSE Held(w) \ {next[w]}
<1>1. label \in PcLabels
  BY DEF Busy, PcLabels
<1>2. /\ pc'[w] = label /\ \A v \in Workers \ {w} : pc'[v] = pc[v]
  BY <1>1, GoToLabel DEF TypeInv
<1>3. Running(w) /\ Running(w)'
  BY <1>2 DEF Running, Busy
<1>4. Held(w)' = Held(w)
  BY <1>3 DEF Held
<1> QED
  BY <1>2, <1>4, BusyHoldsCurrent DEF OnlyMoves, Untouched

\* It goes on to the next one.
LEMMA NextHeld ==
  ASSUME TypeInv, NEW w \in Workers, pc[w] \in Busy, NextEntry(w), last' = last
  PROVE  /\ OnlyMoves(w)
         /\ Held(w)' = Held(w) \ {next[w]}
         /\ Untouched(w)' \subseteq Held(w) \ {next[w]}
         /\ pc'[w] \in {"off", "poll"} => last'[w] < next'[w]
<1>1. /\ next[w] \in 1..last[w] /\ next[w] \in Nat /\ last[w] \in Nat
      /\ Held(w) = next[w]..last[w]
  BY Current, BusyHoldsCurrent
<1>2. /\ pc'[w] = IF next[w] < last[w] THEN "handle" ELSE "poll"
      /\ \A v \in Workers \ {w} : pc'[v] = pc[v]
  BY GoToLabel DEF NextEntry, MoreInBatch, TypeInv, PcLabels
<1>3. /\ next'[w] = next[w] + 1
      /\ \A v \in Workers \ {w} : next'[v] = next[v]
  BY DEF NextEntry, TypeInv, TypeOK
<1>4. Held(w)' = (next[w] + 1)..last[w]
  BY <1>2, <1>3 DEF Held, Running
<1>5. Held(w)' = Held(w) \ {next[w]}
  BY <1>1, <1>4
<1>6. Untouched(w)' \subseteq Held(w)'
  BY DEF Untouched
<1> QED
  BY <1>1, <1>2, <1>3, <1>5, <1>6 DEF OnlyMoves

\* Its consumer dies.
LEMMA DeadHeld ==
  ASSUME TypeInv, NEW w \in Workers, ConsumerDies(w), last' = last
  PROVE  /\ OnlyMoves(w) /\ pc'[w] = "dead"
         /\ Held(w)' = {} /\ Untouched(w)' = {}
<1>1. pc'[w] = "dead" /\ next' = next /\ \A v \in Workers \ {w} : pc'[v] = pc[v]
  BY ConsumerDiesTyped
<1> QED
  BY <1>1 DEF OnlyMoves, Held, Running, Untouched

-----------------------------------------------------------------------------
(* What is in flight, and what the steps of the worker are to the abstract   *)
(* specification.                                                            *)
InFlight == UNION {Held(w) : w \in Workers}

Maps == [Delivery!Next]_Delivery!avars

LEMMA FlightLoses ==
  ASSUME OwnerInv, NEW w \in Workers, OnlyMoves(w), NEW S \in SUBSET Held(w),
         Held(w)' = Held(w) \ S
  PROVE  InFlight' = InFlight \ S /\ S \subseteq InFlight
<1>1. \A v \in Workers \ {w} : Held(v)' = Held(v) /\ Held(v) \cap S = {}
  BY DEF OnlyMoves, Held, Running, OwnerInv
<1> QED
  BY <1>1 DEF InFlight

LEMMA FlightStays ==
  ASSUME OwnerInv, NEW w \in Workers, OnlyMoves(w), Held(w)' = Held(w)
  PROVE  InFlight' = InFlight
<1>1. \A v \in Workers : Held(v)' = Held(v)
  BY DEF OnlyMoves, Held, Running
<1> QED
  BY <1>1 DEF InFlight

\* A step that changes nothing but what is in flight is a drop or a stutter.
LEMMA DropMaps ==
  ASSUME NEW S \in SUBSET InFlight, InFlight' = InFlight \ S,
         Len(stream') = Len(stream), UNCHANGED <<cursor, rows, acked>>
  PROVE  Maps
  BY DEF Maps, Delivery!Next, Delivery!Drop, Delivery!avars, InFlight

LEMMA StutterMaps ==
  ASSUME InFlight' = InFlight, Len(stream') = Len(stream),
         UNCHANGED <<cursor, rows, acked>>
  PROVE  Maps
  BY DEF Maps, Delivery!avars, InFlight

\* An acknowledgement settles an entry and drops the same or more.
LEMMA SettleMaps ==
  ASSUME NEW S \in SUBSET InFlight, InFlight' = InFlight \ S, NEW i \in InFlight,
         S \subseteq {i} \/ i \in S,
         acked' = acked \cup {i},
         Len(stream') = Len(stream), UNCHANGED <<cursor, rows>>
  PROVE  Maps
<1>1. CASE S \subseteq {i}
  <2>1. InFlight' \in {InFlight, InFlight \ {i}}
    BY <1>1
  <2>2. Delivery!Settle
    BY <2>1 DEF Delivery!Settle, InFlight
  <2> QED
    BY <2>2 DEF Maps, Delivery!Next
<1>2. CASE i \in S
  <2>1. Delivery!SettleAndDrop
    BY <1>2 DEF Delivery!SettleAndDrop, InFlight
  <2> QED
    BY <2>1 DEF Maps, Delivery!Next
<1> QED
  BY <1>1, <1>2

-----------------------------------------------------------------------------
(* One lemma per action: it keeps the invariant, and maps to an abstract     *)
(* step or to none.                                                          *)
LEMMA PublishOwner ==
  ASSUME TypeInv, OwnerInv, NEW m \in Messages \cup {Unparseable}, Publish(m)
  PROVE  OwnerInv' /\ Maps
<1>1. /\ UNCHANGED <<cursor, pel, acked, dlq, rows, pc, next, last>>
      /\ Len(stream') = Len(stream) + 1
  BY AppendKeeps DEF Publish, dbVars, workerVars, TypeInv, TypeOK
<1>2. \A w \in Workers : Held(w)' = Held(w) /\ Untouched(w)' = Untouched(w)
  BY <1>1 DEF Held, Running, Untouched
<1>3. Touched' = Touched /\ InFlight' = InFlight
  BY <1>1, <1>2 DEF Touched, DlqIds, InFlight
<1>4. OwnerInv'
  BY <1>1, <1>2, <1>3 DEF OwnerInv
<1>5. Delivery!Publish
  BY <1>1, <1>3 DEF Delivery!Publish, InFlight
<1> QED
  BY <1>4, <1>5 DEF Maps, Delivery!Next

LEMMA StartOwner ==
  ASSUME TypeInv, OwnerInv, NEW w \in Workers, Start(w)
  PROVE  OwnerInv' /\ Maps
<1>1. /\ UNCHANGED <<stream, cursor, pel, acked, dlq, rows, next, last>>
      /\ pc[w] = "off" /\ (GoTo(w, "poll") \/ GoTo(w, "dead"))
  BY DEF Start, GoTo, dbVars, TypeInv, GroupInv
<1>2. pc[w] = "off" /\ pc'[w] \in {"poll", "dead"} /\ OnlyMoves(w)
  BY <1>1, GoToLabel DEF Start, OnlyMoves, TypeInv, PcLabels
<1>3. last[w] < next[w] /\ Held(w) = {} /\ next[w] \in Nat /\ last[w] \in Nat
  BY <1>2, IdleHoldsNothing DEF OwnerInv, TypeInv, TypeOK
<1>4. Held(w)' = {} /\ Untouched(w)' = {}
  BY <1>1, <1>2, <1>3 DEF Held, Running, Untouched
<1>5. Touched' = Touched
  BY <1>1 DEF Touched, DlqIds
<1>6. OwnerInv'
  BY <1>1, <1>2, <1>3, <1>4, <1>5, QuietStep
<1> QED
  BY <1>1, <1>2, <1>3, <1>4, <1>6, FlightStays, StutterMaps

LEMMA ReadBatchOwner ==
  ASSUME TypeInv, OwnerInv, NEW w \in Workers, ReadBatch(w)
  PROVE  OwnerInv' /\ Maps
<1> DEFINE N == FirstNew..LastNew
<1>1. /\ UNCHANGED <<stream, acked, dlq, rows>> /\ pc[w] = "poll"
      /\ cursor' = LastNew /\ pel' = pel \cup N
  BY DEF ReadBatch, dbVars
<1>2. /\ FirstNew \in Nat /\ LastNew \in Nat /\ cursor < FirstNew
      /\ 1 <= FirstNew /\ FirstNew <= LastNew /\ LastNew <= Len(stream)
      /\ cursor \in Nat
  BY NewEntries DEF ReadBatch, TypeInv, TypeOK
<1>3. Touched' = Touched /\ Touched \cap N = {}
  <2>1. Touched \subseteq 1..cursor
    BY TouchedIsHandedOut
  <2> QED
    BY <1>1, <1>2, <2>1 DEF Touched, DlqIds
<1>4. Held(w) = {}
  BY <1>1, IdleHoldsNothing
<1>5. CASE UNCHANGED <<pc, next, last>>
  <2>1. OnlyMoves(w) /\ Held(w)' = Held(w) /\ Untouched(w)' = Untouched(w)
    BY <1>5 DEF OnlyMoves, Held, Running, Untouched
  <2>2. OwnerInv'
    BY <1>1, <1>3, <1>5, <2>1, QuietStep DEF OwnerInv
  <2>3. InFlight' = InFlight
    BY <2>1, FlightStays
  <2>4. Delivery!HandOut
    BY <1>1, <1>2, <2>3 DEF Delivery!HandOut, InFlight
  <2> QED
    BY <2>2, <2>4 DEF Maps, Delivery!Next
<1>6. CASE /\ pc' = [pc EXCEPT ![w] = "handle"]
           /\ next' = [next EXCEPT ![w] = FirstNew]
           /\ last' = [last EXCEPT ![w] = LastNew]
  <2>1. /\ OnlyMoves(w) /\ pc'[w] = "handle"
        /\ next'[w] = FirstNew /\ last'[w] = LastNew
    BY <1>6 DEF OnlyMoves, TypeInv, TypeOK
  <2>2. Held(w)' = N /\ Untouched(w)' = N
    BY <2>1 DEF Held, Running, Untouched
  <2>3. \A v \in Workers \ {w} :
          /\ pc'[v] = pc[v] /\ next'[v] = next[v] /\ last'[v] = last[v]
          /\ Held(v)' = Held(v) /\ Untouched(v)' = Untouched(v)
          /\ Held(v) \cap N = {}
    <3>1. ASSUME NEW v \in Workers \ {w} PROVE Held(v) \cap N = {}
      <4>1. Held(v) \subseteq 1..cursor
        BY HeldIsHandedOut
      <4> QED
        BY <1>2, <4>1
    <3> QED
      BY <2>1, <3>1 DEF OnlyMoves, Held, Running, Untouched
  <2>4. OwnerInv'
    <3>1. \A v \in Workers : pc'[v] \in {"off", "poll"} => last'[v] < next'[v]
      BY <2>1, <2>3 DEF OwnerInv
    <3>2. ASSUME NEW u \in Workers, NEW v \in Workers, u # v
          PROVE  Held(u)' \cap Held(v)' = {}
      <4>1. CASE u = w
        BY <2>2, <2>3, <3>2, <4>1
      <4>2. CASE v = w
        BY <2>2, <2>3, <3>2, <4>2
      <4>3. CASE u # w /\ v # w
        BY <2>3, <3>2, <4>3 DEF OwnerInv
      <4> QED
        BY <4>1, <4>2, <4>3
    <3>3. \A v \in Workers : Untouched(v)' \subseteq pel' \ Touched'
      BY <1>1, <1>3, <2>2, <2>3 DEF OwnerInv
    <3> QED
      BY <3>1, <3>2, <3>3 DEF OwnerInv
  <2>5. InFlight' = InFlight \cup N
    BY <1>4, <2>2, <2>3 DEF InFlight
  <2>6. Delivery!HandOut
    BY <1>1, <1>2, <2>5 DEF Delivery!HandOut, InFlight
  <2> QED
    BY <2>4, <2>6 DEF Maps, Delivery!Next
<1> QED
  BY <1>5, <1>6 DEF ReadBatch

\* The steps before the transaction ends: the worker stays at its entry.
LEMMA HandleOwner ==
  ASSUME TypeInv, OwnerInv, NEW w \in Workers,
         \/ SkipUnparseable(w) \/ Retry(w) \/ Duplicate(w)
         \/ Handle(w) \/ HandleRaises(w)
  PROVE  OwnerInv' /\ Maps
<1>1. /\ UNCHANGED <<stream, cursor, pel, acked, dlq, rows, next, last>>
      /\ pc[w] = "handle"
  BY DEF SkipUnparseable, Retry, Duplicate, Handle, HandleRaises, redisVars, dbVars
<1>2. \E label \in Busy : GoTo(w, label)
  <2>1. pc' = pc => GoTo(w, "handle")
    BY <1>1 DEF GoTo, TypeInv, TypeOK
  <2> QED
    BY <2>1 DEF SkipUnparseable, Retry, Duplicate, Handle, HandleRaises, OnError, Busy
<1>3. /\ OnlyMoves(w) /\ pc'[w] \in Busy /\ Held(w)' = Held(w)
      /\ Untouched(w)' \subseteq Untouched(w)
  BY <1>1, <1>2, StaysHeld DEF Untouched, Busy
<1>4. Touched' = Touched
  BY <1>1 DEF Touched, DlqIds
<1>5. pc'[w] \notin {"off", "poll"}
  BY <1>3 DEF Busy
<1>6. OwnerInv'
  BY <1>1, <1>3, <1>4, <1>5, QuietStep
<1> QED
  BY <1>1, <1>3, <1>6, FlightStays, StutterMaps

\* The commit: an entry takes effect that had none and was not settled.
LEMMA CommitOwner ==
  ASSUME TypeInv, OneEffectPerKey, OwnerInv, NEW w \in Workers, Commit(w)
  PROVE  OwnerInv' /\ Maps
<1> DEFINE i == next[w]
<1>1. /\ UNCHANGED <<stream, cursor, pel, acked, dlq, next, last>>
      /\ pc[w] = "commit"
  BY DEF Commit, redisVars
<1>2. GoTo(w, "ack") \/ GoTo(w, "dlq")
  BY DEF Commit, OnError
<1>3. /\ OnlyMoves(w) /\ pc'[w] \in {"ack", "dlq"} /\ Held(w)' = Held(w)
      /\ Untouched(w) = Held(w) /\ Untouched(w)' = Held(w) \ {i}
      /\ i \in Held(w)
  BY <1>1, <1>2, StaysHeld, BusyHoldsCurrent DEF Untouched, Busy
<1>4. InFlight' = InFlight
  BY <1>3, FlightStays
<1>5. CASE rows' = rows
  <2>1. Touched' = Touched
    BY <1>1, <1>5 DEF Touched, DlqIds
  <2>2. OwnerInv'
    BY <1>1, <1>3, <2>1, QuietStep
  <2> QED
    BY <1>1, <1>4, <1>5, <2>2, StutterMaps
<1>6. CASE rows' = rows \cup {i}
  <2> DEFINE C == {i}
  <2>1. Touched' \subseteq Touched \cup C /\ C \subseteq Held(w)
    BY <1>1, <1>3, <1>6 DEF Touched, DlqIds
  <2>2. C \cap Untouched(w)' = {} /\ pel \ C \subseteq pel'
    BY <1>1, <1>3
  <2>3. pc'[w] \in {"off", "poll"} => last'[w] < next'[w]
    BY <1>3
  <2>4. Untouched(w)' \subseteq Untouched(w) /\ Held(w)' \subseteq Held(w)
    BY <1>3
  <2>5. OwnerInv'
    <3> HIDE DEF C, i
    <3> QED
      BY <1>3, <2>1, <2>2, <2>3, <2>4, OwnerStep
  <2>6. i \in InFlight \ (rows \cup acked)
    BY <1>3 DEF InFlight, OwnerInv, Touched
  <2>7. Delivery!TakeEffect
    BY <1>1, <1>4, <1>6, <2>6 DEF Delivery!TakeEffect, InFlight
  <2> QED
    BY <2>5, <2>7 DEF Maps, Delivery!Next
<1> QED
  BY <1>5, <1>6 DEF Commit, Persist, Rollback, dbVars

\* The acknowledgements: an entry is settled, its consumer goes on, stays for
\* the dead letter, or dies.
LEMMA AckOwner ==
  ASSUME TypeInv, OwnerInv, NEW w \in Workers, Ack(w) \/ AckInHandler(w)
  PROVE  OwnerInv' /\ Maps
<1> DEFINE i == next[w]
           C == {i}
<1>1. /\ UNCHANGED <<stream, cursor, dlq, rows, last>>
      /\ pc[w] \in {"ack", "dupAck", "dlqAck"}
      /\ XAck(i) \/ UNCHANGED <<pel, acked>>
      /\ \/ NextEntry(w)
         \/ ConsumerDies(w)
         \/ GoTo(w, "dlq") /\ UNCHANGED <<next, attempt>>
  BY DEF Ack, AckInHandler, OnError, dbVars
<1>2. pc[w] \in Busy /\ Untouched(w) = Held(w) \ {i} /\ i \in Held(w)
  BY <1>1, BusyHoldsCurrent DEF Busy, Untouched
<1>3. /\ acked' = acked \/ acked' = acked \cup {i}
      /\ pel \ {i} \subseteq pel'
  BY <1>1 DEF XAck
<1>4. /\ OnlyMoves(w)
      /\ Held(w)' \in {Held(w), Held(w) \ {i}, {}}
      /\ Untouched(w)' \subseteq Held(w) \ {i}
      /\ pc'[w] \in {"off", "poll"} => last'[w] < next'[w]
  <2>1. CASE NextEntry(w)
    BY <1>1, <1>2, <2>1, NextHeld
  <2>2. CASE ConsumerDies(w)
    BY <1>1, <1>2, <2>2, DeadHeld
  <2>3. CASE GoTo(w, "dlq") /\ UNCHANGED <<next, attempt>>
    BY <1>1, <1>2, <2>3, StaysHeld DEF Busy
  <2> QED
    BY <1>1, <2>1, <2>2, <2>3
<1>5. PICK S \in SUBSET Held(w) : Held(w)' = Held(w) \ S /\ (S \subseteq {i} \/ i \in S)
  <2> DEFINE S == Held(w) \ Held(w)'
  <2>1. /\ S \in SUBSET Held(w) /\ Held(w)' = Held(w) \ S
        /\ S \subseteq {i} \/ i \in S
    BY <1>2, <1>4
  <2> HIDE DEF S
  <2> QED
    BY <2>1
<1>6. OwnerInv'
  <2>1. Touched' \subseteq Touched \cup C /\ pel \ C \subseteq pel'
    BY <1>1, <1>3 DEF Touched, DlqIds
  <2>2. C \subseteq Held(w) /\ C \cap Untouched(w)' = {}
    BY <1>2, <1>4
  <2>3. Held(w)' \subseteq Held(w) /\ Untouched(w)' \subseteq Untouched(w)
    BY <1>2, <1>4
  <2> HIDE DEF C, i
  <2> QED
    BY <1>4, <2>1, <2>2, <2>3, OwnerStep
<1>7. InFlight' = InFlight \ S /\ S \subseteq InFlight /\ i \in InFlight
  BY <1>2, <1>4, <1>5, FlightLoses DEF InFlight
<1>8. Maps
  <2>1. CASE acked' = acked
    BY <1>1, <1>7, <2>1, DropMaps
  <2>2. CASE acked' = acked \cup {i}
    BY <1>1, <1>5, <1>7, <2>2, SettleMaps
  <2> QED
    BY <1>3, <2>1, <2>2
<1> QED
  BY <1>6, <1>8

\* What a dead letter adds.
LEMMA DlqGrows ==
  ASSUME TypeInv, NEW w \in Workers, SendToDlq(w)
  PROVE  DlqIds' = DlqIds \/ DlqIds' = DlqIds \cup {next[w]}
<1> DEFINE Dead == [id : 1..cursor, retries : 1..MaxRetries]
           entry == [id |-> next[w], retries |-> attempt[w]]
<1>1. entry \in Dead /\ dlq \in Seq(Dead) /\ entry.id = next[w]
  BY Current DEF SendToDlq, Busy, TypeInv, TypeOK
<1>2. dlq' = Append(dlq, entry) \/ dlq' = dlq
  BY DEF SendToDlq
<1> HIDE DEF Dead, entry
<1>3. CASE dlq' = Append(dlq, entry)
  <2>1. /\ DOMAIN dlq' = DOMAIN dlq \cup {Len(dlq) + 1}
        /\ \A n \in DOMAIN dlq : dlq'[n] = dlq[n]
        /\ dlq'[Len(dlq) + 1] = entry
    BY <1>1, <1>3
  <2> QED
    BY <1>1, <2>1 DEF DlqIds
<1> QED
  BY <1>2, <1>3 DEF DlqIds

LEMMA SendToDlqOwner ==
  ASSUME TypeInv, OwnerInv, NEW w \in Workers, SendToDlq(w)
  PROVE  OwnerInv' /\ Maps
<1> DEFINE i == next[w]
           C == {i}
<1>1. /\ UNCHANGED <<stream, cursor, pel, acked, rows, last, next>>
      /\ pc[w] = "dlq"
      /\ GoTo(w, "dlqAck") \/ ConsumerDies(w)
  BY DEF SendToDlq, ConsumerDies, redisVars, dbVars
<1>2. pc[w] \in Busy /\ Untouched(w) = Held(w) \ {i} /\ i \in Held(w)
  BY <1>1, BusyHoldsCurrent DEF Busy, Untouched
<1>3. /\ OnlyMoves(w) /\ Held(w)' \in {Held(w), {}}
      /\ Untouched(w)' \subseteq Held(w) \ {i}
      /\ pc'[w] \notin {"off", "poll"}
  <2>1. CASE GoTo(w, "dlqAck")
    BY <1>1, <1>2, <2>1, StaysHeld DEF Busy
  <2>2. CASE ConsumerDies(w)
    BY <1>1, <1>2, <2>2, DeadHeld
  <2> QED
    BY <1>1, <2>1, <2>2
<1>4. OwnerInv'
  <2>1. Touched' \subseteq Touched \cup C /\ pel \ C \subseteq pel'
    BY <1>1, DlqGrows DEF Touched
  <2>2. C \subseteq Held(w) /\ C \cap Untouched(w)' = {}
    BY <1>2, <1>3
  <2>3. Held(w)' \subseteq Held(w) /\ Untouched(w)' \subseteq Untouched(w)
    BY <1>2, <1>3
  <2> HIDE DEF C, i
  <2> QED
    BY <1>3, <2>1, <2>2, <2>3, OwnerStep
<1> DEFINE S == Held(w) \ Held(w)'
<1>5. InFlight' = InFlight \ S /\ S \subseteq InFlight
  <2>1. S \in SUBSET Held(w) /\ Held(w)' = Held(w) \ S
    BY <1>3
  <2> HIDE DEF S
  <2> QED
    BY <1>3, <2>1, FlightLoses
<1> HIDE DEF S
<1> QED
  BY <1>1, <1>4, <1>5, DropMaps

LEMMA CrashOwner ==
  ASSUME TypeInv, OwnerInv, NEW w \in Workers, Crash(w)
  PROVE  OwnerInv' /\ Maps
<1>1. /\ UNCHANGED <<stream, cursor, pel, acked, dlq, rows>>
      /\ GoTo(w, "off")
      /\ next' = [next EXCEPT ![w] = 1] /\ last' = [last EXCEPT ![w] = 0]
  BY DEF Crash, redisVars, dbVars
<1>2. OnlyMoves(w) /\ pc'[w] = "off" /\ next'[w] = 1 /\ last'[w] = 0
  BY <1>1, GoToLabel DEF OnlyMoves, TypeInv, TypeOK, PcLabels
<1>3. Held(w)' = {} /\ Untouched(w)' = {}
  BY <1>2 DEF Held, Running, Untouched
<1>4. Touched' = Touched
  BY <1>1 DEF Touched, DlqIds
<1>5. OwnerInv'
  BY <1>1, <1>2, <1>3, <1>4, QuietStep
<1>6. InFlight' = InFlight \ Held(w) /\ Held(w) \subseteq InFlight
  BY <1>2, <1>3, FlightLoses
<1> QED
  BY <1>1, <1>5, <1>6, DropMaps

LEMMA StillOwner ==
  ASSUME TypeInv, OwnerInv, UNCHANGED <<redisVars, dlq, dbVars, workerVars>>
  PROVE  OwnerInv' /\ Maps
<1>1. UNCHANGED <<stream, cursor, pel, acked, dlq, rows, pc, next, last>>
  BY DEF redisVars, dbVars, workerVars
<1>2. \A w \in Workers : Held(w)' = Held(w) /\ Untouched(w)' = Untouched(w)
  BY <1>1 DEF Held, Running, Untouched
<1>3. Touched' = Touched /\ InFlight' = InFlight
  BY <1>1, <1>2 DEF Touched, DlqIds, InFlight
<1>4. OwnerInv'
  BY <1>1, <1>2, <1>3 DEF OwnerInv
<1> QED
  BY <1>1, <1>3, <1>4, StutterMaps

LEMMA NextOwner ==
  TypeInv /\ OneEffectPerKey /\ OwnerInv /\ [Next]_vars => OwnerInv' /\ Maps
<1> SUFFICES ASSUME TypeInv, OneEffectPerKey, OwnerInv, [Next]_vars
             PROVE  OwnerInv' /\ Maps
  OBVIOUS
<1>1. ASSUME NEW w \in Workers, Step(w) PROVE OwnerInv' /\ Maps
  BY <1>1, ReadBatchOwner, HandleOwner, CommitOwner, AckOwner, SendToDlqOwner DEF Step
<1>2. ASSUME NEW d \in Imeis, CacheExpires(d) PROVE OwnerInv' /\ Maps
  BY <1>2, StillOwner DEF CacheExpires
<1>3. CASE UNCHANGED vars
  BY <1>3, StillOwner DEF vars
<1> QED
  BY <1>1, <1>2, <1>3, PublishOwner, StartOwner, CrashOwner DEF Next

LEMMA InitOwner == Init => OwnerInv /\ Delivery!Init
<1> SUFFICES ASSUME Init PROVE OwnerInv /\ Delivery!Init
  OBVIOUS
<1>1. \A w \in Workers : pc[w] = "off" /\ next[w] = 1 /\ last[w] = 0
  BY DEF Init
<1>2. \A w \in Workers : Held(w) = {} /\ Untouched(w) = {}
  BY <1>1 DEF Held, Running, Untouched
<1>3. OwnerInv
  BY <1>1, <1>2 DEF OwnerInv
<1>4. Delivery!Init
  BY <1>2 DEF Delivery!Init, Init
<1> QED
  BY <1>3, <1>4

LEMMA AlwaysOwner == Spec => [](TypeInv /\ OneEffectPerKey /\ OwnerInv)
  BY InitTypeInv, InitOneEffect, InitOwner, NextTypeInv, NextOneEffect, NextOwner,
     PTL DEF Spec

(* The group hands an entry to one consumer, once, however many consumers    *)
(* run and whatever fails: no two hold the same one, and of what one has not *)
(* begun nothing became yet.                                                 *)
THEOREM EntriesHaveOneOwner == Spec => []OneOwner
<1>1. OwnerInv => OneOwner
  BY DEF OwnerInv, OneOwner, Untouched, Touched
<1> QED
  BY <1>1, AlwaysOwner, PTL

(* The worker implements AtMostOnceDelivery: an entry is handed out once,    *)
(* takes effect at most once and before it is settled, and is never handed   *)
(* out again when its consumer goes without settling it.                     *)
THEOREM ImplementsAtMostOnce == Spec => DeliveredAtMostOnce
  BY InitOwner, NextOwner, AlwaysOwner, PTL
  DEF Spec, DeliveredAtMostOnce, Delivery!Spec, Maps

-----------------------------------------------------------------------------
(* Which steps of a worker change what: only a commit adds an effect, only   *)
(* dlq.send a dead letter; the rest leave both alone.                        *)
LEMMA EffectsOnlyCommitted ==
  ASSUME TypeInv, NEW w \in Workers, Start(w) \/ Step(w) \/ Crash(w)
  PROVE  /\ rows' = rows \/ (Commit(w) /\ rows' = rows \cup {next[w]})
         /\ DlqIds' = DlqIds \/ (SendToDlq(w) /\ DlqIds' = DlqIds \cup {next[w]})
<1>1. CASE Commit(w)
  BY <1>1 DEF Commit, Persist, Rollback, dbVars, DlqIds
<1>2. CASE SendToDlq(w)
  BY <1>2, DlqGrows DEF SendToDlq, dbVars
<1>3. CASE Start(w) \/ Crash(w) \/ ReadBatch(w)
  BY <1>3 DEF Start, Crash, ReadBatch, redisVars, dbVars, DlqIds
<1>4. CASE \/ SkipUnparseable(w) \/ Retry(w) \/ Duplicate(w)
           \/ Handle(w) \/ HandleRaises(w)
  BY <1>4 DEF SkipUnparseable, Retry, Duplicate, Handle, HandleRaises,
              redisVars, dbVars, DlqIds
<1>5. CASE Ack(w) \/ AckInHandler(w)
  BY <1>5 DEF Ack, AckInHandler, dbVars, DlqIds
<1> QED
  BY <1>1, <1>2, <1>3, <1>4, <1>5 DEF Step

\* Whatever a worker does, it moves alone.
LEMMA MovesAlone ==
  ASSUME TypeInv, NEW w \in Workers, Start(w) \/ Step(w) \/ Crash(w)
  PROVE  OnlyMoves(w)
<1>1. CASE Start(w)
  <2>1. GoTo(w, "poll") \/ GoTo(w, "dead")
    BY <1>1 DEF Start, GoTo
  <2> QED
    BY <1>1, <2>1, GoToLabel DEF Start, OnlyMoves, TypeInv, PcLabels
<1>2. CASE Crash(w)
  BY <1>2, GoToLabel DEF Crash, OnlyMoves, TypeInv, TypeOK, PcLabels
<1>3. CASE ReadBatch(w)
  BY <1>3 DEF ReadBatch, OnlyMoves, TypeInv, TypeOK
<1>4. CASE \/ SkipUnparseable(w) \/ Retry(w) \/ Duplicate(w)
           \/ Handle(w) \/ HandleRaises(w) \/ Commit(w)
  <2>1. /\ UNCHANGED <<next, last>>
        /\ pc' = pc \/ \E label \in PcLabels : GoTo(w, label)
    BY <1>4 DEF SkipUnparseable, Retry, Duplicate, Handle, HandleRaises, Commit,
                OnError, PcLabels
  <2> QED
    BY <2>1, GoToLabel DEF OnlyMoves, TypeInv
<1>5. CASE Ack(w) \/ AckInHandler(w) \/ SendToDlq(w)
  <2>1. /\ last' = last /\ pc[w] \in Busy
        /\ \/ NextEntry(w) \/ ConsumerDies(w)
           \/ UNCHANGED next /\ \E label \in PcLabels : GoTo(w, label)
    BY <1>5 DEF Ack, AckInHandler, SendToDlq, OnError, Busy, PcLabels
  <2> QED
    BY <2>1, NextHeld, DeadHeld, GoToLabel DEF OnlyMoves, TypeInv
<1> QED
  BY <1>1, <1>2, <1>3, <1>4, <1>5 DEF Step

\* Entries that two workers are at are two entries.
LEMMA OthersElsewhere ==
  ASSUME TypeInv, OwnerInv, NEW w \in Workers, NEW v \in Workers, v # w,
         pc[w] \in Busy, pc[v] \in Busy
  PROVE  next[v] # next[w]
  BY BusyHoldsCurrent DEF OwnerInv

-----------------------------------------------------------------------------
(* Dead letters. An entry on its way to the dead-letter stream has had no    *)
(* effect, unless a reply was lost.                                          *)
DlqInv ==
  /\ DlqHadNoEffect
  /\ \A w \in Workers : pc[w] = "dlq" => next[w] \notin rows

LEMMA StepDlq ==
  ASSUME Faults \cap {"redis", "dbReply"} = {}, TypeInv, OwnerInv, DlqInv,
         NEW w \in Workers, Start(w) \/ Step(w) \/ Crash(w)
  PROVE  DlqInv'
<1>1. /\ rows' = rows \/ (Commit(w) /\ rows' = rows \cup {next[w]})
      /\ DlqIds' = DlqIds \/ (SendToDlq(w) /\ DlqIds' = DlqIds \cup {next[w]})
  BY EffectsOnlyCommitted
<1>2. OnlyMoves(w)
  BY MovesAlone
<1>3. pc[w] \in {"handle", "commit"} => next[w] \notin Touched
  BY BusyHoldsCurrent DEF OwnerInv, Untouched, Busy
<1>4. DlqHadNoEffect'
  BY <1>1, <1>3 DEF DlqInv, DlqHadNoEffect, Commit, SendToDlq, Touched, DlqIds
<1>5. ASSUME NEW v \in Workers \ {w}, pc'[v] = "dlq"
      PROVE  next'[v] \notin rows'
  <2>1. next'[v] = next[v] /\ next[v] \notin rows /\ pc[v] \in Busy
    BY <1>2, <1>5 DEF OnlyMoves, DlqInv, Busy
  <2>2. Commit(w) => next[v] # next[w]
    BY <2>1, OthersElsewhere DEF Commit, Busy
  <2> QED
    BY <1>1, <2>1, <2>2
<1>6. ASSUME pc'[w] = "dlq"
      PROVE  next'[w] \notin rows'
  <2>1. CASE Retry(w) \/ HandleRaises(w)
    BY <1>1, <1>3, <2>1 DEF Retry, HandleRaises, Commit, dbVars, Touched
  <2>2. CASE Commit(w)
    <3>1. "dbReply" \notin Faults
      OBVIOUS
    <3>2. GoTo(w, "ack") \/ rows' = rows
      BY <2>2, <3>1 DEF Commit, Rollback, dbVars
    <3>3. rows' = rows
      BY <1>6, <3>2, GoToLabel DEF TypeInv, PcLabels
    <3> QED
      BY <1>3, <2>2, <3>3 DEF Commit, Touched
  <2>3. ASSUME ~Retry(w), ~HandleRaises(w), ~Commit(w)
        PROVE  FALSE
    <3>1. CASE Start(w) \/ Crash(w) \/ SkipUnparseable(w) \/ Duplicate(w) \/ Handle(w)
      <4>1. \E label \in PcLabels \ {"dlq"} : GoTo(w, label)
        BY <3>1 DEF Start, Crash, SkipUnparseable, Duplicate, Handle, GoTo, PcLabels
      <4> QED
        BY <1>6, <4>1, GoToLabel DEF TypeInv
    <3>2. CASE ReadBatch(w)
      BY <1>6, <3>2 DEF ReadBatch, TypeInv, TypeOK
    <3>3. CASE Ack(w) \/ AckInHandler(w)
      <4>1. NextEntry(w) /\ pc[w] \in Busy /\ last' = last
        BY <3>3 DEF Ack, AckInHandler, ConsumerDies, Busy
      <4> QED
        BY <1>6, <4>1, NextEntryTyped
    <3>4. CASE SendToDlq(w)
      BY <1>6, <3>4, GoToLabel, ConsumerDiesTyped DEF SendToDlq, TypeInv, PcLabels
    <3> QED
      BY <2>3, <3>1, <3>2, <3>3, <3>4 DEF Step
  <2> QED
    BY <2>1, <2>2, <2>3
<1> QED
  BY <1>4, <1>5, <1>6 DEF DlqInv

(* Unless a reply is lost, a dead letter has had no effect on any tracker,   *)
(* for any number of workers that crash or lose the database: it can be      *)
(* replayed by hand.                                                         *)
THEOREM DeadLettersHadNoEffect ==
  ASSUME Faults \cap {"redis", "dbReply"} = {}
  PROVE  Spec => []DlqHadNoEffect
<1>1. Init => DlqInv
  BY DEF Init, DlqInv, DlqHadNoEffect
<1>2. TypeInv /\ OwnerInv /\ DlqInv /\ [Next]_vars => DlqInv'
  <2> SUFFICES ASSUME TypeInv, OwnerInv, DlqInv, [Next]_vars PROVE DlqInv'
    OBVIOUS
  <2>1. CASE UNCHANGED <<rows, dlq, pc, next>>
    BY <2>1 DEF DlqInv, DlqHadNoEffect, DlqIds
  <2>2. ASSUME NEW m \in Messages \cup {Unparseable}, Publish(m)
        PROVE  UNCHANGED <<rows, dlq, pc, next>>
    BY <2>2 DEF Publish, dbVars, workerVars
  <2>3. ASSUME NEW d \in Imeis, CacheExpires(d)
        PROVE  UNCHANGED <<rows, dlq, pc, next>>
    BY <2>3 DEF CacheExpires, dbVars, workerVars
  <2>4. CASE UNCHANGED vars
    BY <2>1, <2>4 DEF vars, dbVars, workerVars
  <2> QED
    BY <2>1, <2>2, <2>3, <2>4, StepDlq DEF Next
<1>3. DlqInv => DlqHadNoEffect
  BY DEF DlqInv
<1> QED
  BY <1>1, <1>2, <1>3, AlwaysOwner, PTL DEF Spec

-----------------------------------------------------------------------------
(* The session cache. What a worker has yet to handle is in no key; and what *)
(* a key holds of the entry it is at says how far that one got.              *)
Ahead(w) == IF pc[w] = "handle" THEN Held(w) ELSE Held(w) \ {next[w]}

CacheInv ==
  /\ CacheIsAccounted
  /\ \A w \in Workers, d \in Imeis : cache[d] \notin Ahead(w)
  /\ \A w \in Workers, d \in Imeis : pc[w] \in Busy /\ cache[d] = next[w] =>
       /\ pc[w] = "commit" => found[w]
       /\ pc[w] = "ack" => next[w] \in rows
       /\ pc[w] = "dlqAck" => next[w] \in DlqIds
       /\ pc[w] # "dupAck"

\* What the handling of an entry writes to the cache, if anything.
LEMMA CacheWrites ==
  ASSUME TypeInv, NEW w \in Workers, Handle(w) \/ HandleRaises(w), NEW d \in Imeis
  PROVE  cache'[d] \in {cache[d], next[w], 0}
  BY DEF Handle, HandleRaises, CacheSet, CacheAfter, TypeInv, TypeOK

\* What a step of w must respect when the cache stays as it is.
LEMMA CacheStep ==
  ASSUME TypeInv, CacheInv, NEW w \in Workers, OnlyMoves(w), cache' = cache,
         found' = found, rows \subseteq rows', DlqIds \subseteq DlqIds',
         Ahead(w)' \subseteq Ahead(w),
         \/ pel \subseteq pel'
         \/ pel \ {next[w]} \subseteq pel' /\ pc[w] \in {"ack", "dupAck", "dlqAck"},
         \A d \in Imeis : pc'[w] \in Busy /\ cache[d] = next'[w] =>
           /\ pc'[w] = "commit" => found[w]
           /\ pc'[w] = "ack" => next'[w] \in rows'
           /\ pc'[w] = "dlqAck" => next'[w] \in DlqIds'
           /\ pc'[w] # "dupAck"
  PROVE  CacheInv'
<1>1. \A v \in Workers \ {w} : Ahead(v)' = Ahead(v)
  BY DEF OnlyMoves, Ahead, Held, Running
<1>2. CacheIsAccounted'
  <2> SUFFICES ASSUME NEW d \in Imeis, cache[d] # 0
               PROVE  cache[d] \in rows' \cup pel' \cup DlqIds'
    BY DEF CacheIsAccounted
  <2>1. cache[d] \in rows \cup pel \cup DlqIds
    BY DEF CacheInv, CacheIsAccounted
  <2>2. CASE cache[d] = next[w] /\ pc[w] \in {"ack", "dupAck", "dlqAck"}
    BY <2>2 DEF CacheInv, Busy
  <2> QED
    BY <2>1, <2>2
<1>3. \A v \in Workers, d \in Imeis : cache'[d] \notin Ahead(v)'
  BY <1>1 DEF CacheInv
<1>4. ASSUME NEW v \in Workers, NEW d \in Imeis, pc'[v] \in Busy, cache'[d] = next'[v]
      PROVE  /\ pc'[v] = "commit" => found'[v]
             /\ pc'[v] = "ack" => next'[v] \in rows'
             /\ pc'[v] = "dlqAck" => next'[v] \in DlqIds'
             /\ pc'[v] # "dupAck"
  <2>1. CASE v = w
    BY <1>4, <2>1
  <2>2. CASE v # w
    <3>1. pc'[v] = pc[v] /\ next'[v] = next[v] /\ pc[v] \in Busy /\ cache[d] = next[v]
      BY <1>4, <2>2 DEF OnlyMoves
    <3> QED
      BY <3>1 DEF CacheInv
  <2> QED
    BY <2>1, <2>2
<1> QED
  BY <1>2, <1>3, <1>4 DEF CacheInv

\* A worker that goes over its batch has no new entry ahead.
LEMMA AheadShrinks ==
  ASSUME TypeInv, OwnerInv, NEW w \in Workers, pc[w] \in Busy,
         \/ \E label \in Busy \ {"handle"} : GoTo(w, label) /\ UNCHANGED <<next, last>>
         \/ NextEntry(w) /\ last' = last
         \/ ConsumerDies(w) /\ last' = last
  PROVE  Ahead(w)' \subseteq Ahead(w)
<1>1. CASE \E label \in Busy \ {"handle"} : GoTo(w, label) /\ UNCHANGED <<next, last>>
  BY <1>1, StaysHeld DEF Ahead
<1>2. CASE NextEntry(w) /\ last' = last
  BY <1>2, NextHeld DEF Ahead
<1>3. CASE ConsumerDies(w) /\ last' = last
  BY <1>3, DeadHeld DEF Ahead
<1> QED
  BY <1>1, <1>2, <1>3

\* The steps from an entry on that leave the cache alone.
LEMMA MoveOnCache ==
  ASSUME TypeInv, OwnerInv, CacheInv, NEW w \in Workers,
         \/ SkipUnparseable(w) \/ Retry(w) \/ Duplicate(w) \/ Commit(w)
         \/ Ack(w) \/ AckInHandler(w) \/ SendToDlq(w)
  PROVE  CacheInv'
<1>1. /\ OnlyMoves(w) /\ rows \subseteq rows' /\ DlqIds \subseteq DlqIds'
      /\ UNCHANGED <<cache, last, found>>
  <2>1. OnlyMoves(w) /\ rows \subseteq rows' /\ DlqIds \subseteq DlqIds'
    BY EffectsOnlyCommitted, MovesAlone DEF Step
  <2>2. UNCHANGED <<cache, last, found>>
    BY DEF SkipUnparseable, Retry, Duplicate, Commit, Ack, AckInHandler, SendToDlq
  <2> QED
    BY <2>1, <2>2
<1>2. pc[w] = "handle" => \A d \in Imeis : cache[d] # next[w]
  BY BusyHoldsCurrent DEF CacheInv, Ahead, Busy
<1>3. CASE SkipUnparseable(w) \/ Retry(w) \/ Duplicate(w)
  <2>1. UNCHANGED <<pel, next>> /\ pc[w] = "handle"
    BY <1>3 DEF SkipUnparseable, Retry, Duplicate, redisVars
  <2>2. Ahead(w)' \subseteq Ahead(w)
    <3>1. CASE pc' = pc
      BY <1>1, <2>1, <3>1 DEF Ahead, Held, Running
    <3>2. CASE pc' # pc
      <4>1. \E label \in Busy \ {"handle"} : GoTo(w, label)
        BY <1>3, <3>2 DEF SkipUnparseable, Retry, Duplicate, Busy
      <4> QED
        BY <1>1, <2>1, <4>1, AheadShrinks DEF Busy
    <3> QED
      BY <3>1, <3>2
  <2>3. \A d \in Imeis : cache[d] # next'[w]
    BY <1>2, <2>1
  <2> QED
    BY <1>1, <2>1, <2>2, <2>3, CacheStep
<1>4. CASE Commit(w)
  <2>1. UNCHANGED <<pel, next>> /\ pc[w] = "commit" /\ (GoTo(w, "ack") \/ GoTo(w, "dlq"))
    BY <1>4 DEF Commit, OnError, redisVars
  <2>2. Ahead(w)' \subseteq Ahead(w) /\ pc'[w] \in {"ack", "dlq"}
    BY <1>1, <2>1, AheadShrinks, GoToLabel DEF Busy, TypeInv, PcLabels
  <2>3. ASSUME NEW d \in Imeis, cache[d] = next'[w], pc'[w] = "ack"
        PROVE  next'[w] \in rows'
    <3>1. found[w]
      BY <2>1, <2>3 DEF CacheInv, Busy
    <3>2. Persist(w)
      BY <1>4, <2>3, GoToLabel DEF Commit, OnError, TypeInv, PcLabels
    <3> QED
      BY <2>1, <3>1, <3>2 DEF Persist
  <2> QED
    BY <1>1, <2>1, <2>2, <2>3, CacheStep
<1>5. CASE Ack(w) \/ AckInHandler(w)
  <2>1. /\ pc[w] \in {"ack", "dupAck", "dlqAck"} /\ pc[w] \in Busy
        /\ pel \ {next[w]} \subseteq pel'
        /\ \/ NextEntry(w) \/ ConsumerDies(w)
           \/ GoTo(w, "dlq") /\ UNCHANGED next
    BY <1>5 DEF Ack, AckInHandler, XAck, OnError, Busy
  <2>2. Ahead(w)' \subseteq Ahead(w)
    BY <1>1, <2>1, AheadShrinks DEF Busy
  <2>3. pc'[w] \in {"handle", "poll", "dead", "dlq"}
    BY <1>1, <2>1, NextEntryTyped, ConsumerDiesTyped, GoToLabel DEF TypeInv, PcLabels
  <2> QED
    BY <1>1, <2>1, <2>2, <2>3, CacheStep
<1>6. CASE SendToDlq(w)
  <2>1. /\ pc[w] = "dlq" /\ UNCHANGED <<pel, next>>
        /\ GoTo(w, "dlqAck") \/ ConsumerDies(w)
    BY <1>6 DEF SendToDlq, ConsumerDies, redisVars
  <2>2. Ahead(w)' \subseteq Ahead(w) /\ pc'[w] \in {"dlqAck", "dead"}
    BY <1>1, <2>1, AheadShrinks, ConsumerDiesTyped, GoToLabel
       DEF Busy, TypeInv, PcLabels
  <2>3. pc'[w] = "dlqAck" => next[w] \in DlqIds'
    <3>1. ASSUME pc'[w] = "dlqAck" PROVE next[w] \in DlqIds'
      <4>1. dlq' = Append(dlq, [id |-> next[w], retries |-> attempt[w]])
        BY <1>6, <3>1, ConsumerDiesTyped DEF SendToDlq
      <4>2. Len(dlq) + 1 \in DOMAIN dlq' /\ dlq'[Len(dlq) + 1].id = next[w]
        BY <4>1 DEF TypeInv, TypeOK
      <4> QED
        BY <4>2 DEF DlqIds
    <3> QED
      BY <3>1
  <2> QED
    BY <1>1, <2>1, <2>2, <2>3, CacheStep
<1> QED
  BY <1>3, <1>4, <1>5, <1>6

\* The steps that write the cache.
LEMMA HandleCache ==
  ASSUME TypeInv, OwnerInv, CacheInv, NEW w \in Workers, Handle(w) \/ HandleRaises(w)
  PROVE  CacheInv'
<1>1. /\ UNCHANGED <<pel, rows, dlq, next, last>> /\ pc[w] = "handle"
      /\ GoTo(w, "commit") \/ GoTo(w, "dlq")
  BY DEF Handle, HandleRaises, OnError, redisVars, dbVars
<1>2. /\ OnlyMoves(w) /\ pc'[w] \in {"commit", "dlq"} /\ Held(w)' = Held(w)
      /\ next[w] \in Held(w) /\ next[w] \in pel
  BY <1>1, StaysHeld, BusyHoldsCurrent DEF Busy, OwnerInv, Untouched
<1>3. \A d \in Imeis : cache'[d] \in {cache[d], next[w], 0}
  BY CacheWrites
<1>4. DlqIds' = DlqIds
  BY <1>1 DEF DlqIds
<1>5. CacheIsAccounted'
  BY <1>1, <1>2, <1>3, <1>4 DEF CacheInv, CacheIsAccounted
<1>6. \A v \in Workers : 0 \notin Held(v)
  BY HeldIsHandedOut
<1>7. ASSUME NEW v \in Workers, NEW d \in Imeis
      PROVE  cache'[d] \notin Ahead(v)'
  <2>1. CASE v = w
    <3>1. Ahead(w)' = Held(w) \ {next[w]}
      BY <1>1, <1>2 DEF Ahead
    <3>2. cache[d] \notin Held(w)
      BY <1>1 DEF CacheInv, Ahead
    <3> QED
      BY <1>3, <1>6, <2>1, <3>1, <3>2
  <2>2. CASE v # w
    <3>1. Ahead(v)' = Ahead(v) /\ Ahead(v) \subseteq Held(v)
      BY <1>2, <2>2 DEF OnlyMoves, Ahead, Held, Running
    <3>2. next[w] \notin Held(v) /\ cache[d] \notin Ahead(v)
      BY <1>2, <2>2 DEF OwnerInv, CacheInv
    <3> QED
      BY <1>3, <1>6, <3>1, <3>2
  <2> QED
    BY <2>1, <2>2
<1>8. ASSUME NEW v \in Workers, NEW d \in Imeis, pc'[v] \in Busy, cache'[d] = next'[v]
      PROVE  /\ pc'[v] = "commit" => found'[v]
             /\ pc'[v] = "ack" => next'[v] \in rows'
             /\ pc'[v] = "dlqAck" => next'[v] \in DlqIds'
             /\ pc'[v] # "dupAck"
  <2>1. CASE v = w
    <3>1. ASSUME pc'[w] = "commit" PROVE found'[w]
      <4>1. Handle(w)
        BY <3>1, GoToLabel DEF HandleRaises, OnError, TypeInv, PcLabels
      <4>2. cache[d] # next[w]
        BY <1>1, <1>2 DEF CacheInv, Ahead
      <4> QED
        BY <1>1, <1>8, <2>1, <4>1, <4>2 DEF Handle, TypeInv, TypeOK
    <3> QED
      BY <1>2, <2>1, <3>1
  <2>2. CASE v # w
    <3>1. pc'[v] = pc[v] /\ next'[v] = next[v] /\ pc[v] \in Busy
      BY <1>2, <1>8, <2>2 DEF OnlyMoves
    <3>2. next[v] # next[w] /\ next[v] # 0
      BY <1>1, <1>6, <2>2, <3>1, OthersElsewhere, BusyHoldsCurrent DEF Busy
    <3>3. cache[d] = next[v]
      BY <1>3, <1>8, <3>1, <3>2
    <3>4. found'[v] = found[v]
      BY <2>2 DEF Handle, HandleRaises, TypeInv, TypeOK
    <3> QED
      BY <1>1, <1>4, <3>1, <3>3, <3>4 DEF CacheInv
  <2> QED
    BY <2>1, <2>2
<1> QED
  BY <1>5, <1>7, <1>8 DEF CacheInv

\* The steps outside a batch.
LEMMA OutsideCache ==
  ASSUME TypeInv, OwnerInv, CacheInv, NEW w \in Workers,
         Start(w) \/ ReadBatch(w) \/ Crash(w)
  PROVE  CacheInv'
<1>1. /\ UNCHANGED <<cache, found, rows, dlq>> /\ pel \subseteq pel' /\ OnlyMoves(w)
  <2>1. OnlyMoves(w)
    BY MovesAlone DEF Step
  <2> QED
    BY <2>1 DEF Start, ReadBatch, Crash, redisVars, dbVars
<1>2. DlqIds' = DlqIds
  BY <1>1 DEF DlqIds
<1>3. CASE Start(w) \/ Crash(w)
  <2>1. pc'[w] \in {"off", "poll", "dead"}
    BY <1>3, GoToLabel DEF Start, Crash, GoTo, TypeInv, TypeOK, PcLabels
  <2>2. OwnerInv' /\ TypeInv'
    BY <1>3, StartOwner, CrashOwner, StartTypeInv, CrashTypeInv
  <2>3. Held(w)' = {}
    <3>1. CASE pc'[w] = "poll"
      <4>1. last'[w] < next'[w] /\ last'[w] \in Nat /\ next'[w] \in Nat
        BY <2>2, <3>1 DEF OwnerInv, TypeInv, TypeOK
      <4> QED
        BY <4>1 DEF Held
    <3> QED
      BY <2>1, <3>1 DEF Held, Running
  <2>4. Ahead(w)' \subseteq Ahead(w) /\ pc'[w] \notin Busy
    BY <2>1, <2>3 DEF Ahead, Busy
  <2> QED
    BY <1>1, <1>2, <2>4, CacheStep
<1>4. CASE ReadBatch(w)
  <2>1. \A d \in Imeis : cache[d] \in 0..cursor
    BY DEF TypeInv, TypeOK
  <2>2. /\ FirstNew \in Nat /\ LastNew \in Nat /\ cursor < FirstNew
        /\ cursor \in Nat
    BY <1>4, NewEntries DEF ReadBatch, TypeInv, TypeOK
  <2>3. \/ UNCHANGED <<pc, next, last>>
        \/ pc'[w] = "handle" /\ next'[w] = FirstNew /\ last'[w] = LastNew
    BY <1>4 DEF ReadBatch, TypeInv, TypeOK
  <2>4. CASE UNCHANGED <<pc, next, last>>
    <3>1. Ahead(w)' \subseteq Ahead(w) /\ pc'[w] \notin Busy
      BY <1>4, <2>4 DEF ReadBatch, Ahead, Held, Running, Busy
    <3> QED
      BY <1>1, <1>2, <3>1, CacheStep
  <2>5. CASE pc'[w] = "handle" /\ next'[w] = FirstNew /\ last'[w] = LastNew
    <3>1. Ahead(w)' = FirstNew..LastNew
      BY <2>5 DEF Ahead, Held, Running
    <3>2. \A d \in Imeis : cache[d] \notin FirstNew..LastNew
      BY <2>1, <2>2
    <3>3. \A v \in Workers \ {w} : Ahead(v)' = Ahead(v)
      BY <1>1 DEF OnlyMoves, Ahead, Held, Running
    <3>4. \A v \in Workers, d \in Imeis : cache'[d] \notin Ahead(v)'
      BY <1>1, <3>1, <3>2, <3>3 DEF CacheInv
    <3>5. CacheIsAccounted'
      BY <1>1, <1>2 DEF CacheInv, CacheIsAccounted
    <3>6. \A v \in Workers : pc'[v] \in Busy /\ pc'[v] # "handle" =>
            v # w /\ pc'[v] = pc[v] /\ next'[v] = next[v]
      BY <1>1, <2>5 DEF OnlyMoves
    <3> QED
      BY <1>1, <1>2, <3>4, <3>5, <3>6 DEF CacheInv
  <2> QED
    BY <2>3, <2>4, <2>5
<1> QED
  BY <1>3, <1>4

LEMMA NextCache == TypeInv /\ OwnerInv /\ CacheInv /\ [Next]_vars => CacheInv'
<1> SUFFICES ASSUME TypeInv, OwnerInv, CacheInv, [Next]_vars PROVE CacheInv'
  OBVIOUS
<1>1. CASE UNCHANGED <<cache, rows, pel, dlq, workerVars>>
  <2>1. \A w \in Workers : Ahead(w)' = Ahead(w)
    BY <1>1 DEF Ahead, Held, Running, workerVars
  <2> QED
    BY <1>1, <2>1 DEF CacheInv, CacheIsAccounted, DlqIds, workerVars
<1>2. ASSUME NEW m \in Messages \cup {Unparseable}, Publish(m)
      PROVE  UNCHANGED <<cache, rows, pel, dlq, workerVars>>
  BY <1>2 DEF Publish, dbVars
<1>3. ASSUME NEW d \in Imeis, CacheExpires(d) PROVE CacheInv'
  <2>1. UNCHANGED <<rows, pel, dlq, workerVars>>
    BY <1>3 DEF CacheExpires, redisVars, dbVars
  <2>2. \A e \in Imeis : cache'[e] \in {cache[e], 0}
    BY <1>3 DEF CacheExpires, TypeInv, TypeOK
  <2>3. \A w \in Workers : Ahead(w)' = Ahead(w) /\ 0 \notin Held(w) /\ Ahead(w) \subseteq Held(w)
    BY <2>1, HeldIsHandedOut DEF Ahead, Held, Running, workerVars
  <2>4. \A w \in Workers : pc[w] \in Busy => next[w] # 0
    BY <2>3, BusyHoldsCurrent
  <2> QED
    BY <2>1, <2>2, <2>3, <2>4 DEF CacheInv, CacheIsAccounted, DlqIds, workerVars
<1>4. CASE UNCHANGED vars
  BY <1>1, <1>4 DEF vars, redisVars, dbVars
<1> QED
  BY <1>1, <1>2, <1>3, <1>4, MoveOnCache, HandleCache, OutsideCache DEF Next, Step

LEMMA AlwaysCached == Spec => []CacheInv
<1>1. Init => CacheInv
  <2> SUFFICES ASSUME Init PROVE CacheInv
    OBVIOUS
  <2>1. \A w \in Workers : pc[w] = "off" /\ pc[w] \notin Busy /\ Held(w) = {}
    BY DEF Init, Busy, Held, Running
  <2>2. CacheIsAccounted
    BY DEF Init, CacheIsAccounted
  <2> QED
    BY <2>1, <2>2 DEF CacheInv, Ahead
<1> QED
  BY <1>1, NextCache, AlwaysOwner, PTL DEF Spec

-----------------------------------------------------------------------------
(* One consumer, the deployment of the repository: it commits in the order   *)
(* of the stream, so what the cache and the tracker last took is the newest. *)
OneConsumer == \A w, v \in Workers : w = v

(* What is committed comes before the entry at hand, and what its handling   *)
(* left in the cache is still there, deleted or expired, when it commits.    *)
OrderInv ==
  \A w \in Workers :
    /\ pc[w] \in {"handle", "commit"} => \A i \in rows : i < next[w]
    /\ pc[w] \in Busy => \A i \in rows : i <= next[w]
    /\ pc[w] = "commit" /\ found[w] => cache[Msg(next[w]).imei] \in {0, next[w]}

Synced(d) == {i \in rows : Msg(i).imei = d /\ Syncs(Msg(i))}
Placed(d) == {i \in Synced(d) : Msg(i).kind = "position"}

NewestInv == OrderInv /\ CacheNotBehind /\ DeviceIsNewest

LEMMA NewestByDevice ==
  DeviceIsNewest <=>
    \A d \in Imeis :
      /\ \A i \in Synced(d) : i <= device[d].seen
      /\ \A i \in Placed(d) : i <= device[d].pos
      /\ {device[d].seen} \ {0} \subseteq Synced(d)
      /\ {device[d].pos} \ {0} \subseteq Placed(d)
  BY DEF DeviceIsNewest, Synced, Placed

\* Entries are named by positions of the stream.
LEMMA RowsAreEntries ==
  ASSUME TypeInv
  PROVE  \A i \in rows : i \in 1..Len(stream) /\ i \in Nat /\ i <= cursor
  BY DEF TypeInv, TypeOK

\* Steps that commit nothing and leave the cache and the entry at hand alone.
LEMMA NewestStays ==
  ASSUME TypeInv, NewestInv, StreamExtends, UNCHANGED <<rows, device, cache, found>>,
         NEW w \in Workers, OnlyMoves(w),
         pc'[w] \in Busy => \A i \in rows : i <= next'[w],
         pc'[w] \in {"handle", "commit"} => \A i \in rows : i < next'[w],
         pc'[w] = "commit" => pc[w] = "commit" /\ next'[w] = next[w]
  PROVE  NewestInv'
<1>1. \A i \in rows : Msg(i)' = Msg(i)
  BY RowsAreEntries DEF StreamExtends, Msg
<1>2. CacheNotBehind'
  BY <1>1 DEF NewestInv, CacheNotBehind
<1>3. \A d \in Imeis : Synced(d)' = Synced(d) /\ Placed(d)' = Placed(d)
  BY <1>1 DEF Synced, Placed, Syncs
<1>4. DeviceIsNewest'
  BY <1>1 DEF NewestInv, DeviceIsNewest, Syncs
<1>5. ASSUME NEW v \in Workers
      PROVE  /\ pc'[v] \in {"handle", "commit"} => \A i \in rows : i < next'[v]
             /\ pc'[v] \in Busy => \A i \in rows : i <= next'[v]
  BY DEF OnlyMoves, NewestInv, OrderInv
<1>6. ASSUME NEW v \in Workers, pc'[v] = "commit", found[v]
      PROVE  cache[stream'[next'[v]].imei] \in {0, next'[v]}
  <2>1. pc[v] = "commit" /\ next'[v] = next[v]
    BY <1>6 DEF OnlyMoves
  <2>2. next[v] \in 1..Len(stream)
    BY <2>1, Current DEF Busy
  <2>3. cache[stream[next[v]].imei] \in {0, next[v]}
    BY <1>6, <2>1 DEF NewestInv, OrderInv, Msg
  <2> QED
    BY <2>1, <2>2, <2>3 DEF StreamExtends
<1> QED
  BY <1>2, <1>4, <1>5, <1>6 DEF NewestInv, OrderInv, Msg

LEMMA MoveNewest ==
  ASSUME OneConsumer, TypeInv, OwnerInv, NewestInv, NEW w \in Workers,
         \/ Start(w) \/ ReadBatch(w) \/ Crash(w)
         \/ SkipUnparseable(w) \/ Retry(w) \/ Duplicate(w)
         \/ Ack(w) \/ AckInHandler(w) \/ SendToDlq(w)
  PROVE  NewestInv'
<1>1. OnlyMoves(w) /\ StreamExtends /\ UNCHANGED <<rows, device, cache, found>>
  <2>1. OnlyMoves(w)
    BY MovesAlone DEF Step
  <2>2. UNCHANGED <<stream, rows, device, cache, found>>
    BY DEF Start, ReadBatch, Crash, SkipUnparseable, Retry, Duplicate, Ack,
           AckInHandler, SendToDlq, redisVars, dbVars
  <2> QED
    BY <2>1, <2>2, StreamStays
<1>2. CASE Start(w) \/ Crash(w)
  <2>1. pc'[w] \in {"off", "poll", "dead"}
    BY <1>2, GoToLabel DEF Start, Crash, GoTo, TypeInv, TypeOK, PcLabels
  <2> QED
    BY <1>1, <2>1, NewestStays DEF Busy
<1>3. CASE ReadBatch(w)
  <2>1. (pc'[w] = "handle" /\ next'[w] = FirstNew) \/ pc'[w] = "poll"
    BY <1>3 DEF ReadBatch, TypeInv, TypeOK
  <2>2. FirstNew \in Nat /\ cursor < FirstNew /\ cursor \in Nat
    BY <1>3, NewEntries DEF ReadBatch, TypeInv, TypeOK
  <2>3. \A i \in rows : i < FirstNew
    BY <2>2, RowsAreEntries
  <2>4. \A i \in rows : i <= FirstNew
    BY <2>2, RowsAreEntries
  <2> QED
    BY <1>1, <2>1, <2>3, <2>4, NewestStays DEF Busy
<1>4. CASE SkipUnparseable(w) \/ Retry(w) \/ Duplicate(w)
  <2>1. /\ pc[w] = "handle" /\ pc'[w] \in {"handle", "ack", "dlq", "dupAck"}
        /\ next' = next
    BY <1>4, GoToLabel DEF SkipUnparseable, Retry, Duplicate, TypeInv, PcLabels
  <2> QED
    BY <1>1, <2>1, NewestStays DEF NewestInv, OrderInv, Busy
<1>5. CASE Ack(w) \/ AckInHandler(w) \/ SendToDlq(w)
  <2>1. /\ pc[w] \in Busy /\ last' = last
        /\ \/ NextEntry(w)
           \/ ConsumerDies(w)
           \/ (GoTo(w, "dlq") \/ GoTo(w, "dlqAck")) /\ next' = next
    BY <1>5 DEF Ack, AckInHandler, SendToDlq, OnError, Busy
  <2>2. \A i \in rows : i <= next[w] /\ i \in Nat
    BY <2>1, RowsAreEntries DEF NewestInv, OrderInv
  <2>3. next[w] \in Nat
    BY <2>1, Current
  <2>4. CASE NextEntry(w)
    <3>1. next'[w] = next[w] + 1 /\ pc'[w] \in {"handle", "poll"}
      BY <2>1, <2>4, NextEntryTyped DEF NextEntry, TypeInv, TypeOK
    <3>2. \A i \in rows : i < next'[w] /\ i <= next'[w]
      BY <2>2, <2>3, <3>1
    <3> QED
      BY <1>1, <3>1, <3>2, NewestStays
  <2>5. CASE ConsumerDies(w)
    <3>1. pc'[w] = "dead"
      BY <2>5, ConsumerDiesTyped
    <3> QED
      BY <1>1, <3>1, NewestStays DEF Busy
  <2>6. CASE (GoTo(w, "dlq") \/ GoTo(w, "dlqAck")) /\ next' = next
    <3>1. pc'[w] \in {"dlq", "dlqAck"}
      BY <2>6, GoToLabel DEF TypeInv, PcLabels
    <3> QED
      BY <1>1, <2>2, <2>6, <3>1, NewestStays
  <2> QED
    BY <2>1, <2>4, <2>5, <2>6
<1> QED
  BY <1>2, <1>3, <1>4, <1>5

\* Handling: what it writes to the cache is newer than all that is committed.
LEMMA HandleNewest ==
  ASSUME OneConsumer, TypeInv, NewestInv, NEW w \in Workers,
         Handle(w) \/ HandleRaises(w)
  PROVE  NewestInv'
<1>1. /\ UNCHANGED <<stream, rows, device, next>> /\ pc[w] = "handle"
      /\ GoTo(w, "commit") \/ GoTo(w, "dlq")
      /\ IsParseable(next[w])
  BY DEF Handle, HandleRaises, OnError, redisVars, dbVars
<1>2. pc'[w] \in {"commit", "dlq"}
  BY <1>1, GoToLabel DEF TypeInv, PcLabels
<1>3. \A i \in rows : i < next[w] /\ i <= next[w]
  <2>1. \A i \in rows : i < next[w] /\ i \in Nat
    BY <1>1, RowsAreEntries DEF NewestInv, OrderInv
  <2>2. next[w] \in Nat
    BY <1>1, Current DEF Busy
  <2> QED
    BY <2>1, <2>2
<1>4. \A d \in Imeis : cache'[d] \in {cache[d], next[w], 0}
  BY CacheWrites
<1>5. CacheNotBehind'
  BY <1>1, <1>3, <1>4 DEF NewestInv, CacheNotBehind, Msg
<1>6. DeviceIsNewest'
  BY <1>1 DEF NewestInv, DeviceIsNewest, Syncs, Msg
<1>7. ASSUME pc'[w] = "commit", found'[w]
      PROVE  cache'[Msg(next[w]).imei] \in {0, next[w]}
  <2>1. Handle(w)
    BY <1>7, GoToLabel DEF HandleRaises, OnError, TypeInv, PcLabels
  <2>2. cache' = CacheAfter(next[w])
    BY <1>7, <2>1 DEF Handle, TypeInv, TypeOK
  <2>3. Msg(next[w]).imei \in Imeis
    <3>1. next[w] \in 1..Len(stream)
      BY <1>1, Current DEF Busy
    <3>2. Msg(next[w]) \in Messages
      BY <1>1, <3>1 DEF TypeInv, TypeOK, Msg, IsParseable
    <3> QED
      BY <3>2, WorkerAssumption DEF Contract
  <2> QED
    BY <2>2, <2>3 DEF CacheAfter, TypeInv, TypeOK
<1>8. OrderInv'
  <2> SUFFICES ASSUME NEW v \in Workers
               PROVE  /\ pc'[v] \in {"handle", "commit"} =>
                           \A i \in rows' : i < next'[v]
                      /\ pc'[v] \in Busy => \A i \in rows' : i <= next'[v]
                      /\ pc'[v] = "commit" /\ found'[v] =>
                           cache'[stream'[next'[v]].imei] \in {0, next'[v]}
    BY DEF OrderInv, Msg
  <2>1. v = w
    BY DEF OneConsumer
  <2> QED
    BY <1>1, <1>3, <1>7, <2>1 DEF Msg
<1> QED
  BY <1>5, <1>6, <1>8 DEF NewestInv

\* The commit: the entry is newer than every other, in rows and on the device.
LEMMA CommitNewest ==
  ASSUME OneConsumer, TypeInv, NewestInv, NEW w \in Workers, Commit(w)
  PROVE  NewestInv'
<1> DEFINE n == next[w]
<1>1. /\ UNCHANGED <<stream, next, cache, found>> /\ pc[w] = "commit"
      /\ Persist(w) \/ UNCHANGED <<rows, device>>
  BY DEF Commit, Rollback, redisVars, dbVars
<1>2. pc'[w] \in {"ack", "dlq"}
  BY GoToLabel DEF Commit, OnError, TypeInv, PcLabels
<1>3. n \in Nat /\ n \in 1..Len(stream) /\ Msg(n) \in Messages /\ Msg(n).imei \in Imeis
  <2>1. n \in Nat /\ n \in 1..Len(stream)
    BY <1>1, Current DEF Busy
  <2>2. Msg(n) \in Messages
    BY <1>1, <2>1 DEF TypeInv, TypeOK, BatchInv, Busy, Msg, IsParseable
  <2> QED
    BY <2>1, <2>2, WorkerAssumption DEF Contract
<1>4. \A i \in rows : i \in Nat /\ i < n
  BY <1>1, RowsAreEntries DEF NewestInv, OrderInv
<1>5. rows' = rows \/ (rows' = rows \cup {n} /\ found[w])
  BY <1>1 DEF Persist
<1>6. CacheNotBehind'
  <2> SUFFICES ASSUME NEW d \in Imeis, cache[d] # 0, NEW i \in rows', Msg(i).imei = d
               PROVE  i <= cache[d]
    BY <1>1 DEF CacheNotBehind, Msg
  <2>1. CASE i \in rows
    BY <2>1 DEF NewestInv, CacheNotBehind
  <2>2. CASE i = n /\ found[w]
    <3>1. cache[d] \in {0, n}
      BY <1>1, <2>2 DEF NewestInv, OrderInv
    <3> QED
      BY <1>3, <2>2, <3>1
  <2> QED
    BY <1>5, <2>1, <2>2
<1>7. OrderInv'
  <2> SUFFICES ASSUME NEW v \in Workers
               PROVE  /\ pc'[v] \notin {"handle", "commit"}
                      /\ \A i \in rows' : i <= next'[v]
    BY DEF OrderInv
  <2>1. v = w
    BY DEF OneConsumer
  <2> QED
    BY <1>1, <1>2, <1>3, <1>4, <1>5, <2>1
<1>8. DeviceIsNewest'
  <2>1. CASE UNCHANGED <<rows, device>>
    BY <1>1, <2>1 DEF NewestInv, DeviceIsNewest, Syncs, Msg
  <2>2. CASE Persist(w) /\ ~(found[w] /\ Syncs(Msg(n)))
    <3>1. \A d \in Imeis : Synced(d)' = Synced(d) /\ Placed(d)' = Placed(d)
      BY <1>1, <2>2 DEF Persist, Synced, Placed, Syncs, Msg
    <3>2. device' = device
      BY <2>2 DEF Persist
    <3> QED
      BY <3>1, <3>2 DEF NewestInv, DeviceIsNewest, Synced, Placed
  <2>3. CASE Persist(w) /\ found[w] /\ Syncs(Msg(n))
    <3>0. PICK e \in Imeis : e = Msg(n).imei
      BY <1>3
    <3>1. rows' = rows \cup {n}
      BY <2>3 DEF Persist
    <3>2. device' = [device EXCEPT ![e] = DeviceAfter(n, device[e])]
      BY <2>3, <3>0 DEF Persist
    <3>3. /\ device'[e].seen = n
          /\ device'[e].pos = IF Msg(n).kind = "position" THEN n ELSE device[e].pos
          /\ \A d \in Imeis \ {e} : device'[d] = device[d]
      BY <1>3, <3>2 DEF DeviceAfter, TypeInv, TypeOK
    <3>4. /\ Synced(e)' = Synced(e) \cup {n}
          /\ Placed(e)' = IF Msg(n).kind = "position" THEN Placed(e) \cup {n}
                          ELSE Placed(e)
      BY <1>1, <2>3, <3>0, <3>1 DEF Synced, Placed, Syncs, Msg
    <3>5. \A d \in Imeis \ {e} : Synced(d)' = Synced(d) /\ Placed(d)' = Placed(d)
      BY <1>1, <3>0, <3>1 DEF Synced, Placed, Syncs, Msg
    <3>6. \A i \in Synced(e) \cup Placed(e) : i <= n
      BY <1>3, <1>4 DEF Synced, Placed
    <3>7. \A d \in Imeis :
            /\ \A i \in Synced(d) : i <= device[d].seen
            /\ \A i \in Placed(d) : i <= device[d].pos
            /\ {device[d].seen} \ {0} \subseteq Synced(d)
            /\ {device[d].pos} \ {0} \subseteq Placed(d)
      BY NewestByDevice DEF NewestInv
    <3>8. ASSUME NEW d \in Imeis
          PROVE  /\ \A i \in Synced(d)' : i <= device'[d].seen
                 /\ \A i \in Placed(d)' : i <= device'[d].pos
                 /\ {device'[d].seen} \ {0} \subseteq Synced(d)'
                 /\ {device'[d].pos} \ {0} \subseteq Placed(d)'
      <4>1. CASE d # e
        BY <3>3, <3>5, <3>7, <4>1
      <4>2. CASE d = e
        <5>1. \A i \in Synced(e)' : i <= device'[e].seen
          BY <1>3, <3>3, <3>4, <3>6
        <5>2. \A i \in Placed(e)' : i <= device'[e].pos
          BY <1>3, <3>3, <3>4, <3>6, <3>7
        <5>3. {device'[e].seen} \ {0} \subseteq Synced(e)'
          BY <3>3, <3>4
        <5>4. {device'[e].pos} \ {0} \subseteq Placed(e)'
          BY <1>3, <3>3, <3>4, <3>7
        <5> QED
          BY <4>2, <5>1, <5>2, <5>3, <5>4
      <4> QED
        BY <4>1, <4>2
    <3> QED
      BY <3>8 DEF DeviceIsNewest, Synced, Placed
  <2> QED
    BY <1>1, <2>1, <2>2, <2>3
<1> QED
  BY <1>6, <1>7, <1>8 DEF NewestInv

LEMMA NextNewest ==
  ASSUME OneConsumer
  PROVE  TypeInv /\ OwnerInv /\ NewestInv /\ [Next]_vars => NewestInv'
<1> SUFFICES ASSUME TypeInv, OwnerInv, NewestInv, [Next]_vars PROVE NewestInv'
  OBVIOUS
<1>1. ASSUME NEW w \in Workers, Start(w) \/ Step(w) \/ Crash(w)
      PROVE  NewestInv'
  BY <1>1, MoveNewest, HandleNewest, CommitNewest DEF Step
<1>2. ASSUME NEW m \in Messages \cup {Unparseable}, Publish(m) PROVE NewestInv'
  <2>1. StreamExtends
    BY <1>2, AppendKeeps DEF Publish, TypeInv, TypeOK, StreamExtends
  <2>2. UNCHANGED <<rows, device, cache, found, pc, next, last>>
    BY <1>2 DEF Publish, dbVars, workerVars
  <2>3. CASE \E w \in Workers : TRUE
    <3>1. PICK w \in Workers : TRUE
      BY <2>3
    <3>2. OnlyMoves(w)
      BY <2>2 DEF OnlyMoves
    <3> QED
      BY <2>1, <2>2, <3>2, NewestStays DEF NewestInv, OrderInv
  <2>4. CASE Workers = {}
    <3>1. \A i \in rows : Msg(i)' = Msg(i)
      BY <2>1, RowsAreEntries DEF StreamExtends, Msg
    <3> QED
      BY <2>2, <2>4, <3>1 DEF NewestInv, OrderInv, CacheNotBehind, DeviceIsNewest, Syncs
  <2> QED
    BY <2>3, <2>4
<1>3. ASSUME NEW d \in Imeis, CacheExpires(d) PROVE NewestInv'
  <2>1. UNCHANGED <<stream, rows, device, found, pc, next>>
    BY <1>3 DEF CacheExpires, redisVars, dbVars, workerVars
  <2>2. \A e \in Imeis : cache'[e] \in {cache[e], 0}
    BY <1>3 DEF CacheExpires, TypeInv, TypeOK
  <2>3. CacheNotBehind'
    BY <2>1, <2>2 DEF NewestInv, CacheNotBehind, Msg
  <2>4. DeviceIsNewest'
    BY <2>1 DEF NewestInv, DeviceIsNewest, Syncs, Msg
  <2>5. ASSUME NEW w \in Workers, pc[w] = "commit"
        PROVE  Msg(next[w]).imei \in Imeis
    <3>1. next[w] \in 1..Len(stream)
      BY <2>5, Current DEF Busy
    <3>2. Msg(next[w]) \in Messages
      BY <2>5, <3>1 DEF TypeInv, TypeOK, BatchInv, Busy, Msg, IsParseable
    <3> QED
      BY <3>2, WorkerAssumption DEF Contract
  <2>6. OrderInv'
    BY <2>1, <2>2, <2>5 DEF NewestInv, OrderInv, Msg
  <2> QED
    BY <2>3, <2>4, <2>6 DEF NewestInv
<1>4. CASE UNCHANGED vars
  BY <1>4 DEF vars, redisVars, dbVars, workerVars, NewestInv, OrderInv,
              CacheNotBehind, DeviceIsNewest, Syncs, Msg
<1> QED
  BY <1>1, <1>2, <1>3, <1>4 DEF Next

LEMMA InitNewest == Init => NewestInv
<1> SUFFICES ASSUME Init PROVE NewestInv
  OBVIOUS
<1>1. rows = {} /\ \A w \in Workers : pc[w] = "off"
  BY DEF Init
<1>2. OrderInv /\ CacheNotBehind
  BY <1>1 DEF OrderInv, CacheNotBehind, Busy
<1>3. \A d \in Imeis : device[d].seen = 0 /\ device[d].pos = 0
  BY DEF Init
<1>4. DeviceIsNewest
  BY <1>1, <1>3 DEF DeviceIsNewest
<1> QED
  BY <1>2, <1>4 DEF NewestInv

(* The session cache of one consumer, through crashes, lost replies, expiry  *)
(* and retries: a key holds an entry whose fate is on record, and never one  *)
(* older than what is committed for that device.                             *)
THEOREM CacheStaysSound == ASSUME OneConsumer PROVE Spec => []CacheIsSound
<1>1. CacheInv /\ NewestInv => CacheIsSound
  BY DEF CacheInv, NewestInv, CacheIsSound
<1> QED
  BY <1>1, InitNewest, NextNewest, AlwaysOwner, AlwaysCached, PTL DEF Spec

(* The last_seen_at and last position one consumer leaves on a tracker are   *)
(* those of the newest committed entries, in every behaviour.                *)
THEOREM DeviceStaysNewest == ASSUME OneConsumer PROVE Spec => []DeviceIsNewest
<1>1. NewestInv => DeviceIsNewest
  BY DEF NewestInv
<1> QED
  BY <1>1, InitNewest, NextNewest, AlwaysOwner, PTL DEF Spec
=============================================================================
