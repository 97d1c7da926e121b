--------------------------- MODULE TelemetryWorker ---------------------------
(***************************************************************************)
(* The telemetry worker: the consumer loop of stream_consumer.py over the  *)
(* Redis stream tracker:events and its consumer group, the transaction of  *)
(* persistence.py, the dead-letter stream of dlq.py.                       *)
(*                                                                         *)
(* A stream entry is named by its position in `stream`, which keeps every  *)
(* entry ever added; `trimmed` of them are gone from Redis (MAXLEN).       *)
(* Each Redis or database call may fail, with or without having taken      *)
(* effect, when the matching kind is in `Faults`; keys of the session      *)
(* cache expire when "expiry" is.                                          *)
(***************************************************************************)
EXTENDS Integers, Sequences, FiniteSets

CONSTANTS
  Workers,        \* the consumer processes of the group
  Imeis,          \* the devices
  Messages,       \* the contracts the gateway may publish
  Unparseable,    \* an entry parse_stream_fields maps to None
  ReadCount,      \* redis_stream_read_count
  MaxRetries,     \* worker_max_retries
  StreamMaxLen,   \* redis_stream_maxlen
  Uninitialised,  \* the workers that consume without db_manager.init(): main.py starts none
  MaxPublished,   \* bound of the model: entries ever published
  Faults          \* subset of {"crash", "redis", "db", "dbReply", "expiry"}

Kinds == {"position", "event", "heartbeat", "login", "disconnect"}

\* The fields of a contract that the worker tells apart. A serial of 0 stands
\* for "absent" too: dedup_key() writes `serial_number or ""` for both.
Contract == [kind : Kinds, imei : Imeis, serial : Nat, hash : Nat,
             at : Nat, conn : Nat]

ASSUME WorkerAssumption ==
  /\ Messages \subseteq Contract
  /\ Unparseable \notin Contract
  /\ ReadCount \in Nat \ {0}
  /\ MaxRetries \in Nat \ {0}
  /\ StreamMaxLen \in Nat \ {0}
  /\ Uninitialised \subseteq Workers
  /\ MaxPublished \in Nat
  /\ Faults \subseteq {"crash", "redis", "db", "dbReply", "expiry"}

VARIABLES
  stream,     \* Seq: every entry ever added to tracker:events
  trimmed,    \* how many of the oldest entries MAXLEN removed
  hasGroup,   \* the consumer group exists
  cursor,     \* the group's last-delivered entry
  pel,        \* the group's pending entries list
  acked,      \* the entries removed from it by XACK
  dlq,        \* Seq of [id, retries]: tracker:dead-letter
  processed,  \* processed_events.dedup_key, a UNIQUE column
  rows,       \* the entries whose effects on a registered tracker are committed
  device,     \* trackers: the entries that set last_seen_at and the position
  cache,      \* tracker:session:{imei}: the entry that wrote it, 0 when absent
  pc,         \* where each worker is
  next, last, \* the entries of its batch still to do are next..last
  attempt,    \* the attempt at the current entry
  found       \* the transaction found a registered tracker

redisVars  == <<stream, trimmed, hasGroup, cursor, pel, acked>>
dbVars     == <<processed, rows, device>>
workerVars == <<pc, next, last, attempt, found>>
vars == <<redisVars, dlq, dbVars, cache, workerVars>>

-----------------------------------------------------------------------------
Ids == DOMAIN stream
Msg(i) == stream[i]
IsParseable(i) == stream[i] # Unparseable

\* contracts/messages.py: what makes two messages the same event.
DedupKey(m) ==
  CASE m.kind = "heartbeat" ->
         <<m.imei, "heartbeat", m.serial, m.at>>
    [] m.kind \in {"login", "disconnect"} ->
         <<m.imei, "connection", m.kind, m.conn, m.at>>
    [] OTHER -> <<m.imei, m.kind, m.serial, m.hash>>

Key(i) == DedupKey(Msg(i))

\* The kinds for which process() calls _sync_device.
Syncs(m) == m.kind \in {"position", "heartbeat", "login"}

Running(w) == pc[w] \notin {"off", "dead"}
Held(w) == IF Running(w) THEN next[w]..last[w] ELSE {}
DlqIds == {dlq[n].id : n \in DOMAIN dlq}

Init ==
  /\ stream = <<>> /\ trimmed = 0
  /\ hasGroup = FALSE /\ cursor = 0 /\ pel = {} /\ acked = {}
  /\ dlq = <<>>
  /\ processed = {} /\ rows = {}
  /\ device = [d \in Imeis |-> [seen |-> 0, pos |-> 0]]
  /\ cache = [d \in Imeis |-> 0]
  /\ pc = [w \in Workers |-> "off"]
  /\ next = [w \in Workers |-> 1]
  /\ last = [w \in Workers |-> 0]
  /\ attempt = [w \in Workers |-> 1]
  /\ found = [w \in Workers |-> FALSE]

-----------------------------------------------------------------------------
(* The gateway's publisher: XADD ... MAXLEN ~ n. Redis may trim any number   *)
(* of the entries beyond the n newest, delivered or not.                     *)
Publish(m) ==
  /\ Len(stream) < MaxPublished
  /\ stream' = Append(stream, m)
  /\ \E t \in trimmed..Len(stream) :
       /\ t > trimmed => Len(stream) + 1 - t >= StreamMaxLen
       /\ trimmed' = t
  /\ UNCHANGED <<hasGroup, cursor, pel, acked, dlq, dbVars, cache, workerVars>>

(* The process starts: run() creates the group from id 0 unless it exists    *)
(* (BUSYGROUP), and enters the read loop. Any other Redis error ends run().  *)
Start(w) ==
  /\ pc[w] = "off"
  /\ \/ /\ hasGroup' = TRUE
        /\ cursor' = IF hasGroup THEN cursor ELSE 0
        /\ pc' = [pc EXCEPT ![w] = "poll"]
     \/ /\ "redis" \in Faults
        /\ pc' = [pc EXCEPT ![w] = "dead"]
        /\ UNCHANGED <<hasGroup, cursor>>
  /\ UNCHANGED <<stream, trimmed, pel, acked, dlq, dbVars, cache,
                 next, last, attempt, found>>

\* XREADGROUP ">" : the oldest entries after the cursor still in the stream.
FirstNewFromStart == trimmed + 1
FirstNew == (IF cursor > trimmed THEN cursor ELSE trimmed) + 1
LastNewUnbounded == FirstNew + ReadCount - 1
LastNew ==
  IF FirstNew + ReadCount - 1 < Len(stream)
  THEN FirstNew + ReadCount - 1 ELSE Len(stream)

ReadBatch(w) ==
  /\ pc[w] = "poll"
  /\ FirstNew <= Len(stream)
  /\ cursor' = LastNew
  /\ pel' = pel \cup (FirstNew..LastNew)
  /\ \/ /\ pc' = [pc EXCEPT ![w] = "handle"]
        /\ next' = [next EXCEPT ![w] = FirstNew]
        /\ last' = [last EXCEPT ![w] = LastNew]
        /\ attempt' = [attempt EXCEPT ![w] = 1]
     \/ \* the reply is lost: RedisError, sleep, read the next ones
        /\ "redis" \in Faults
        /\ UNCHANGED <<pc, next, last, attempt>>
  /\ UNCHANGED <<stream, trimmed, hasGroup, acked, dlq, dbVars, cache, found>>

-----------------------------------------------------------------------------
\* The session cache: SET for every kind, then DEL for a disconnect.
CacheSet(i) == [cache EXCEPT ![Msg(i).imei] = i]
CacheAfterNoDelete(i) ==
  [cache EXCEPT ![Msg(i).imei] = IF Msg(i).kind = "disconnect" THEN @ ELSE i]
CacheAfter(i) ==
  [cache EXCEPT ![Msg(i).imei] = IF Msg(i).kind = "disconnect" THEN 0 ELSE i]

GoTo(w, label) == pc' = [pc EXCEPT ![w] = label]

\* Where the generic `except Exception` branch leads.
OnErrorSwallowed == "ack"
OnError == "dlq"

\* Another attempt is left after the current one.
AttemptsLeft(w) == attempt[w] < MaxRetries

(* _process_message up to the commit. The outcomes: the entry does not       *)
(* parse; the session factory is missing (PersistenceError: next attempt,    *)
(* after the last one the DLQ); the key is already processed; the tracker    *)
(* is looked up and the cache written; anything else raised on the way.      *)
SkipUnparseable(w) ==
  /\ pc[w] = "handle" /\ ~IsParseable(next[w])
  /\ GoTo(w, "ack")
  /\ UNCHANGED <<redisVars, dlq, dbVars, cache, next, last, attempt, found>>

Retry(w) ==
  /\ pc[w] = "handle" /\ IsParseable(next[w]) /\ w \in Uninitialised
  /\ IF AttemptsLeft(w)
     THEN attempt' = [attempt EXCEPT ![w] = @ + 1] /\ UNCHANGED pc
     ELSE GoTo(w, "dlq") /\ UNCHANGED attempt
  /\ UNCHANGED <<redisVars, dlq, dbVars, cache, next, last, found>>

Duplicate(w) ==
  /\ pc[w] = "handle" /\ IsParseable(next[w]) /\ w \notin Uninitialised
  /\ Key(next[w]) \in processed
  /\ GoTo(w, "dupAck")
  /\ UNCHANGED <<redisVars, dlq, dbVars, cache, next, last, attempt, found>>

Handle(w) ==
  /\ pc[w] = "handle" /\ IsParseable(next[w]) /\ w \notin Uninitialised
  /\ Key(next[w]) \notin processed
  /\ \E registered \in BOOLEAN :
       /\ found' = [found EXCEPT ![w] = registered]
       /\ cache' = IF registered THEN CacheAfter(next[w]) ELSE cache
  /\ GoTo(w, "commit")
  /\ UNCHANGED <<redisVars, dlq, dbVars, next, last, attempt>>

HandleRaises(w) ==
  /\ pc[w] = "handle" /\ IsParseable(next[w]) /\ w \notin Uninitialised
  /\ Faults \cap {"redis", "db"} # {}
  /\ cache' \in {cache, CacheSet(next[w]), CacheAfter(next[w])}
  /\ cache' # cache => "redis" \in Faults /\ Key(next[w]) \notin processed
  /\ GoTo(w, OnError)
  /\ UNCHANGED <<redisVars, dlq, dbVars, next, last, attempt, found>>

-----------------------------------------------------------------------------
\* _sync_device: every such message moves last_seen_at, a position the position.
DeviceAfterMoved(i, old) == [seen |-> i, pos |-> i]
DeviceAfter(i, old) ==
  [seen |-> i, pos |-> IF Msg(i).kind = "position" THEN i ELSE old.pos]

\* What the transaction writes when it commits, and when it is rolled back.
Persist(w) ==
  LET i == next[w] m == Msg(i) IN
  /\ processed' = processed \cup {DedupKey(m)}
  /\ rows' = IF found[w] THEN rows \cup {i} ELSE rows
  /\ device' = IF found[w] /\ Syncs(m)
               THEN [device EXCEPT ![m.imei] = DeviceAfter(i, @)]
               ELSE device

RollbackAutocommit(w) == Persist(w)
Rollback(w) == UNCHANGED dbVars

\* The UNIQUE column admits the key.
KeyIsFreeUnchecked(w) == TRUE
KeyIsFree(w) == Key(next[w]) \notin processed

(* session.commit(): it fails on the UNIQUE key or on the database, and is   *)
(* rolled back; or it succeeds and the worker may not hear of it. Whatever   *)
(* is raised goes to the DLQ at once.                                        *)
Commit(w) ==
  /\ pc[w] = "commit"
  /\ \/ /\ KeyIsFree(w)
        /\ Persist(w)
        /\ GoTo(w, "ack") \/ ("dbReply" \in Faults /\ GoTo(w, OnError))
     \/ /\ ~KeyIsFree(w) \/ "db" \in Faults
        /\ Rollback(w)
        /\ GoTo(w, OnError)
  /\ UNCHANGED <<redisVars, dlq, cache, next, last, attempt, found>>

-----------------------------------------------------------------------------
\* XACK of the current entry.
XAck(i) ==
  /\ acked' = IF i \in pel THEN acked \cup {i} ELSE acked
  /\ pel' = pel \ {i}

\* The loop of run() over the batch.
MoreInBatchShort(w) == next[w] + 1 < last[w]
MoreInBatch(w) == next[w] < last[w]

\* _process_with_retry returns: the next entry of the batch, or a new read.
NextEntry(w) ==
  /\ next' = [next EXCEPT ![w] = @ + 1]
  /\ attempt' = [attempt EXCEPT ![w] = 1]
  /\ GoTo(w, IF MoreInBatch(w) THEN "handle" ELSE "poll")

\* run() ends with the exception: the process lives, nothing consumes.
ConsumerDies(w) ==
  /\ "redis" \in Faults
  /\ GoTo(w, "dead")
  /\ UNCHANGED <<next, attempt>>

(* The acknowledgement inside _process_message: a failure is caught by the   *)
(* generic handler, and the entry goes to the DLQ as well.                   *)
Ack(w) ==
  /\ pc[w] = "ack"
  /\ \/ XAck(next[w]) /\ NextEntry(w)
     \/ /\ "redis" \in Faults
        /\ XAck(next[w]) \/ UNCHANGED <<pel, acked>>
        /\ GoTo(w, OnError)
        /\ UNCHANGED <<next, attempt>>
  /\ UNCHANGED <<stream, trimmed, hasGroup, cursor, dlq, dbVars, cache, last, found>>

(* The acknowledgement in an except branch (a duplicate, or after the DLQ):  *)
(* nothing catches its failure.                                              *)
AckInHandler(w) ==
  /\ pc[w] \in {"dupAck", "dlqAck"}
  /\ \/ XAck(next[w]) /\ (NextEntry(w) \/ ConsumerDies(w))
     \/ UNCHANGED <<pel, acked>> /\ ConsumerDies(w)
  /\ UNCHANGED <<stream, trimmed, hasGroup, cursor, dlq, dbVars, cache, last, found>>

(* dlq.send, whose own failure is not caught either.                         *)
SendToDlq(w) ==
  /\ pc[w] = "dlq"
  /\ \/ /\ dlq' = Append(dlq, [id |-> next[w], retries |-> attempt[w]])
        /\ \/ GoTo(w, "dlqAck") /\ UNCHANGED <<next, attempt>>
           \/ ConsumerDies(w)
     \/ UNCHANGED dlq /\ ConsumerDies(w)
  /\ UNCHANGED <<redisVars, dbVars, cache, last, found>>

(* The process is killed or stopped (main cancels the task), from any point; *)
(* its batch and its open transaction are gone.                              *)
Crash(w) ==
  /\ "crash" \in Faults /\ pc[w] # "off"
  /\ GoTo(w, "off")
  /\ next' = [next EXCEPT ![w] = 1]
  /\ last' = [last EXCEPT ![w] = 0]
  /\ attempt' = [attempt EXCEPT ![w] = 1]
  /\ UNCHANGED <<redisVars, dlq, dbVars, cache, found>>

\* The session key expires (3600 s) or is evicted (allkeys-lru).
CacheExpires(d) ==
  /\ "expiry" \in Faults /\ cache[d] # 0
  /\ cache' = [cache EXCEPT ![d] = 0]
  /\ UNCHANGED <<redisVars, dlq, dbVars, workerVars>>

-----------------------------------------------------------------------------
Step(w) ==
  \/ ReadBatch(w)
  \/ SkipUnparseable(w) \/ Retry(w) \/ Duplicate(w) \/ Handle(w) \/ HandleRaises(w)
  \/ Commit(w)
  \/ Ack(w) \/ AckInHandler(w) \/ SendToDlq(w)

Next ==
  \/ \E m \in Messages \cup {Unparseable} : Publish(m)
  \/ \E w \in Workers : Start(w) \/ Step(w) \/ Crash(w)
  \/ \E d \in Imeis : CacheExpires(d)

Spec == Init /\ [][Next]_vars

(* asyncio runs the consumer's coroutine whenever it is ready, and the       *)
(* container restarts a process that exits (restart: unless-stopped).        *)
FairSpec == Spec /\ \A w \in Workers : WF_vars(Step(w)) /\ WF_vars(Start(w))
-----------------------------------------------------------------------------
PcLabels == {"off", "dead", "poll", "handle", "commit", "ack", "dupAck",
             "dlq", "dlqAck"}

\* Every variable ranges over what the code can store in it.
TypeOK ==
  /\ stream \in Seq(Messages \cup {Unparseable})
  /\ trimmed \in 0..Len(stream) /\ cursor \in 0..Len(stream)
  /\ hasGroup \in BOOLEAN
  /\ pel \subseteq 1..cursor /\ acked \subseteq 1..cursor
  /\ dlq \in Seq([id : 1..cursor, retries : 1..MaxRetries])
  /\ processed \subseteq {DedupKey(m) : m \in Messages}
  /\ rows \subseteq 1..cursor
  /\ device \in [Imeis -> [seen : 0..cursor, pos : 0..cursor]]
  /\ cache \in [Imeis -> 0..cursor]
  /\ pc \in [Workers -> PcLabels]
  /\ next \in [Workers -> Nat] /\ last \in [Workers -> Nat]
  /\ attempt \in [Workers -> 1..MaxRetries]
  /\ found \in [Workers -> BOOLEAN]

(* What became of an entry: it is no message, its key is processed, or the   *)
(* dead-letter stream has it.                                                *)
Accounted(i) == ~IsParseable(i) \/ Key(i) \in processed \/ i \in DlqIds

(* An acknowledged entry is never lost: XACK only follows a commit, an       *)
(* earlier commit of the same key, or a successful dlq.send, whatever fails  *)
(* or crashes in between (stream_consumer.py: _process_with_retry).          *)
AckedIsAccounted == \A i \in acked : Accounted(i)

(* Idempotence: two entries with one dedup key never both take effect, even  *)
(* when two consumers pass _is_duplicate together (UNIQUE dedup_key), and an *)
(* effect is committed with its key or not at all.                           *)
OneEffectPerKey ==
  /\ \A i, j \in rows : Key(i) = Key(j) => i = j
  /\ \A i \in rows : Key(i) \in processed

(* The group hands an entry to one consumer, once: what workers still have   *)
(* to do is disjoint, pending beyond their current entry, and no entry they  *)
(* have yet to begin is acknowledged, committed or dead-lettered.            *)
OneOwner ==
  \A w \in Workers :
    /\ \A v \in Workers \ {w} : Held(w) \cap Held(v) = {}
    /\ \A i \in Held(w) \ {next[w]} :
         i \in pel /\ i \notin acked \cup rows \cup DlqIds

(* When no reply is lost, an entry in the dead-letter stream has had no      *)
(* effect on any tracker: it can be replayed by hand.                        *)
DlqHadNoEffect == DlqIds \cap rows = {}

(* The session cache runs ahead of the database only by an entry whose fate  *)
(* is on record: committed, still pending, or dead-lettered.                 *)
CacheIsAccounted ==
  \A d \in Imeis : cache[d] # 0 => cache[d] \in rows \cup pel \cup DlqIds

(* With one consumer the cache never shows an entry older than the database. *)
CacheNotBehind ==
  \A d \in Imeis : cache[d] # 0 =>
    \A i \in rows : Msg(i).imei = d => i <= cache[d]

CacheIsSound == CacheIsAccounted /\ CacheNotBehind

(* With one consumer, last_seen_at and the last position are those of the    *)
(* newest committed entries, through crashes, retries and dead letters.      *)
DeviceIsNewest ==
  \A d \in Imeis :
    LET synced == {i \in rows : Msg(i).imei = d /\ Syncs(Msg(i))}
        placed == {i \in synced : Msg(i).kind = "position"}
    IN  /\ \A i \in synced : i <= device[d].seen
        /\ \A i \in placed : i <= device[d].pos
        /\ {device[d].seen} \ {0} \subseteq synced
        /\ {device[d].pos} \ {0} \subseteq placed

(* Every entry the gateway publishes is accounted for in the end, whatever   *)
(* the database does.                                                        *)
EveryEntryAccounted ==
  \A i \in 1..MaxPublished : i \in Ids ~> (i \in Ids /\ Accounted(i))

(* Delivery is at most once: TelemetryWorker implements AtMostOnceDelivery,  *)
(* an entry being in flight while a live consumer holds it. No code path     *)
(* reads the group's pending list again (XREADGROUP with ">" only).          *)
Delivery == INSTANCE AtMostOnceDelivery WITH
  published <- Len(stream),
  handedOut <- cursor,
  inFlight  <- UNION {Held(w) : w \in Workers},
  effects   <- rows,
  settled   <- acked

DeliveredAtMostOnce == Delivery!Spec

(* docs/ARCHITECTURE_PRINCIPLES.md: retries come before giving up, so an     *)
(* entry reaches the dead-letter stream only at its last attempt.            *)
DlqAfterRetries == \A n \in DOMAIN dlq : dlq[n].retries = MaxRetries

(* dlq.py and ADR-002: no event is lost by a restart. Provided the workers   *)
(* stay up from some point on, every entry is accounted for in the end.      *)
NoEventLostByRestart ==
  <>[](\A w \in Workers : pc[w] # "off") => EveryEntryAccounted
=============================================================================
