--------------------------- MODULE GatewaySessions ---------------------------
(***************************************************************************)
(* The gateway's TCP connections: the handler of server.py, the loop of    *)
(* protocols/gt06/base.py over one connection, the session registry of     *)
(* sessions/manager.py.                                                    *)
(*                                                                         *)
(* One asyncio loop runs a coroutine per connection. A step is what a      *)
(* coroutine does between two awaits that suspend it: a read, the XADD,    *)
(* wait_closed. Nothing suspends inside the registry's lock.               *)
(***************************************************************************)
EXTENDS Integers, Sequences, FiniteSets

CONSTANTS
  Conns,           \* the connections ever opened, each used once
  Imeis,           \* the devices
  Frames,          \* the frames a device may send
  LoginsOf,        \* Conns -> the devices that log in over the connection
  MaxConnections,  \* the semaphore's permits
  MaxFrames,       \* bound of the model: frames ever received
  MaxCommands,     \* bound of the model: commands ever routed to a device
  Faults           \* subset of {"crash", "redis", "reply", "foreign"}

(* login, beat, gps and alarm become messages; other is a valid frame that   *)
(* maps to none; short raises in the mapper; bad does not parse; noise has   *)
(* no start marker.                                                          *)
FrameTypes == {"login", "beat", "gps", "alarm", "other", "short", "bad", "noise"}

ASSUME GatewayAssumption ==
  /\ Conns \subseteq Nat \ {0}
  /\ 0 \notin Imeis
  /\ Frames \subseteq [type : FrameTypes, imei : Imeis, serial : Nat, hash : Nat]
  /\ LoginsOf \in [Conns -> SUBSET Imeis]
  /\ MaxConnections \in Nat \ {0}
  /\ MaxFrames \in Nat /\ MaxCommands \in Nat
  /\ Faults \subseteq {"crash", "redis", "reply", "foreign"}

VARIABLES
  permits,   \* the free permits of the connection semaphore
  sessions,  \* _sessions: the registered connections
  imei,      \* DeviceSession.imei, 0 for None
  active,    \* DeviceSession.last_activity
  index,     \* _imei_index, 0 where there is no entry
  closing,   \* the connections whose writer the server has closed
  pc,        \* where each connection's coroutine is
  inbox,     \* frames received and not yet processed
  msg,       \* the message being published
  clock,     \* datetime.now()
  received,  \* how many frames were received
  stream,    \* tracker:events, as far as the gateway writes it
  acked,     \* the messages (by received_at) whose frame was acknowledged
  commands   \* the commands sent: [to, over]

regVars  == <<permits, sessions, imei, index, closing>>
connVars == <<pc, inbox, msg>>
vars == <<regVars, active, connVars, clock, received, stream, acked, commands>>

NoMsg == [kind |-> "none"]

Init ==
  /\ permits = MaxConnections
  /\ sessions = {} /\ closing = {}
  /\ imei = [c \in Conns |-> 0]
  /\ active = [c \in Conns |-> 0]
  /\ index = [x \in Imeis |-> 0]
  /\ pc = [c \in Conns |-> "idle"]
  /\ inbox = [c \in Conns |-> <<>>]
  /\ msg = [c \in Conns |-> NoMsg]
  /\ clock = 0 /\ received = 0
  /\ stream = <<>> /\ acked = {} /\ commands = {}

GoTo(c, label) == pc' = [pc EXCEPT ![c] = label]
Now == clock + 1
Touch(c) == clock' = Now /\ active' = [active EXCEPT ![c] = Now]

-----------------------------------------------------------------------------
(* _handle_client: a permit, or one second of waiting for one, or the        *)
(* rejection.                                                                *)
Accept(c) ==
  /\ pc[c] \in {"idle", "waiting"} /\ permits > 0
  /\ permits' = permits - 1
  /\ sessions' = sessions \cup {c}
  /\ GoTo(c, "detect")
  /\ Touch(c)
  /\ UNCHANGED <<imei, index, closing, inbox, msg, received, stream, acked, commands>>

Wait(c) ==
  /\ pc[c] = "idle" /\ permits = 0
  /\ GoTo(c, "waiting")
  /\ UNCHANGED <<regVars, active, inbox, msg, clock, received, stream, acked, commands>>

Reject(c) ==
  /\ pc[c] = "waiting"
  /\ GoTo(c, "gone")
  /\ UNCHANGED <<regVars, active, inbox, msg, clock, received, stream, acked, commands>>

\* A frame arrives; a writer the server closed receives nothing any more.
Receive(c, f) ==
  /\ pc[c] \in {"detect", "learn", "read", "publish", "reply"}
  /\ c \in sessions /\ c \notin closing
  /\ f.type = "login" => f.imei \in LoginsOf[c]
  /\ received < MaxFrames
  /\ received' = received + 1
  /\ inbox' = [inbox EXCEPT ![c] = Append(@, f)]
  /\ UNCHANGED <<regVars, active, pc, msg, clock, stream, acked, commands>>

(* _detect_protocol: bytes without a known marker go to the learning mode,   *)
(* which reads and never publishes.                                          *)
Detect(c) ==
  /\ pc[c] = "detect" /\ inbox[c] # <<>>
  /\ GoTo(c, IF Head(inbox[c]).type = "noise" THEN "learn" ELSE "read")
  /\ UNCHANGED <<regVars, active, inbox, msg, clock, received, stream, acked, commands>>

Learn(c) ==
  /\ pc[c] = "learn" /\ inbox[c] # <<>>
  /\ inbox' = [inbox EXCEPT ![c] = Tail(@)]
  /\ UNCHANGED <<regVars, active, pc, msg, clock, received, stream, acked, commands>>

-----------------------------------------------------------------------------
Contract(kind, x, f, at, c) ==
  [kind |-> kind, imei |-> x, serial |-> f.serial, hash |-> f.hash,
   at |-> at, conn |-> c]

KindOf(type) ==
  CASE type = "login" -> "login"    [] type = "beat"  -> "heartbeat"
    [] type = "gps"   -> "position" [] type = "alarm" -> "event"

\* map_packet gives no message without an IMEI, nor for other packet types.
HasMessage(f, x) == x # 0 /\ f.type \in {"login", "beat", "gps", "alarm"}

(* manager.remove, then the disconnect of the finally block. The index entry *)
(* goes only if it is still this connection's.                               *)
RemoveAlways(c) == [index EXCEPT ![imei[c]] = 0]
RemoveOwn(c) ==
  IF index[imei[c]] = c THEN [index EXCEPT ![imei[c]] = 0] ELSE index

Disconnect(c, at) ==
  [kind |-> "disconnect", imei |-> imei[c], serial |-> 0, hash |-> 0,
   at |-> at, conn |-> c]

\* Only the end of a session that was bound is announced.
AnnouncesIfOwner(c) == imei[c] # 0 /\ index[imei[c]] = c
Announces(c) == imei[c] # 0

(* The coroutine leaves its loop: nothing suspends it before the next XADD.  *)
FinishAt(c, at) ==
  /\ sessions' = sessions \ {c}
  /\ inbox' = [inbox EXCEPT ![c] = <<>>]
  /\ index' = IF imei[c] = 0 THEN index ELSE RemoveOwn(c)
  /\ IF Announces(c)
     THEN /\ msg' = [msg EXCEPT ![c] = Disconnect(c, at)]
          /\ GoTo(c, "publish")
          /\ UNCHANGED closing
     ELSE /\ msg' = [msg EXCEPT ![c] = NoMsg]
          /\ GoTo(c, "closing")
          /\ closing' = closing \cup {c}
  /\ UNCHANGED <<permits, imei>>

Finish(c) == FinishAt(c, active[c])

\* bind_imei: the connection that had the IMEI is closed.
StaleKept(c, x) == {}
Stale(c, x) == {index[x]} \cap (sessions \ {c})

Bind(c, x) ==
  /\ imei' = [imei EXCEPT ![c] = x]
  /\ index' = [index EXCEPT ![x] = c]
  /\ closing' = closing \cup Stale(c, x)

\* The write and the drain of the ACK, which raises on a closed writer.
AckFails(c) == c \in closing

-----------------------------------------------------------------------------
(* _process_buffer, one frame up to the XADD or, without a message, through  *)
(* the ACK.                                                                  *)
SkipFrame(c) ==
  /\ pc[c] = "read" /\ inbox[c] # <<>>
  /\ Head(inbox[c]).type \in {"bad", "noise"}
  /\ inbox' = [inbox EXCEPT ![c] = Tail(@)]
  /\ UNCHANGED <<regVars, active, pc, msg, clock, received, stream, acked, commands>>

FrameRaises(c) ==
  /\ pc[c] = "read" /\ inbox[c] # <<>>
  /\ Head(inbox[c]).type = "short" /\ imei[c] # 0
  /\ Finish(c)
  /\ UNCHANGED <<active, clock, received, stream, acked, commands>>

FrameWithoutMessage(c) ==
  /\ pc[c] = "read" /\ inbox[c] # <<>>
  /\ LET f == Head(inbox[c]) IN
       /\ f.type \notin {"bad", "noise", "login"}
       /\ ~HasMessage(f, imei[c]) /\ ~(f.type = "short" /\ imei[c] # 0)
  /\ IF AckFails(c)
     THEN Finish(c)
     ELSE /\ inbox' = [inbox EXCEPT ![c] = Tail(@)]
          /\ UNCHANGED <<regVars, pc, msg>>
  /\ UNCHANGED <<active, clock, received, stream, acked, commands>>

FrameWithMessage(c) ==
  /\ pc[c] = "read" /\ inbox[c] # <<>>
  /\ LET f == Head(inbox[c])
         x == IF f.type = "login" THEN f.imei ELSE imei[c]
     IN  /\ HasMessage(f, x)
         /\ IF f.type = "login"
            THEN Bind(c, x) /\ Touch(c)
            ELSE clock' = Now /\ UNCHANGED <<imei, index, closing, active>>
         /\ msg' = [msg EXCEPT ![c] = Contract(KindOf(f.type), x, f, Now, c)]
  /\ inbox' = [inbox EXCEPT ![c] = Tail(@)]
  /\ GoTo(c, "publish")
  /\ UNCHANGED <<permits, sessions, received, stream, acked, commands>>

\* The reads that end on EOF and on the idle timeout.
TimedReadsButLearning == {"detect", "read"}
TimedReads == {"detect", "learn", "read"}

\* EOF, the idle timeout, or the end of a connection the server closed.
HangUp(c) ==
  /\ pc[c] \in TimedReads /\ inbox[c] = <<>>
  /\ Finish(c)
  /\ UNCHANGED <<active, clock, received, stream, acked, commands>>

-----------------------------------------------------------------------------
\* publish: Redis executes the XADD ...
XAdd(c) ==
  /\ pc[c] = "publish"
  /\ stream' = Append(stream, msg[c])
  /\ GoTo(c, "reply")
  /\ UNCHANGED <<regVars, active, inbox, msg, clock, received, acked, commands>>

\* ... the reply to a frame's XADD arrives: touch, then the ACK ...
Published(c) ==
  /\ pc[c] = "reply" /\ msg[c].kind # "disconnect"
  /\ Touch(c)
  /\ IF AckFails(c)
     THEN FinishAt(c, Now) /\ UNCHANGED acked
     ELSE /\ acked' = acked \cup {msg[c].at}
          /\ msg' = [msg EXCEPT ![c] = NoMsg]
          /\ GoTo(c, "read")
          /\ UNCHANGED <<regVars, inbox>>
  /\ UNCHANGED <<received, stream, commands>>

\* ... or it fails, with or without having taken effect: no ACK.
OnPublishErrorAcked(c) ==
  /\ acked' = acked \cup {msg[c].at}
  /\ GoTo(c, "read")
  /\ UNCHANGED <<regVars, inbox, msg>>
OnPublishErrorResent(c) == GoTo(c, "publish") /\ UNCHANGED <<regVars, inbox, msg, acked>>
OnPublishError(c) == Finish(c) /\ UNCHANGED acked

PublishFails(c) ==
  /\ \/ pc[c] = "publish" /\ Faults \cap {"redis", "foreign"} # {}
     \/ pc[c] = "reply" /\ "reply" \in Faults
  /\ msg[c].kind # "disconnect"
  /\ OnPublishError(c)
  /\ UNCHANGED <<active, clock, received, stream, commands>>

(* The disconnect is published, or its PublishEventError logged: the writer  *)
(* is closed.                                                                *)
Announced(c) ==
  /\ \/ pc[c] = "reply"
     \/ pc[c] = "publish" /\ "redis" \in Faults
  /\ msg[c].kind = "disconnect"
  /\ GoTo(c, "closing")
  /\ closing' = closing \cup {c}
  /\ msg' = [msg EXCEPT ![c] = NoMsg]
  /\ UNCHANGED <<permits, sessions, imei, index, active, inbox, clock, received,
                 stream, acked, commands>>

(* Any other exception in the finally block skips the rest of it: the writer *)
(* is not closed, the permit not released.                                   *)
AnnounceRaises(c) ==
  /\ "foreign" \in Faults
  /\ pc[c] = "publish" /\ msg[c].kind = "disconnect"
  /\ GoTo(c, "leaked")
  /\ UNCHANGED <<regVars, active, inbox, msg, clock, received, stream, acked, commands>>

\* wait_closed returns.
ReleaseTwice(c) == permits + 2
ReleaseOne(c) == permits + 1
Release(c) ==
  /\ pc[c] = "closing"
  /\ permits' = ReleaseOne(c)
  /\ GoTo(c, "gone")
  /\ UNCHANGED <<sessions, imei, index, closing, active, inbox, msg, clock,
                 received, stream, acked, commands>>

-----------------------------------------------------------------------------
\* get_by_imei: the session a command to the device is written to.
Route(x) == IF index[x] \in sessions THEN index[x] ELSE 0

SendCommand(x) ==
  /\ Cardinality(commands) < MaxCommands
  /\ Route(x) # 0 /\ ~AckFails(Route(x))
  /\ Touch(Route(x))
  /\ commands' = commands \cup {[to |-> x, over |-> imei[Route(x)]]}
  /\ UNCHANGED <<regVars, connVars, received, stream, acked>>

(* The process dies and is restarted: every connection is gone, and no       *)
(* disconnect was published.                                                 *)
Crash ==
  /\ "crash" \in Faults
  /\ \E c \in Conns : pc[c] \notin {"idle", "gone"}
  /\ permits' = MaxConnections
  /\ sessions' = {} /\ closing' = {}
  /\ imei' = [c \in Conns |-> 0]
  /\ active' = [c \in Conns |-> 0]
  /\ index' = [x \in Imeis |-> 0]
  /\ pc' = [c \in Conns |-> IF pc[c] = "idle" THEN "idle" ELSE "gone"]
  /\ inbox' = [c \in Conns |-> <<>>]
  /\ msg' = [c \in Conns |-> NoMsg]
  /\ UNCHANGED <<clock, received, stream, acked, commands>>

-----------------------------------------------------------------------------
\* What the coroutine of a connection does, once it has a permit or waits.
Run(c) ==
  \/ Reject(c)
  \/ Detect(c) \/ Learn(c)
  \/ SkipFrame(c) \/ FrameRaises(c) \/ FrameWithoutMessage(c)
  \/ FrameWithMessage(c) \/ HangUp(c)
  \/ XAdd(c) \/ Published(c) \/ PublishFails(c)
  \/ Announced(c) \/ AnnounceRaises(c)
  \/ Release(c)

Next ==
  \/ \E c \in Conns :
       \/ Accept(c) \/ Wait(c) \/ Run(c)
       \/ \E f \in Frames : Receive(c, f)
  \/ \E x \in Imeis : SendCommand(x)
  \/ Crash

Spec == Init /\ [][Next]_vars

(* The loop resumes a coroutine whose read, reply or timer is ready; the     *)
(* idle timeout and the one second of waiting always end.                    *)
FairSpec == Spec /\ \A c \in Conns : WF_vars(Run(c))
-----------------------------------------------------------------------------
Holders ==
  {c \in Conns : pc[c] \in {"detect", "learn", "read", "publish", "reply", "closing", "leaked"}}
Waits == {"idle", "waiting", "gone"}
PcLabels == Waits \cup {"detect", "learn", "read", "publish", "reply", "closing", "leaked"}

Contracts ==
  [kind : {"login", "heartbeat", "position", "event", "disconnect"},
   imei : Imeis, serial : Nat, hash : Nat, at : 0..clock, conn : Conns]

\* Every variable ranges over what the code can store in it.
TypeOK ==
  /\ permits \in 0..MaxConnections
  /\ sessions \subseteq Conns /\ closing \subseteq Conns
  /\ imei \in [Conns -> Imeis \cup {0}]
  /\ index \in [Imeis -> Conns \cup {0}]
  /\ clock \in Nat /\ active \in [Conns -> 0..clock]
  /\ pc \in [Conns -> PcLabels]
  /\ inbox \in [Conns -> Seq(Frames)]
  /\ msg \in [Conns -> Contracts \cup {NoMsg}]
  /\ received \in Nat
  /\ stream \in Seq(Contracts)
  /\ acked \subseteq 0..clock
  /\ commands \subseteq [to : Imeis, over : Imeis \cup {0}]

(* Backpressure: each accepted connection holds one permit until it is gone, *)
(* on every way out of the handler but one (a finally block that raises      *)
(* keeps it for ever), and only such a connection is a session.              *)
PermitsBalance ==
  /\ permits + Cardinality(Holders) = MaxConnections
  /\ sessions \subseteq Holders

(* The registry never loses a device: the connection that is open and bound  *)
(* to an IMEI is the one its index names, so a device has at most one,       *)
(* whatever reconnects, reorders or fails.                                   *)
OpenIsIndexed ==
  \A c \in sessions \ closing : imei[c] # 0 => index[imei[c]] = c

(* The index names a live session of that very device, so that a command     *)
(* goes to the device it is for ("mapeamento IMEI <-> sessao TCP").          *)
RouteReachesDevice ==
  /\ \A x \in Imeis : index[x] # 0 => index[x] \in sessions /\ imei[index[x]] = x
  /\ \A k \in commands : k.over = k.to

RegistryIsExact == PermitsBalance /\ OpenIsIndexed /\ RouteReachesDevice

(* A frame is acknowledged to the device only once its message is in the     *)
(* stream: the device's retransmissions cover every failure before that.     *)
AckedIsPublished ==
  \A a \in acked :
    \E n \in DOMAIN stream : stream[n].at = a /\ stream[n].kind # "disconnect"

(* The stream tells a connection's story in order: received_at grows, and    *)
(* the disconnect, if any, is its last word, once.                           *)
StoryInOrder ==
  \A m, n \in DOMAIN stream :
    m < n /\ stream[m].conn = stream[n].conn =>
      /\ stream[m].kind # "disconnect"
      /\ stream[n].kind # "disconnect" => stream[m].at < stream[n].at

(* While Redis answers, the end of every session that was bound is announced *)
(* to the platform.                                                          *)
EndIsAnnounced ==
  \A c \in Conns : pc[c] = "gone" /\ imei[c] # 0 =>
    \E n \in DOMAIN stream :
      stream[n].kind = "disconnect" /\ stream[n].conn = c /\ stream[n].imei = imei[c]

(* A connection that is superseded or falls silent ends and gives its permit *)
(* back; one that waits for a permit is accepted or turned away.             *)
SlotReclaimed ==
  \A c \in Conns : pc[c] \in PcLabels \ {"idle", "gone"} ~> pc[c] = "gone"
=============================================================================
