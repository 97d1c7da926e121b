------------------------ MODULE GatewaySessionsProofs ------------------------
(***************************************************************************)
(* Proofs about GatewaySessions, for any connections, devices and frames,  *)
(* any number of permits, and any subset of the faults unless a theorem    *)
(* names the ones it excludes.                                             *)
(***************************************************************************)
EXTENDS GatewaySessions, FiniteSetTheorems, TLAPS

(* A session is what serves its device: its disconnect is not on the way.    *)
Serves(c) ==
  \/ pc[c] \in {"detect", "learn", "read"}
  \/ pc[c] \in {"publish", "reply"} /\ msg[c].kind # "disconnect"

SessionInv == \A c \in Conns : c \in sessions <=> Serves(c)

(* What a coroutine is publishing is a message of its own connection.        *)
MsgInv ==
  \A c \in Conns : pc[c] \in {"publish", "reply"} =>
    msg[c] \in Contracts /\ msg[c].conn = c

(* The connections that hold a permit are finitely many: no more than there  *)
(* are permits.                                                              *)
PermitInv == IsFiniteSet(Holders) /\ PermitsBalance

TypeInv == TypeOK /\ SessionInv /\ MsgInv /\ PermitInv

(* Only connection c moves.                                                  *)
OnlyMoves(c) ==
  \A d \in Conns \ {c} :
    /\ pc'[d] = pc[d] /\ msg'[d] = msg[d]
    /\ imei'[d] = imei[d] /\ inbox'[d] = inbox[d]
    /\ d \in sessions' <=> d \in sessions

-----------------------------------------------------------------------------
\* What was a value at one time still is one later.
LEMMA ClockMoves ==
  ASSUME TypeOK, clock' \in {clock, Now}
  PROVE  /\ clock' \in Nat /\ clock <= clock' /\ clock \in 0..clock'
         /\ Contracts \subseteq Contracts'
         /\ 0..clock \subseteq 0..clock'
         /\ stream \in Seq(Contracts') /\ acked \subseteq 0..clock'
         /\ active \in [Conns -> 0..clock']
         /\ msg \in [Conns -> Contracts' \cup {NoMsg}]
<1>1. clock \in Nat /\ clock' \in Nat /\ clock <= clock'
  BY DEF TypeOK, Now
<1>2. 0..clock \subseteq 0..clock' /\ clock \in 0..clock'
  BY <1>1
<1>3. Contracts \subseteq Contracts'
  BY <1>2 DEF Contracts
<1>4. stream \in Seq(Contracts')
  <2>1. \A S, T : S \subseteq T => Seq(S) \subseteq Seq(T)
    OBVIOUS
  <2> QED
    BY <1>3, <2>1 DEF TypeOK
<1>5. active \in [Conns -> 0..clock'] /\ acked \subseteq 0..clock'
  BY <1>2 DEF TypeOK
<1>6. msg \in [Conns -> Contracts' \cup {NoMsg}]
  BY <1>3 DEF TypeOK
<1> QED
  BY <1>1, <1>2, <1>3, <1>4, <1>5, <1>6

\* The coroutine of c is where it is sent.
LEMMA GoToLabel ==
  ASSUME TypeOK, NEW c \in Conns, NEW label \in PcLabels, GoTo(c, label)
  PROVE  /\ pc' \in [Conns -> PcLabels] /\ pc'[c] = label
         /\ \A d \in Conns \ {c} : pc'[d] = pc[d]
  BY DEF GoTo, TypeOK

\* The messages a coroutine makes are contracts.
LEMMA DisconnectTyped ==
  ASSUME TypeOK, NEW c \in Conns, NEW at \in 0..clock', imei[c] # 0
  PROVE  /\ Disconnect(c, at) \in Contracts'
         /\ Disconnect(c, at).conn = c /\ Disconnect(c, at).kind = "disconnect"
         /\ Disconnect(c, at).imei = imei[c]
<1>1. imei[c] \in Imeis
  BY DEF TypeOK
<1> QED
  BY <1>1 DEF Disconnect, Contracts

LEMMA ContractTyped ==
  ASSUME TypeOK, clock' = Now, NEW c \in Conns, NEW f \in Frames,
         NEW x, HasMessage(f, x), x \in Imeis
  PROVE  LET m == Contract(KindOf(f.type), x, f, Now, c) IN
         /\ m \in Contracts' /\ m.conn = c /\ m.kind # "disconnect" /\ m.at = Now
         /\ m.imei = x
<1>1. KindOf(f.type) \in {"login", "heartbeat", "position", "event"}
  BY DEF KindOf, HasMessage
<1>2. f.serial \in Nat /\ f.hash \in Nat
  BY GatewayAssumption
<1>3. Now \in 0..clock'
  BY DEF TypeOK, Now
<1> QED
  BY <1>1, <1>2, <1>3 DEF Contract, Contracts

-----------------------------------------------------------------------------
(* The permits. What a step of c must respect.                               *)
LEMMA PermitStep ==
  ASSUME TypeInv, TypeOK', SessionInv', NEW c \in Conns,
         \A d \in Conns \ {c} : pc'[d] = pc[d],
         \/ permits' = permits /\ (pc[c] \in Waits <=> pc'[c] \in Waits)
         \/ permits' = permits - 1 /\ pc[c] \in Waits /\ pc'[c] \notin Waits
         \/ permits' = permits + 1 /\ pc[c] \notin Waits /\ pc'[c] \in Waits
  PROVE  PermitInv'
<1>1. \A d \in Conns : /\ d \in Holders <=> pc[d] \notin Waits
                       /\ d \in Holders' <=> pc'[d] \notin Waits
  BY DEF TypeInv, TypeOK, Holders, PcLabels, Waits
<1>2. Holders \subseteq Conns /\ Holders' \subseteq Conns
  BY DEF Holders
<1>3. IsFiniteSet(Holders) /\ Cardinality(Holders) \in Nat /\ permits \in Nat
      /\ permits + Cardinality(Holders) = MaxConnections
  BY FS_CardinalityType DEF TypeInv, PermitInv, PermitsBalance, TypeOK
<1>4. sessions' \subseteq Holders'
  BY DEF SessionInv, Serves, Holders, TypeOK
<1>5. CASE permits' = permits /\ (pc[c] \in Waits <=> pc'[c] \in Waits)
  <2>1. Holders' = Holders
    BY <1>1, <1>2, <1>5
  <2> QED
    BY <1>3, <1>4, <1>5, <2>1 DEF PermitInv, PermitsBalance
<1>6. CASE permits' = permits - 1 /\ pc[c] \in Waits /\ pc'[c] \notin Waits
  <2>1. Holders' = Holders \cup {c} /\ c \notin Holders
    BY <1>1, <1>2, <1>6
  <2>2. IsFiniteSet(Holders') /\ Cardinality(Holders') = Cardinality(Holders) + 1
    BY <1>3, <2>1, FS_AddElement
  <2> QED
    BY <1>3, <1>4, <1>6, <2>2 DEF PermitInv, PermitsBalance
<1>7. CASE permits' = permits + 1 /\ pc[c] \notin Waits /\ pc'[c] \in Waits
  <2>1. Holders' = Holders \ {c} /\ c \in Holders
    BY <1>1, <1>2, <1>7
  <2>2. IsFiniteSet(Holders') /\ Cardinality(Holders') = Cardinality(Holders) - 1
    BY <1>3, <2>1, FS_RemoveElement
  <2> QED
    BY <1>3, <1>4, <1>7, <2>2 DEF PermitInv, PermitsBalance
<1> QED
  BY <1>5, <1>6, <1>7

\* What a step of c must respect to keep the sessions, messages and permits.
LEMMA TypeStep ==
  ASSUME TypeInv, TypeOK', NEW c \in Conns, OnlyMoves(c), clock' \in {clock, Now},
         c \in sessions' <=> Serves(c)',
         pc'[c] \in {"publish", "reply"} => msg'[c] \in Contracts' /\ msg'[c].conn = c,
         \/ permits' = permits /\ (pc[c] \in Waits <=> pc'[c] \in Waits)
         \/ permits' = permits - 1 /\ pc[c] \in Waits /\ pc'[c] \notin Waits
         \/ permits' = permits + 1 /\ pc[c] \notin Waits /\ pc'[c] \in Waits
  PROVE  TypeInv'
<1>1. SessionInv'
  BY DEF TypeInv, SessionInv, OnlyMoves, Serves
<1>2. Contracts \subseteq Contracts'
  BY ClockMoves DEF TypeInv
<1>3. MsgInv'
  BY <1>2 DEF TypeInv, MsgInv, OnlyMoves
<1>4. PermitInv'
  BY <1>1, PermitStep DEF OnlyMoves
<1> QED
  BY <1>1, <1>3, <1>4 DEF TypeInv

-----------------------------------------------------------------------------
(* A coroutine leaves its loop.                                              *)
Ends(c) ==
  /\ Serves(c)
  /\ clock' \in {clock, Now} /\ active' \in [Conns -> 0..clock']
  /\ \E at \in 0..clock' : FinishAt(c, at)
  /\ UNCHANGED <<received, stream, acked, commands>>

\* The four ways out of a frame, and the fifth after the XADD, are that.
LEMMA FinishEnds ==
  ASSUME TypeOK, NEW c \in Conns, Serves(c), Finish(c),
         UNCHANGED <<active, clock, received, stream, acked, commands>>
  PROVE  Ends(c)
<1>1. active[c] \in 0..clock'
  BY DEF TypeOK
<1> QED
  BY <1>1 DEF Ends, Finish, TypeOK

LEMMA WaysOut ==
  ASSUME TypeOK, NEW c \in Conns,
         \/ FrameRaises(c) \/ HangUp(c) \/ PublishFails(c)
         \/ FrameWithoutMessage(c) /\ AckFails(c)
         \/ Published(c) /\ AckFails(c)
  PROVE  Ends(c)
<1>1. CASE \/ FrameRaises(c) \/ HangUp(c) \/ PublishFails(c)
           \/ FrameWithoutMessage(c) /\ AckFails(c)
  <2>1. /\ Serves(c) /\ Finish(c)
        /\ UNCHANGED <<active, clock, received, stream, acked, commands>>
    BY <1>1 DEF FrameRaises, HangUp, PublishFails, FrameWithoutMessage,
                OnPublishError, Serves, TimedReads
  <2> QED
    BY <2>1, FinishEnds
<1>2. CASE Published(c) /\ AckFails(c)
  <2>1. /\ Serves(c) /\ FinishAt(c, Now) /\ clock' = Now
        /\ active' = [active EXCEPT ![c] = Now]
        /\ UNCHANGED <<received, stream, acked, commands>>
    BY <1>2 DEF Published, Touch, Serves
  <2>2. Now \in 0..clock' /\ active \in [Conns -> 0..clock']
    BY <2>1, ClockMoves DEF TypeOK, Now
  <2> QED
    BY <2>1, <2>2 DEF Ends
<1> QED
  BY <1>1, <1>2

\* What that does to its connection.
LEMMA EndsEffect ==
  ASSUME TypeOK, NEW c \in Conns, Ends(c)
  PROVE  /\ OnlyMoves(c) /\ UNCHANGED <<permits, imei>>
         /\ sessions' = sessions \ {c} /\ closing \subseteq closing'
         /\ inbox'[c] = <<>>
         /\ index' = IF imei[c] = 0 THEN index ELSE RemoveOwn(c)
         /\ IF imei[c] = 0
            THEN pc'[c] = "closing"
            ELSE /\ pc'[c] = "publish" /\ msg'[c] \in Contracts'
                 /\ msg'[c].kind = "disconnect" /\ msg'[c].conn = c
                 /\ msg'[c].imei = imei[c]
<1>1. PICK at \in 0..clock' : FinishAt(c, at)
  BY DEF Ends
<1>2. /\ UNCHANGED <<permits, imei>>
      /\ sessions' = sessions \ {c} /\ closing \subseteq closing'
      /\ index' = IF imei[c] = 0 THEN index ELSE RemoveOwn(c)
      /\ inbox' = [inbox EXCEPT ![c] = <<>>]
      /\ IF imei[c] = 0
         THEN msg' = [msg EXCEPT ![c] = NoMsg] /\ GoTo(c, "closing")
         ELSE msg' = [msg EXCEPT ![c] = Disconnect(c, at)] /\ GoTo(c, "publish")
  BY <1>1 DEF FinishAt, Announces
<1>3. OnlyMoves(c) /\ inbox'[c] = <<>>
  BY <1>2, GoToLabel DEF OnlyMoves, TypeOK, PcLabels
<1>4. CASE imei[c] = 0
  BY <1>2, <1>3, <1>4, GoToLabel DEF PcLabels
<1>5. CASE imei[c] # 0
  <2>1. msg'[c] = Disconnect(c, at) /\ pc'[c] = "publish"
    BY <1>2, <1>5, GoToLabel DEF PcLabels, TypeOK
  <2> QED
    BY <1>2, <1>3, <1>5, <2>1, DisconnectTyped
<1> QED
  BY <1>4, <1>5

LEMMA EndsTyped ==
  ASSUME TypeInv, NEW c \in Conns, Ends(c)
  PROVE  TypeInv'
<1>1. PICK at \in 0..clock' : FinishAt(c, at)
  BY DEF Ends
<1>2. TypeOK
  BY DEF TypeInv
<1>3. clock' \in {clock, Now} /\ active' \in [Conns -> 0..clock']
      /\ UNCHANGED <<permits, imei, received, stream, acked, commands>>
  BY <1>1 DEF Ends, FinishAt
<1>4. sessions' \subseteq Conns /\ closing' \subseteq Conns
  BY <1>1, <1>2 DEF FinishAt, TypeOK
<1>5. index' \in [Imeis -> Conns \cup {0}]
  BY <1>1, <1>2 DEF FinishAt, RemoveOwn, TypeOK
<1>6. pc' \in [Conns -> PcLabels]
  BY <1>1, <1>2 DEF FinishAt, GoTo, TypeOK, PcLabels
<1>7. inbox' \in [Conns -> Seq(Frames)]
  BY <1>1, <1>2 DEF FinishAt, TypeOK
<1>8. msg' \in [Conns -> Contracts' \cup {NoMsg}]
  <2>1. msg \in [Conns -> Contracts' \cup {NoMsg}]
    BY <1>2, <1>3, ClockMoves
  <2>2. imei[c] # 0 => Disconnect(c, at) \in Contracts'
    BY <1>2, DisconnectTyped
  <2>3. \/ msg' = [msg EXCEPT ![c] = NoMsg]
        \/ imei[c] # 0 /\ msg' = [msg EXCEPT ![c] = Disconnect(c, at)]
    BY <1>1 DEF FinishAt, Announces
  <2> QED
    BY <2>1, <2>2, <2>3
<1>9. TypeOK'
  BY <1>2, <1>3, <1>4, <1>5, <1>6, <1>7, <1>8, ClockMoves DEF TypeOK
<1>10. pc'[c] \in {"publish", "closing"} /\ (pc'[c] = "publish" => msg'[c].kind = "disconnect")
  BY <1>2, EndsEffect
<1>11. pc[c] \notin Waits /\ pc'[c] \notin Waits
  BY <1>10 DEF Ends, Serves, Waits
<1>12. c \notin sessions' /\ ~Serves(c)'
  BY <1>2, <1>10, EndsEffect DEF Serves
<1>13. OnlyMoves(c)
  BY <1>2, EndsEffect
<1>14. pc'[c] \in {"publish", "reply"} => msg'[c] \in Contracts' /\ msg'[c].conn = c
  BY <1>2, <1>10, EndsEffect
<1> QED
  BY <1>3, <1>9, <1>11, <1>12, <1>13, <1>14, TypeStep

-----------------------------------------------------------------------------
(* The steps that stay: the coroutine moves on at its connection.            *)
\* What a step without a new message, a new binding or a new permit needs.
LEMMA StaysTyped ==
  ASSUME TypeInv, NEW c \in Conns, NEW label \in PcLabels,
         GoTo(c, label), UNCHANGED <<regVars, msg, received, stream, commands>>,
         clock' \in {clock, Now}, active' \in [Conns -> 0..clock'],
         acked' \subseteq 0..clock', inbox' \in [Conns -> Seq(Frames)],
         \A d \in Conns \ {c} : inbox'[d] = inbox[d],
         label \in Waits <=> pc[c] \in Waits,
         label \in {"publish", "reply"} => msg[c] \in Contracts /\ msg[c].conn = c,
         Serves(c)' <=> Serves(c)
  PROVE  TypeInv'
<1>1. TypeOK
  BY DEF TypeInv
<1>2. UNCHANGED <<permits, sessions, imei, index, closing>>
  BY DEF regVars
<1>3. /\ pc' \in [Conns -> PcLabels] /\ pc'[c] = label
      /\ \A d \in Conns \ {c} : pc'[d] = pc[d]
  BY <1>1, GoToLabel
<1>4. TypeOK'
  BY <1>1, <1>2, <1>3, ClockMoves DEF TypeOK
<1>5. OnlyMoves(c)
  BY <1>2, <1>3 DEF OnlyMoves
<1>6. c \in sessions' <=> Serves(c)'
  BY <1>2 DEF TypeInv, SessionInv
<1>7. pc'[c] \in {"publish", "reply"} => msg'[c] \in Contracts' /\ msg'[c].conn = c
  BY <1>1, <1>3, ClockMoves
<1> QED
  BY <1>2, <1>3, <1>4, <1>5, <1>6, <1>7, TypeStep

\* The tail of a sequence of frames, and the head of one that has some.
LEMMA InboxTyped ==
  ASSUME TypeOK, NEW c \in Conns, inbox[c] # <<>>
  PROVE  /\ Head(inbox[c]) \in Frames
         /\ [inbox EXCEPT ![c] = Tail(@)] \in [Conns -> Seq(Frames)]
<1>1. inbox[c] \in Seq(Frames)
  BY DEF TypeOK
<1>2. Head(inbox[c]) \in Frames /\ Tail(inbox[c]) \in Seq(Frames)
  BY <1>1
<1> QED
  BY <1>2 DEF TypeOK

Quiet(c) ==
  \/ Wait(c) \/ Reject(c) \/ Detect(c) \/ Learn(c) \/ SkipFrame(c)
  \/ FrameWithoutMessage(c) /\ ~AckFails(c)

\* The steps of a coroutine that publish what it has to say, and its last one.
Speaks(c) ==
  \/ XAdd(c) \/ (Published(c) /\ ~AckFails(c))
  \/ Announced(c) \/ AnnounceRaises(c) \/ Release(c)

LEMMA RunKinds ==
  ASSUME TypeOK, NEW c \in Conns, Run(c)
  PROVE  Ends(c) \/ FrameWithMessage(c) \/ Quiet(c) \/ Speaks(c)
<1>1. \/ Quiet(c) \/ Speaks(c) \/ FrameWithMessage(c)
      \/ FrameRaises(c) \/ HangUp(c) \/ PublishFails(c)
      \/ FrameWithoutMessage(c) /\ AckFails(c)
      \/ Published(c) /\ AckFails(c)
  BY DEF Run, Quiet, Speaks
<1> QED
  BY <1>1, WaysOut

LEMMA QuietTyped ==
  ASSUME TypeInv, NEW c \in Conns, Quiet(c)
  PROVE  TypeInv'
<1> USE DEF Quiet
<1>1. TypeOK
  BY DEF TypeInv
<1>2. UNCHANGED <<regVars, msg, received, stream, commands, active, clock, acked>>
  BY DEF Wait, Reject, Detect, Learn, SkipFrame, FrameWithoutMessage
<1>3. inbox' = inbox \/ (inbox[c] # <<>> /\ inbox' = [inbox EXCEPT ![c] = Tail(@)])
  BY DEF Wait, Reject, Detect, Learn, SkipFrame, FrameWithoutMessage
<1>4. \/ pc[c] \in {"idle", "waiting"} /\ (GoTo(c, "waiting") \/ GoTo(c, "gone"))
      \/ pc[c] = "detect" /\ (GoTo(c, "learn") \/ GoTo(c, "read"))
      \/ pc[c] = "learn" /\ GoTo(c, "learn")
      \/ pc[c] = "read" /\ GoTo(c, "read")
  BY <1>1 DEF Wait, Reject, Detect, Learn, SkipFrame, FrameWithoutMessage, GoTo, TypeOK
<1>5. PICK label \in PcLabels \ {"publish", "reply", "closing", "leaked"} :
        /\ GoTo(c, label) /\ (label \in Waits <=> pc[c] \in Waits)
        /\ label \in {"detect", "learn", "read"} <=> pc[c] \in {"detect", "learn", "read"}
        /\ pc[c] \notin {"publish", "reply"}
  BY <1>4 DEF PcLabels, Waits
<1>6. Serves(c)' <=> Serves(c)
  BY <1>1, <1>5, GoToLabel DEF Serves
<1>7. inbox' \in [Conns -> Seq(Frames)] /\ \A d \in Conns \ {c} : inbox'[d] = inbox[d]
  BY <1>1, <1>3, InboxTyped DEF TypeOK
<1>8. active' \in [Conns -> 0..clock'] /\ acked' \subseteq 0..clock'
  BY <1>1, <1>2 DEF TypeOK
<1> QED
  BY <1>2, <1>5, <1>6, <1>7, <1>8, StaysTyped

LEMMA ReceiveTyped ==
  ASSUME TypeInv, NEW c \in Conns, NEW f \in Frames, Receive(c, f)
  PROVE  TypeInv'
<1>1. inbox' \in [Conns -> Seq(Frames)] /\ \A d \in Conns \ {c} : inbox'[d] = inbox[d]
  BY DEF Receive, TypeInv, TypeOK
<1>2. received' \in Nat
  BY DEF Receive, TypeInv, TypeOK
<1>3. UNCHANGED <<regVars, active, pc, msg, clock, stream, acked, commands>>
  BY DEF Receive
<1>4. Holders' = Holders /\ Contracts' = Contracts
  BY <1>3 DEF Holders, Contracts
<1> QED
  BY <1>1, <1>2, <1>3, <1>4 DEF TypeInv, TypeOK, SessionInv, Serves, MsgInv, PermitInv,
     PermitsBalance, regVars

\* The first and the last step with a permit.
LEMMA AcceptTyped ==
  ASSUME TypeInv, NEW c \in Conns, Accept(c)
  PROVE  TypeInv'
<1>1. TypeOK
  BY DEF TypeInv
<1>2. /\ pc[c] \in Waits /\ permits > 0 /\ permits' = permits - 1
      /\ sessions' = sessions \cup {c} /\ GoTo(c, "detect")
      /\ clock' = Now /\ active' = [active EXCEPT ![c] = Now]
      /\ UNCHANGED <<imei, index, closing, inbox, msg, received, stream, acked, commands>>
  BY DEF Accept, Touch, Waits
<1>3. pc' \in [Conns -> PcLabels] /\ pc'[c] = "detect" /\ OnlyMoves(c)
  BY <1>1, <1>2, GoToLabel DEF OnlyMoves, PcLabels
<1>4. active' \in [Conns -> 0..clock'] /\ clock' \in Nat
  <2>1. active \in [Conns -> 0..clock'] /\ Now \in 0..clock' /\ clock' \in Nat
    BY <1>1, <1>2, ClockMoves DEF TypeOK, Now
  <2> QED
    BY <1>2, <2>1
<1>5. permits' \in 0..MaxConnections
  BY <1>1, <1>2, GatewayAssumption DEF TypeOK
<1>6. TypeOK'
  BY <1>1, <1>2, <1>3, <1>4, <1>5, ClockMoves DEF TypeOK
<1>7. pc'[c] \notin Waits /\ (c \in sessions' <=> Serves(c)')
  BY <1>2, <1>3 DEF Waits, Serves
<1> QED
  BY <1>2, <1>3, <1>6, <1>7, TypeStep

LEMMA ReleaseTyped ==
  ASSUME TypeInv, NEW c \in Conns, Release(c)
  PROVE  TypeInv'
<1>1. TypeOK
  BY DEF TypeInv
<1>2. /\ pc[c] = "closing" /\ permits' = permits + 1 /\ GoTo(c, "gone")
      /\ UNCHANGED <<sessions, imei, index, closing, active, inbox, msg, clock,
                     received, stream, acked, commands>>
  BY DEF Release, ReleaseOne
<1>3. pc' \in [Conns -> PcLabels] /\ pc'[c] = "gone" /\ OnlyMoves(c)
  BY <1>1, <1>2, GoToLabel DEF OnlyMoves, PcLabels, Waits
<1>4. permits' \in 0..MaxConnections
  <2>1. c \in Holders
    BY <1>2 DEF Holders
  <2>2. Cardinality(Holders) \in Nat /\ Cardinality(Holders) # 0
    BY <2>1, FS_CardinalityType, FS_EmptySet DEF TypeInv, PermitInv
  <2> QED
    BY <1>1, <1>2, <2>2, GatewayAssumption DEF TypeInv, PermitInv, PermitsBalance, TypeOK
<1>5. TypeOK'
  BY <1>1, <1>2, <1>3, <1>4, ClockMoves DEF TypeOK
<1>6. pc[c] \notin Waits /\ pc'[c] \in Waits /\ ~Serves(c)' /\ c \notin sessions'
  BY <1>2, <1>3 DEF TypeInv, SessionInv, Waits, Serves
<1> QED
  BY <1>2, <1>3, <1>5, <1>6, TypeStep

-----------------------------------------------------------------------------
(* The messages: one is made of a frame, published, answered.                *)
LEMMA BindTyped ==
  ASSUME TypeOK, NEW c \in Conns, NEW x \in Imeis, Bind(c, x)
  PROVE  /\ imei' \in [Conns -> Imeis \cup {0}]
         /\ index' \in [Imeis -> Conns \cup {0}]
         /\ closing' \subseteq Conns
  BY DEF Bind, Stale, TypeOK

\* What a frame with a message does.
LEMMA MessageEffect ==
  ASSUME TypeOK, NEW c \in Conns, FrameWithMessage(c)
  PROVE  /\ pc[c] = "read" /\ inbox[c] # <<>> /\ GoTo(c, "publish") /\ pc'[c] = "publish"
         /\ clock' = Now /\ active' \in [Conns -> 0..clock']
         /\ UNCHANGED <<permits, sessions, received, stream, acked, commands>>
         /\ inbox' = [inbox EXCEPT ![c] = Tail(@)]
         /\ \/ UNCHANGED <<imei, index, closing>> /\ msg'[c].imei = imei[c]
            \/ /\ Head(inbox[c]).type = "login"
               /\ Head(inbox[c]).imei \in Imeis /\ Bind(c, Head(inbox[c]).imei)
         /\ msg' \in [Conns -> Contracts' \cup {NoMsg}]
         /\ \A d \in Conns \ {c} : msg'[d] = msg[d]
         /\ msg'[c] \in Contracts' /\ msg'[c].conn = c /\ msg'[c].at = Now
         /\ msg'[c].kind # "disconnect"
<1> DEFINE f == Head(inbox[c])
           x == IF f.type = "login" THEN f.imei ELSE imei[c]
           m == Contract(KindOf(f.type), x, f, Now, c)
<1>1. /\ pc[c] = "read" /\ inbox[c] # <<>> /\ GoTo(c, "publish") /\ HasMessage(f, x)
      /\ inbox' = [inbox EXCEPT ![c] = Tail(@)]
      /\ UNCHANGED <<permits, sessions, received, stream, acked, commands>>
      /\ msg' = [msg EXCEPT ![c] = m]
  BY DEF FrameWithMessage
<1>2. \/ f.type = "login" /\ Bind(c, x) /\ clock' = Now /\ active' = [active EXCEPT ![c] = Now]
      \/ f.type # "login" /\ clock' = Now /\ UNCHANGED <<imei, index, closing, active>>
  BY DEF FrameWithMessage, Touch
<1>3. f \in Frames
  BY <1>1, InboxTyped
<1>4. x \in Imeis
  BY <1>1, <1>3, GatewayAssumption DEF HasMessage, TypeOK
<1>5. m \in Contracts' /\ m.conn = c /\ m.kind # "disconnect" /\ m.at = Now /\ m.imei = x
  <2> HIDE DEF f, x
  <2> QED
    BY <1>1, <1>2, <1>3, <1>4, ContractTyped
<1> HIDE DEF m
<1>6. msg \in [Conns -> Contracts' \cup {NoMsg}] /\ active \in [Conns -> 0..clock']
      /\ Now \in 0..clock'
  BY <1>2, ClockMoves DEF TypeOK, Now
<1>7. /\ msg' \in [Conns -> Contracts' \cup {NoMsg}] /\ msg'[c] = m
      /\ \A d \in Conns \ {c} : msg'[d] = msg[d]
  BY <1>1, <1>5, <1>6
<1>8. active' \in [Conns -> 0..clock']
  BY <1>2, <1>6
<1>9. pc'[c] = "publish"
  BY <1>1, GoToLabel DEF PcLabels
<1>10. \/ UNCHANGED <<imei, index, closing>> /\ m.imei = imei[c]
       \/ f.type = "login" /\ f.imei \in Imeis /\ Bind(c, f.imei)
  BY <1>2, <1>4, <1>5
<1> QED
  BY <1>1, <1>2, <1>5, <1>7, <1>8, <1>9, <1>10

\* It moves alone, but for the writer it may close.
LEMMA MessageMoves ==
  ASSUME TypeOK, NEW c \in Conns, FrameWithMessage(c)
  PROVE  OnlyMoves(c)
<1>1. /\ GoTo(c, "publish") /\ sessions' = sessions
      /\ inbox' = [inbox EXCEPT ![c] = Tail(@)]
      /\ UNCHANGED imei \/ \E x \in Imeis : Bind(c, x)
      /\ \A d \in Conns \ {c} : msg'[d] = msg[d]
  BY MessageEffect
<1>2. \A d \in Conns \ {c} : imei'[d] = imei[d] /\ inbox'[d] = inbox[d]
  BY <1>1 DEF Bind, TypeOK
<1> QED
  BY <1>1, <1>2, GoToLabel DEF OnlyMoves, PcLabels

LEMMA MessageTyped ==
  ASSUME TypeInv, NEW c \in Conns, FrameWithMessage(c)
  PROVE  TypeInv'
<1>1. TypeOK
  BY DEF TypeInv
<1>2. /\ imei' \in [Conns -> Imeis \cup {0}] /\ index' \in [Imeis -> Conns \cup {0}]
      /\ closing' \subseteq Conns
      /\ \A d \in Conns \ {c} : imei'[d] = imei[d]
  <2>1. \/ UNCHANGED <<imei, index, closing>>
        \/ Head(inbox[c]).imei \in Imeis /\ Bind(c, Head(inbox[c]).imei)
    BY <1>1, MessageEffect
  <2>2. CASE UNCHANGED <<imei, index, closing>>
    BY <1>1, <2>2 DEF TypeOK
  <2>3. ASSUME NEW x \in Imeis, Bind(c, x)
        PROVE  \A d \in Conns \ {c} : imei'[d] = imei[d]
    BY <1>1, <2>3 DEF Bind, TypeOK
  <2> QED
    BY <1>1, <2>1, <2>2, <2>3, BindTyped
<1>3. /\ pc' \in [Conns -> PcLabels] /\ pc'[c] = "publish"
      /\ \A d \in Conns \ {c} : pc'[d] = pc[d]
  BY <1>1, MessageEffect, GoToLabel DEF PcLabels
<1>4. /\ inbox' \in [Conns -> Seq(Frames)]
      /\ \A d \in Conns \ {c} : inbox'[d] = inbox[d]
  <2>1. inbox[c] # <<>> /\ inbox' = [inbox EXCEPT ![c] = Tail(@)]
    BY <1>1, MessageEffect
  <2> QED
    BY <1>1, <2>1, InboxTyped DEF TypeOK
<1>5. /\ clock' = Now /\ active' \in [Conns -> 0..clock']
      /\ UNCHANGED <<permits, sessions, received, stream, acked, commands>>
      /\ msg' \in [Conns -> Contracts' \cup {NoMsg}]
      /\ \A d \in Conns \ {c} : msg'[d] = msg[d]
      /\ msg'[c] \in Contracts' /\ msg'[c].conn = c /\ msg'[c].kind # "disconnect"
      /\ pc[c] = "read"
  BY <1>1, MessageEffect
<1>6. TypeOK'
  BY <1>1, <1>2, <1>3, <1>4, <1>5, ClockMoves DEF TypeOK
<1>7. OnlyMoves(c)
  BY <1>2, <1>3, <1>4, <1>5 DEF OnlyMoves
<1>8. c \in sessions' <=> Serves(c)'
  BY <1>3, <1>5 DEF TypeInv, SessionInv, Serves
<1> QED
  BY <1>3, <1>5, <1>6, <1>7, <1>8, TypeStep DEF Waits

LEMMA XAddTyped ==
  ASSUME TypeInv, NEW c \in Conns, XAdd(c)
  PROVE  TypeInv'
<1>1. TypeOK /\ msg[c] \in Contracts /\ msg[c].conn = c
  BY DEF TypeInv, MsgInv, XAdd
<1>2. /\ pc[c] = "publish" /\ GoTo(c, "reply") /\ stream' = Append(stream, msg[c])
      /\ UNCHANGED <<permits, sessions, imei, index, closing, active, inbox, msg,
                     clock, received, acked, commands>>
  BY DEF XAdd, regVars
<1>3. pc' \in [Conns -> PcLabels] /\ pc'[c] = "reply" /\ OnlyMoves(c)
  BY <1>1, <1>2, GoToLabel DEF OnlyMoves, PcLabels
<1>4. Contracts' = Contracts
  BY <1>2 DEF Contracts
<1>5. stream' \in Seq(Contracts')
  BY <1>1, <1>2, <1>4 DEF TypeOK
<1>6. TypeOK'
  BY <1>1, <1>2, <1>3, <1>4, <1>5 DEF TypeOK
<1>7. c \in sessions' <=> Serves(c)'
  BY <1>2, <1>3 DEF TypeInv, SessionInv, Serves
<1> QED
  BY <1>1, <1>2, <1>3, <1>4, <1>6, <1>7, TypeStep DEF Waits

LEMMA PublishedTyped ==
  ASSUME TypeInv, NEW c \in Conns, Published(c), ~AckFails(c)
  PROVE  TypeInv'
<1>1. TypeOK /\ msg[c] \in Contracts
  BY DEF TypeInv, MsgInv, Published
<1>2. /\ pc[c] = "reply" /\ GoTo(c, "read") /\ msg[c].kind # "disconnect"
      /\ clock' = Now /\ active' = [active EXCEPT ![c] = Now]
      /\ acked' = acked \cup {msg[c].at} /\ msg' = [msg EXCEPT ![c] = NoMsg]
      /\ UNCHANGED <<permits, sessions, imei, index, closing, inbox,
                     received, stream, commands>>
  BY DEF Published, Touch, regVars
<1>3. pc' \in [Conns -> PcLabels] /\ pc'[c] = "read" /\ OnlyMoves(c)
  BY <1>1, <1>2, GoToLabel DEF OnlyMoves, PcLabels, TypeOK
<1>4. Now \in 0..clock' /\ active' \in [Conns -> 0..clock']
  <2>1. active \in [Conns -> 0..clock'] /\ Now \in 0..clock'
    BY <1>1, <1>2, ClockMoves DEF TypeOK, Now
  <2> QED
    BY <1>2, <2>1
<1>5. acked' \subseteq 0..clock'
  <2>1. msg[c].at \in 0..clock
    BY <1>1 DEF Contracts
  <2> QED
    BY <1>1, <1>2, <2>1, ClockMoves
<1>6. msg' \in [Conns -> Contracts' \cup {NoMsg}]
  BY <1>1, <1>2, ClockMoves
<1>7. TypeOK'
  BY <1>1, <1>2, <1>3, <1>4, <1>5, <1>6, ClockMoves DEF TypeOK
<1>8. c \in sessions' <=> Serves(c)'
  BY <1>2, <1>3 DEF TypeInv, SessionInv, Serves
<1> QED
  BY <1>2, <1>3, <1>7, <1>8, TypeStep DEF Waits

LEMMA AnnouncedTyped ==
  ASSUME TypeInv, NEW c \in Conns, Announced(c) \/ AnnounceRaises(c)
  PROVE  TypeInv'
<1>1. TypeOK
  BY DEF TypeInv
<1>2. /\ pc[c] \in {"publish", "reply"} /\ msg[c].kind = "disconnect"
      /\ GoTo(c, "closing") \/ GoTo(c, "leaked")
      /\ msg' = [msg EXCEPT ![c] = NoMsg] \/ msg' = msg
      /\ closing' = closing \cup {c} \/ closing' = closing
      /\ UNCHANGED <<permits, sessions, imei, index, active, inbox, clock, received,
                     stream, acked, commands>>
  BY DEF Announced, AnnounceRaises, regVars
<1>3. pc' \in [Conns -> PcLabels] /\ pc'[c] \in {"closing", "leaked"} /\ OnlyMoves(c)
  BY <1>1, <1>2, GoToLabel DEF OnlyMoves, PcLabels, TypeOK
<1>4. Contracts' = Contracts
  BY <1>2 DEF Contracts
<1>5. TypeOK'
  BY <1>1, <1>2, <1>3, <1>4 DEF TypeOK
<1>6. c \notin sessions' /\ ~Serves(c)'
  BY <1>2, <1>3 DEF TypeInv, SessionInv, Serves
<1> QED
  BY <1>2, <1>3, <1>5, <1>6, TypeStep DEF Waits

LEMMA SendCommandTyped ==
  ASSUME TypeInv, NEW x \in Imeis, SendCommand(x)
  PROVE  TypeInv'
<1>1. TypeOK
  BY DEF TypeInv
<1>2. Route(x) \in sessions /\ Route(x) = index[x]
  BY <1>1, GatewayAssumption DEF SendCommand, Route
<1>3. Route(x) \in Conns
  BY <1>1, <1>2 DEF TypeOK
<1>4. /\ clock' = Now /\ active' = [active EXCEPT ![Route(x)] = Now]
      /\ commands' = commands \cup {[to |-> x, over |-> imei[Route(x)]]}
      /\ UNCHANGED <<permits, sessions, imei, index, closing, pc, inbox, msg,
                     received, stream, acked>>
  BY DEF SendCommand, Touch, regVars, connVars
<1>5. active' \in [Conns -> 0..clock']
  <2>1. active \in [Conns -> 0..clock'] /\ Now \in 0..clock'
    BY <1>1, <1>4, ClockMoves DEF TypeOK, Now
  <2> QED
    BY <1>4, <2>1
<1>6. commands' \subseteq [to : Imeis, over : Imeis \cup {0}]
  BY <1>1, <1>3, <1>4 DEF TypeOK
<1>7. TypeOK'
  BY <1>1, <1>4, <1>5, <1>6, ClockMoves DEF TypeOK
<1>8. Contracts \subseteq Contracts'
  BY <1>1, <1>4, ClockMoves
<1> QED
  BY <1>4, <1>7, <1>8 DEF TypeInv, SessionInv, Serves, MsgInv, PermitInv, PermitsBalance,
     Holders

LEMMA CrashTyped ==
  ASSUME TypeInv, Crash
  PROVE  TypeInv'
<1>1. TypeOK
  BY DEF TypeInv
<1>2. /\ permits' = MaxConnections /\ sessions' = {} /\ closing' = {}
      /\ UNCHANGED <<clock, received, stream, acked, commands>>
      /\ \A c \in Conns : pc'[c] \in {"idle", "gone"}
      /\ pc' \in [Conns -> PcLabels] /\ msg' \in [Conns -> Contracts' \cup {NoMsg}]
  BY DEF Crash, PcLabels, Waits
<1>3. /\ imei' \in [Conns -> Imeis \cup {0}] /\ index' \in [Imeis -> Conns \cup {0}]
      /\ active' \in [Conns -> 0..clock'] /\ inbox' \in [Conns -> Seq(Frames)]
  BY <1>1 DEF Crash, TypeOK
<1>4. permits' \in 0..MaxConnections
  BY <1>2, GatewayAssumption
<1>5. TypeOK'
  BY <1>1, <1>2, <1>3, <1>4, ClockMoves DEF TypeOK
<1>6. Holders' = {}
  BY <1>2 DEF Holders
<1>7. PermitInv'
  BY <1>2, <1>6, FS_EmptySet, GatewayAssumption DEF PermitInv, PermitsBalance
<1> QED
  BY <1>2, <1>5, <1>7 DEF TypeInv, SessionInv, Serves, MsgInv

LEMMA InitTypeInv == Init => TypeInv
<1> SUFFICES ASSUME Init PROVE TypeInv
  OBVIOUS
<1>1. \A c \in Conns : pc[c] = "idle"
  BY DEF Init
<1>2. Holders = {}
  BY <1>1 DEF Holders
<1>3. PermitInv
  BY <1>2, FS_EmptySet, GatewayAssumption DEF PermitInv, PermitsBalance, Init
<1>4. permits \in 0..MaxConnections
  BY GatewayAssumption DEF Init
<1>5. /\ pc \in [Conns -> PcLabels] /\ msg \in [Conns -> Contracts \cup {NoMsg}]
      /\ inbox \in [Conns -> Seq(Frames)] /\ active \in [Conns -> 0..clock]
      /\ imei \in [Conns -> Imeis \cup {0}] /\ index \in [Imeis -> Conns \cup {0}]
  BY DEF Init, PcLabels, Waits
<1>6. stream \in Seq(Contracts) /\ clock \in Nat /\ received \in Nat
  BY DEF Init
<1>7. TypeOK
  BY <1>4, <1>5, <1>6 DEF Init, TypeOK
<1> QED
  BY <1>1, <1>3, <1>7 DEF TypeInv, SessionInv, MsgInv, Serves, Init

LEMMA RunTypeInv ==
  ASSUME TypeInv, NEW c \in Conns, Run(c)
  PROVE  TypeInv'
  BY RunKinds, QuietTyped, EndsTyped, MessageTyped, XAddTyped, PublishedTyped,
     AnnouncedTyped, ReleaseTyped DEF TypeInv, Speaks

LEMMA NextTypeInv == TypeInv /\ [Next]_vars => TypeInv'
<1> SUFFICES ASSUME TypeInv, [Next]_vars PROVE TypeInv'
  OBVIOUS
<1>1. CASE UNCHANGED vars
  <2>1. UNCHANGED <<permits, sessions, imei, index, closing, pc, inbox, msg, active,
                    clock, received, stream, acked, commands>>
    BY <1>1 DEF vars, regVars, connVars
  <2>2. Contracts' = Contracts /\ Holders' = Holders
    BY <2>1 DEF Contracts, Holders
  <2> QED
    BY <2>1, <2>2 DEF TypeInv, TypeOK, SessionInv, Serves, MsgInv, PermitInv,
       PermitsBalance
<1> QED
  BY <1>1, RunTypeInv, AcceptTyped, QuietTyped, ReceiveTyped, SendCommandTyped,
     CrashTyped DEF Next, Quiet

LEMMA AlwaysTyped == Spec => []TypeInv
  BY InitTypeInv, NextTypeInv, PTL DEF Spec

(* Every variable keeps the range TypeOK gives it, in every behaviour: the   *)
(* semaphore too, which a second release on some way out would overfill.     *)
THEOREM TypeCorrect == Spec => []TypeOK
<1>1. TypeInv => TypeOK
  BY DEF TypeInv
<1> QED
  BY <1>1, AlwaysTyped, PTL

(* The free permits and the connections that hold one always add up to the   *)
(* semaphore's size, whatever way a connection ends and whatever fails, and  *)
(* every session holds one.                                                  *)
THEOREM PermitsAlwaysBalance == Spec => []PermitsBalance
<1>1. TypeInv => PermitsBalance
  BY DEF TypeInv, PermitInv
<1> QED
  BY <1>1, AlwaysTyped, PTL

-----------------------------------------------------------------------------
(* The registry. A connection that was not accepted yet is bound to nothing. *)
OpenInv ==
  /\ OpenIsIndexed
  /\ \A c \in Conns : pc[c] \in {"idle", "waiting"} => imei[c] = 0

(* A connection is bound to what it logged in as, and its unprocessed logins *)
(* are of the same devices.                                                  *)
LoginInv ==
  \A c \in Conns :
    /\ imei[c] # 0 => imei[c] \in LoginsOf[c]
    /\ \A i \in DOMAIN inbox[c] :
         inbox[c][i].type = "login" => inbox[c][i].imei \in LoginsOf[c]

RouteInv == LoginInv /\ RouteReachesDevice

(* The device at the other end of a connection stays the same.               *)
OneDevicePerConnection == \A c \in Conns : \A x, y \in LoginsOf[c] : x = y

(* What most steps do to the registry: nothing, or one more writer closed.   *)
RegistryStays ==
  /\ UNCHANGED <<sessions, imei, index>> /\ closing \subseteq closing'
  /\ \A c \in Conns : pc'[c] \in {"idle", "waiting"} => pc[c] \in {"idle", "waiting"}

LEMMA QuietRegistry ==
  ASSUME TypeOK, NEW c \in Conns,
         Quiet(c) \/ Speaks(c) \/ (\E f \in Frames : Receive(c, f))
  PROVE  RegistryStays /\ commands' = commands
<1> USE DEF Quiet, Speaks
<1>1. /\ UNCHANGED <<sessions, imei, index, commands>> /\ closing \subseteq closing'
  BY DEF Wait, Reject, Detect, Learn, SkipFrame, FrameWithoutMessage, XAdd,
     Published, Announced, AnnounceRaises, Release, Receive, regVars
<1>2. \/ pc' = pc
      \/ \E label \in PcLabels \ {"idle", "waiting"} : GoTo(c, label)
      \/ pc[c] \in {"idle", "waiting"} /\ GoTo(c, "waiting")
  BY DEF Wait, Reject, Detect, Learn, SkipFrame, FrameWithoutMessage, XAdd,
     Published, Announced, AnnounceRaises, Release, Receive, PcLabels, Waits
<1>3. \A d \in Conns : pc'[d] \in {"idle", "waiting"} => pc[d] \in {"idle", "waiting"}
  <2>1. CASE \E label \in PcLabels \ {"idle", "waiting"} : GoTo(c, label)
    BY <2>1, GoToLabel
  <2>2. CASE pc[c] \in {"idle", "waiting"} /\ GoTo(c, "waiting")
    BY <2>2, GoToLabel DEF PcLabels, Waits
  <2> QED
    BY <1>2, <2>1, <2>2
<1> QED
  BY <1>1, <1>3 DEF RegistryStays

LEMMA StaysOpen ==
  ASSUME TypeOK, OpenInv, RegistryStays
  PROVE  OpenInv'
  BY DEF OpenInv, OpenIsIndexed, RegistryStays

LEMMA AcceptOpen ==
  ASSUME TypeOK, OpenInv, NEW c \in Conns, Accept(c)
  PROVE  OpenInv'
<1>1. /\ UNCHANGED <<imei, index, closing>> /\ sessions' = sessions \cup {c}
      /\ imei[c] = 0
  BY DEF Accept, OpenInv
<1>2. pc'[c] = "detect" /\ \A d \in Conns \ {c} : pc'[d] = pc[d]
  BY GoToLabel DEF Accept, PcLabels
<1> QED
  BY <1>1, <1>2 DEF OpenInv, OpenIsIndexed

LEMMA EndsOpen ==
  ASSUME TypeOK, OpenInv, NEW c \in Conns, Ends(c)
  PROVE  OpenInv'
<1>1. /\ OnlyMoves(c) /\ UNCHANGED imei
      /\ sessions' = sessions \ {c} /\ closing \subseteq closing'
      /\ index' = IF imei[c] = 0 THEN index ELSE RemoveOwn(c)
      /\ pc'[c] \in {"closing", "publish"}
  BY EndsEffect
<1>2. ASSUME NEW d \in sessions' \ closing', imei[d] # 0
      PROVE  index'[imei[d]] = d
  <2>1. d # c /\ index[imei[d]] = d /\ imei[d] \in Imeis
    BY <1>1, <1>2 DEF OpenInv, OpenIsIndexed, TypeOK
  <2> QED
    BY <1>1, <2>1 DEF RemoveOwn, TypeOK
<1> QED
  BY <1>1, <1>2 DEF OpenInv, OpenIsIndexed, OnlyMoves

\* A login takes the IMEI over: the connection that had it is closed with it.
LEMMA BindOpen ==
  ASSUME TypeOK, OpenInv, NEW c \in Conns, NEW x \in Imeis, Bind(c, x),
         sessions' = sessions,
         pc'[c] \notin {"idle", "waiting"}, \A d \in Conns \ {c} : pc'[d] = pc[d]
  PROVE  OpenInv'
<1>1. /\ imei'[c] = x /\ \A d \in Conns \ {c} : imei'[d] = imei[d]
      /\ index'[x] = c /\ \A y \in Imeis \ {x} : index'[y] = index[y]
      /\ closing' = closing \cup ({index[x]} \cap (sessions \ {c}))
  BY DEF Bind, Stale, TypeOK
<1>2. ASSUME NEW d \in sessions \ closing', imei'[d] # 0
      PROVE  index'[imei'[d]] = d
  <2>1. CASE d = c
    BY <1>1, <2>1
  <2>2. CASE d # c
    <3>1. d \in Conns /\ imei'[d] = imei[d] /\ imei[d] \in Imeis
      BY <1>1, <1>2, <2>2 DEF TypeOK
    <3>2. index[imei[d]] = d
      BY <1>1, <1>2, <3>1 DEF OpenInv, OpenIsIndexed
    <3>3. imei[d] # x
      BY <1>1, <1>2, <2>2, <3>2
    <3> QED
      BY <1>1, <3>1, <3>2, <3>3
  <2> QED
    BY <2>1, <2>2
<1>3. \A d \in Conns : pc'[d] \in {"idle", "waiting"} => imei'[d] = 0
  BY <1>1 DEF OpenInv
<1> QED
  BY <1>2, <1>3 DEF OpenInv, OpenIsIndexed

LEMMA MessageOpen ==
  ASSUME TypeOK, OpenInv, NEW c \in Conns, FrameWithMessage(c)
  PROVE  OpenInv'
<1>1. /\ pc'[c] = "publish" /\ \A d \in Conns \ {c} : pc'[d] = pc[d]
      /\ sessions' = sessions
  BY MessageEffect, GoToLabel DEF PcLabels
<1>2. \/ UNCHANGED <<imei, index, closing>>
      \/ \E x \in Imeis : Bind(c, x)
  BY MessageEffect
<1>3. CASE UNCHANGED <<imei, index, closing>>
  BY <1>1, <1>3 DEF OpenInv, OpenIsIndexed
<1> QED
  BY <1>1, <1>2, <1>3, BindOpen

LEMMA NextOpen == TypeInv /\ OpenInv /\ [Next]_vars => OpenInv'
<1> SUFFICES ASSUME TypeInv, OpenInv, [Next]_vars PROVE OpenInv'
  OBVIOUS
<1>1. TypeOK
  BY DEF TypeInv
<1>2. ASSUME NEW c \in Conns, Run(c) PROVE OpenInv'
  <2>1. CASE Ends(c) \/ FrameWithMessage(c)
    BY <1>1, <2>1, EndsOpen, MessageOpen
  <2>2. CASE Quiet(c) \/ Speaks(c)
    BY <1>1, <2>2, QuietRegistry, StaysOpen
  <2> QED
    BY <1>1, <1>2, <2>1, <2>2, RunKinds
<1>3. ASSUME NEW x \in Imeis, SendCommand(x) PROVE OpenInv'
  BY <1>3 DEF SendCommand, regVars, connVars, OpenInv, OpenIsIndexed
<1>4. CASE Crash
  <2>1. sessions' = {} /\ \A c \in Conns : imei'[c] = 0
    BY <1>4 DEF Crash
  <2> QED
    BY <2>1 DEF OpenInv, OpenIsIndexed
<1>5. CASE UNCHANGED vars
  BY <1>5 DEF vars, regVars, connVars, OpenInv, OpenIsIndexed
<1>6. ASSUME NEW c \in Conns, Wait(c) \/ \E f \in Frames : Receive(c, f) PROVE OpenInv'
  <2>1. RegistryStays
    BY <1>1, <1>6, QuietRegistry DEF Quiet
  <2> QED
    BY <1>1, <2>1, StaysOpen
<1> QED
  BY <1>1, <1>2, <1>3, <1>4, <1>5, <1>6, AcceptOpen DEF Next

LEMMA InitOpen == Init => OpenInv
  BY DEF Init, OpenInv, OpenIsIndexed

(* The registry never loses a device: of the connections bound to one IMEI   *)
(* at most one is open, and that is the one the index names, whatever        *)
(* reconnects, switches its IMEI, fails or restarts.                         *)
THEOREM OpenStaysIndexed == Spec => []OpenIsIndexed
<1>1. OpenInv => OpenIsIndexed
  BY DEF OpenInv
<1> QED
  BY <1>1, InitOpen, NextOpen, AlwaysTyped, PTL DEF Spec

-----------------------------------------------------------------------------
(* The routes, of devices that each keep to a connection of their own.       *)
\* What is left in an inbox was there before, or has just arrived.
LEMMA StaysRouted ==
  ASSUME TypeOK, RouteInv, RegistryStays, commands' = commands,
         \A c \in Conns : \A i \in DOMAIN inbox'[c] :
           inbox'[c][i].type = "login" => inbox'[c][i].imei \in LoginsOf[c]
  PROVE  RouteInv'
  BY DEF RouteInv, LoginInv, RouteReachesDevice, RegistryStays

\* The head and the tail of an inbox hold no login of another device.
LEMMA InboxLogins ==
  ASSUME TypeOK, LoginInv, NEW c \in Conns, inbox[c] # <<>>
  PROVE  /\ Head(inbox[c]).type = "login" => Head(inbox[c]).imei \in LoginsOf[c]
         /\ \A i \in DOMAIN Tail(inbox[c]) :
              Tail(inbox[c])[i].type = "login" => Tail(inbox[c])[i].imei \in LoginsOf[c]
<1>1. inbox[c] \in Seq(Frames)
  BY DEF TypeOK
<1>2. /\ 1 \in DOMAIN inbox[c] /\ Head(inbox[c]) = inbox[c][1]
      /\ \A i \in DOMAIN Tail(inbox[c]) :
           i + 1 \in DOMAIN inbox[c] /\ Tail(inbox[c])[i] = inbox[c][i + 1]
  BY <1>1
<1> QED
  BY <1>2 DEF LoginInv

\* What becomes of the inboxes in any step of a coroutine.
LEMMA InboxShrinks ==
  ASSUME TypeOK, LoginInv, NEW c \in Conns,
         \/ UNCHANGED inbox
         \/ (inbox[c] # <<>> /\ inbox' = [inbox EXCEPT ![c] = Tail(@)])
         \/ inbox' = [inbox EXCEPT ![c] = <<>>]
  PROVE  \A d \in Conns : \A i \in DOMAIN inbox'[d] :
           inbox'[d][i].type = "login" => inbox'[d][i].imei \in LoginsOf[d]
<1>1. \A d \in Conns : \A i \in DOMAIN inbox[d] :
        inbox[d][i].type = "login" => inbox[d][i].imei \in LoginsOf[d]
  BY DEF LoginInv
<1>2. CASE inbox[c] # <<>> /\ inbox' = [inbox EXCEPT ![c] = Tail(@)]
  BY <1>1, <1>2, InboxLogins DEF TypeOK
<1>3. CASE inbox' = [inbox EXCEPT ![c] = <<>>]
  <2>1. inbox'[c] = <<>> /\ \A d \in Conns \ {c} : inbox'[d] = inbox[d]
    BY <1>3 DEF TypeOK
  <2> QED
    BY <1>1, <2>1
<1> QED
  BY <1>1, <1>2, <1>3

LEMMA QuietRouted ==
  ASSUME TypeOK, RouteInv, NEW c \in Conns, Quiet(c) \/ Speaks(c)
  PROVE  RouteInv'
<1>1. RegistryStays /\ commands' = commands
  BY QuietRegistry
<1>2. \/ UNCHANGED inbox
      \/ (inbox[c] # <<>> /\ inbox' = [inbox EXCEPT ![c] = Tail(@)])
  BY DEF Quiet, Speaks, Wait, Reject, Detect, Learn, SkipFrame, FrameWithoutMessage,
     XAdd, Published, Announced, AnnounceRaises, Release
<1>3. \A d \in Conns : \A i \in DOMAIN inbox'[d] :
        inbox'[d][i].type = "login" => inbox'[d][i].imei \in LoginsOf[d]
  BY <1>2, InboxShrinks DEF RouteInv
<1> QED
  BY <1>1, <1>3, StaysRouted

LEMMA ReceiveRouted ==
  ASSUME TypeOK, RouteInv, NEW c \in Conns, NEW f \in Frames, Receive(c, f)
  PROVE  RouteInv'
<1>1. RegistryStays /\ commands' = commands
  BY QuietRegistry
<1>2. ASSUME NEW d \in Conns, NEW i \in DOMAIN inbox'[d], inbox'[d][i].type = "login"
      PROVE  inbox'[d][i].imei \in LoginsOf[d]
  <2>1. /\ inbox' = [inbox EXCEPT ![c] = Append(@, f)] /\ inbox[d] \in Seq(Frames)
        /\ f.type = "login" => f.imei \in LoginsOf[c]
    BY DEF Receive, TypeOK
  <2>2. \/ i \in DOMAIN inbox[d] /\ inbox'[d][i] = inbox[d][i]
        \/ d = c /\ inbox'[d][i] = f
    BY <2>1 DEF TypeOK
  <2> QED
    BY <1>2, <2>1, <2>2 DEF RouteInv, LoginInv
<1> QED
  BY <1>1, <1>2, StaysRouted

LEMMA AcceptRouted ==
  ASSUME RouteInv, NEW c \in Conns, Accept(c)
  PROVE  RouteInv'
<1>1. /\ UNCHANGED <<imei, index, inbox, commands>> /\ sessions' = sessions \cup {c}
  BY DEF Accept
<1> QED
  BY <1>1 DEF RouteInv, LoginInv, RouteReachesDevice

\* The index entry of a connection that ends goes with it.
LEMMA EndsRouted ==
  ASSUME TypeOK, RouteInv, NEW c \in Conns, Ends(c)
  PROVE  RouteInv'
<1>1. /\ UNCHANGED <<imei, commands>> /\ sessions' = sessions \ {c}
      /\ index' = IF imei[c] = 0 THEN index ELSE RemoveOwn(c)
  BY EndsEffect DEF Ends
<1>2. inbox' = [inbox EXCEPT ![c] = <<>>]
  BY DEF Ends, FinishAt
<1>3. LoginInv'
  BY <1>1, <1>2, InboxShrinks DEF RouteInv, LoginInv
<1>4. ASSUME NEW x \in Imeis, index'[x] # 0
      PROVE  index'[x] \in sessions' /\ imei'[index'[x]] = x
  <2>1. index'[x] = index[x]
    BY <1>1, <1>4 DEF RemoveOwn, TypeOK
  <2>2. index[x] \in sessions /\ imei[index[x]] = x
    BY <1>4, <2>1 DEF RouteInv, RouteReachesDevice
  <2>3. index[x] # c
    BY <1>1, <1>4, <2>1, <2>2, GatewayAssumption DEF RemoveOwn, TypeOK
  <2> QED
    BY <1>1, <2>1, <2>2, <2>3
<1> QED
  BY <1>1, <1>3, <1>4 DEF RouteInv, RouteReachesDevice

\* A login over a connection that is bound already is of the same device.
LEMMA MessageRouted ==
  ASSUME OneDevicePerConnection, TypeInv, RouteInv, NEW c \in Conns, FrameWithMessage(c)
  PROVE  RouteInv'
<1>1. TypeOK
  BY DEF TypeInv
<1>2. /\ pc[c] = "read" /\ inbox[c] # <<>> /\ inbox' = [inbox EXCEPT ![c] = Tail(@)]
      /\ UNCHANGED <<sessions, commands>>
      /\ \/ UNCHANGED <<imei, index, closing>>
         \/ /\ Head(inbox[c]).type = "login"
            /\ Head(inbox[c]).imei \in Imeis /\ Bind(c, Head(inbox[c]).imei)
  BY <1>1, MessageEffect
<1>3. \A d \in Conns : \A i \in DOMAIN inbox'[d] :
        inbox'[d][i].type = "login" => inbox'[d][i].imei \in LoginsOf[d]
  BY <1>1, <1>2, InboxShrinks DEF RouteInv
<1>4. CASE UNCHANGED <<imei, index, closing>>
  BY <1>2, <1>3, <1>4 DEF RouteInv, LoginInv, RouteReachesDevice
<1>5. ASSUME NEW x \in Imeis, x \in LoginsOf[c], Bind(c, x)
      PROVE  RouteInv'
  <2>1. /\ imei'[c] = x /\ \A d \in Conns \ {c} : imei'[d] = imei[d]
        /\ index'[x] = c /\ \A y \in Imeis \ {x} : index'[y] = index[y]
    BY <1>1, <1>5 DEF Bind, TypeOK
  <2>2. imei[c] \in {0, x}
    BY <1>5 DEF RouteInv, LoginInv, OneDevicePerConnection
  <2>3. c \in sessions
    BY <1>2 DEF TypeInv, SessionInv, Serves
  <2>4. LoginInv'
    BY <1>3, <1>5, <2>1 DEF RouteInv, LoginInv
  <2>5. ASSUME NEW y \in Imeis, index'[y] # 0
        PROVE  index'[y] \in sessions' /\ imei'[index'[y]] = y
    <3>1. CASE y = x
      BY <1>2, <2>1, <2>3, <3>1
    <3>2. CASE y # x
      <4>1. index'[y] = index[y] /\ index[y] \in sessions /\ imei[index[y]] = y
        BY <2>1, <2>5, <3>2 DEF RouteInv, RouteReachesDevice
      <4>2. index[y] # c /\ index[y] \in Conns
        BY <1>1, <2>2, <3>2, <4>1, GatewayAssumption DEF TypeOK
      <4> QED
        BY <1>2, <2>1, <4>1, <4>2
    <3> QED
      BY <3>1, <3>2
  <2> QED
    BY <1>2, <2>4, <2>5 DEF RouteInv, RouteReachesDevice
<1>6. Head(inbox[c]).type = "login" => Head(inbox[c]).imei \in LoginsOf[c]
  BY <1>1, <1>2, InboxLogins DEF RouteInv
<1> QED
  BY <1>2, <1>4, <1>5, <1>6

LEMMA SendCommandRouted ==
  ASSUME TypeOK, RouteInv, NEW x \in Imeis, SendCommand(x)
  PROVE  RouteInv'
<1>1. /\ UNCHANGED <<imei, index, sessions, inbox>>
      /\ commands' = commands \cup {[to |-> x, over |-> imei[Route(x)]]}
      /\ Route(x) # 0
  BY DEF SendCommand, regVars, connVars
<1>2. Route(x) = index[x] /\ index[x] # 0
  BY <1>1 DEF Route
<1>3. imei[Route(x)] = x
  BY <1>2 DEF RouteInv, RouteReachesDevice
<1> QED
  BY <1>1, <1>3 DEF RouteInv, LoginInv, RouteReachesDevice

LEMMA NextRouted ==
  ASSUME OneDevicePerConnection
  PROVE  TypeInv /\ RouteInv /\ [Next]_vars => RouteInv'
<1> SUFFICES ASSUME TypeInv, RouteInv, [Next]_vars PROVE RouteInv'
  OBVIOUS
<1>1. TypeOK
  BY DEF TypeInv
<1>2. ASSUME NEW c \in Conns, Run(c) \/ Wait(c) PROVE RouteInv'
  <2>1. Ends(c) \/ FrameWithMessage(c) \/ Quiet(c) \/ Speaks(c)
    BY <1>1, <1>2, RunKinds DEF Quiet
  <2> QED
    BY <1>1, <2>1, EndsRouted, MessageRouted, QuietRouted
<1>3. CASE Crash
  <2>1. /\ \A c \in Conns : imei'[c] = 0 /\ inbox'[c] = <<>>
        /\ \A x \in Imeis : index'[x] = 0
        /\ commands' = commands
    BY <1>3 DEF Crash
  <2>2. LoginInv'
    BY <2>1 DEF LoginInv
  <2> QED
    BY <2>1, <2>2 DEF RouteInv, RouteReachesDevice
<1>4. CASE UNCHANGED vars
  BY <1>4 DEF vars, regVars, connVars, RouteInv, LoginInv, RouteReachesDevice
<1> QED
  BY <1>1, <1>2, <1>3, <1>4, AcceptRouted, ReceiveRouted, SendCommandRouted DEF Next

LEMMA InitRouted == Init => RouteInv
<1> SUFFICES ASSUME Init PROVE RouteInv
  OBVIOUS
<1>1. /\ \A c \in Conns : imei[c] = 0 /\ inbox[c] = <<>>
      /\ \A x \in Imeis : index[x] = 0
      /\ commands = {}
  BY DEF Init
<1>2. LoginInv
  BY <1>1 DEF LoginInv
<1> QED
  BY <1>1, <1>2 DEF RouteInv, RouteReachesDevice

(* The registry is exact: permits balance, no device is lost, and a command  *)
(* reaches the device it is for, when no connection logs in as two devices.  *)
THEOREM RegistryStaysExact ==
  ASSUME OneDevicePerConnection
  PROVE  Spec => []RegistryIsExact
<1>1. TypeInv /\ OpenInv /\ RouteInv => RegistryIsExact
  BY DEF TypeInv, PermitInv, OpenInv, RouteInv, RegistryIsExact
<1> QED
  BY <1>1, InitOpen, NextOpen, InitRouted, NextRouted, AlwaysTyped, PTL DEF Spec

-----------------------------------------------------------------------------
(* The story the stream tells of a connection.                               *)
Said(c) == {stream[n] : n \in {k \in DOMAIN stream : stream[k].conn = c}}

(* The disconnect of c is not in the stream yet.                             *)
Unended(c) ==
  \/ pc[c] \in {"idle", "waiting", "detect", "learn", "read", "publish"}
  \/ pc[c] = "reply" /\ msg[c].kind # "disconnect"

(* Until its end a connection said no disconnect; what it is about to say of *)
(* a frame is newer than all it said; what it awaits the reply to, it said.  *)
StoryInv ==
  /\ StoryInOrder /\ AckedIsPublished
  /\ \A c \in Conns : Unended(c) => \A m \in Said(c) : m.kind # "disconnect"
  /\ \A c \in Conns : pc[c] = "publish" /\ msg[c].kind # "disconnect" =>
       \A m \in Said(c) : m.at < msg[c].at
  /\ \A c \in Conns : pc[c] = "reply" => msg[c] \in Said(c)

LEMMA SaidTyped ==
  ASSUME TypeOK, NEW c \in Conns, NEW m \in Said(c)
  PROVE  m \in Contracts /\ m.at \in 0..clock /\ m.conn = c
<1>1. PICK n \in DOMAIN stream : stream[n].conn = c /\ m = stream[n]
  BY DEF Said
<1>2. m \in Contracts
  BY <1>1 DEF TypeOK
<1> QED
  BY <1>1, <1>2 DEF Contracts

\* What a step of c that publishes nothing must respect.
LEMMA StoryStep ==
  ASSUME StoryInv, NEW c \in Conns, OnlyMoves(c), UNCHANGED <<stream, acked>>,
         Unended(c)' => Unended(c),
         pc'[c] = "publish" /\ msg'[c].kind # "disconnect" =>
           \A m \in Said(c) : m.at < msg'[c].at,
         pc'[c] = "reply" => msg'[c] \in Said(c)
  PROVE  StoryInv'
<1>1. \A d \in Conns : Said(d)' = Said(d)
  BY DEF Said
<1>2. StoryInOrder' /\ AckedIsPublished'
  BY DEF StoryInv, StoryInOrder, AckedIsPublished
<1>3. \A d \in Conns \ {c} : (Unended(d)' <=> Unended(d))
  BY DEF OnlyMoves, Unended
<1> QED
  BY <1>1, <1>2, <1>3 DEF StoryInv, OnlyMoves

LEMMA EndsStory ==
  ASSUME TypeInv, StoryInv, NEW c \in Conns, Ends(c)
  PROVE  StoryInv'
<1>1. /\ OnlyMoves(c) /\ UNCHANGED <<stream, acked>>
      /\ \/ pc'[c] = "closing"
         \/ pc'[c] = "publish" /\ msg'[c].kind = "disconnect"
  BY EndsEffect DEF Ends, TypeInv
<1>2. Unended(c)
  BY DEF Ends, Serves, Unended
<1> QED
  BY <1>1, <1>2, StoryStep

LEMMA MessageStory ==
  ASSUME TypeInv, StoryInv, NEW c \in Conns, FrameWithMessage(c)
  PROVE  StoryInv'
<1>1. TypeOK
  BY DEF TypeInv
<1>2. /\ pc[c] = "read" /\ pc'[c] = "publish" /\ UNCHANGED <<stream, acked>>
      /\ msg'[c].at = Now /\ clock \in Nat
  BY <1>1, MessageEffect DEF TypeOK
<1>3. \A m \in Said(c) : m.at < Now
  BY <1>1, <1>2, SaidTyped DEF Now
<1>4. OnlyMoves(c)
  BY <1>1, MessageMoves
<1>5. Unended(c)
  BY <1>2 DEF Unended
<1> QED
  BY <1>2, <1>3, <1>4, <1>5, StoryStep

\* The coroutines that stay as they are, or move with nothing to say.
LEMMA QuietStory ==
  ASSUME TypeInv, StoryInv, NEW c \in Conns,
         Quiet(c) \/ Accept(c) \/ Announced(c) \/ AnnounceRaises(c) \/ Release(c)
  PROVE  StoryInv'
<1> USE DEF Quiet
<1>1. TypeOK
  BY DEF TypeInv
<1>2. /\ UNCHANGED <<stream, acked, imei>>
      /\ msg' = msg \/ msg' = [msg EXCEPT ![c] = NoMsg]
      /\ inbox' = inbox \/ inbox' = [inbox EXCEPT ![c] = Tail(@)]
      /\ \A d \in Conns \ {c} : d \in sessions' <=> d \in sessions
  BY DEF Wait, Reject, Detect, Learn, SkipFrame, FrameWithoutMessage, Accept,
     Announced, AnnounceRaises, Release, regVars
<1>3. \/ pc' = pc /\ pc[c] \in {"learn", "read"}
      \/ Unended(c) /\ \E label \in {"waiting", "gone", "detect", "learn", "read"} :
                          GoTo(c, label)
      \/ \E label \in {"closing", "leaked", "gone"} : GoTo(c, label)
  BY DEF Wait, Reject, Detect, Learn, SkipFrame, FrameWithoutMessage, Accept,
     Announced, AnnounceRaises, Release, Unended
<1>4. /\ pc'[c] \notin {"publish", "reply"} /\ \A d \in Conns \ {c} : pc'[d] = pc[d]
      /\ Unended(c)' => Unended(c)
  BY <1>1, <1>3, GoToLabel DEF PcLabels, Waits, Unended
<1>5. OnlyMoves(c)
  BY <1>1, <1>2, <1>4 DEF OnlyMoves, TypeOK
<1> QED
  BY <1>2, <1>4, <1>5, StoryStep

\* The XADD: the connection says what it was about to.
LEMMA XAddStory ==
  ASSUME TypeInv, StoryInv, NEW c \in Conns, XAdd(c)
  PROVE  StoryInv'
<1> DEFINE k == Len(stream) + 1
<1>1. /\ pc[c] = "publish" /\ UNCHANGED <<msg, acked>> /\ stream' = Append(stream, msg[c])
      /\ pc'[c] = "reply" /\ \A d \in Conns \ {c} : pc'[d] = pc[d]
      /\ msg[c].conn = c /\ msg[c] \in Contracts
  BY GoToLabel DEF XAdd, TypeInv, MsgInv, PcLabels
<1>2. /\ DOMAIN stream' = DOMAIN stream \cup {k} /\ k \notin DOMAIN stream
      /\ stream'[k] = msg[c] /\ \A n \in DOMAIN stream : stream'[n] = stream[n] /\ n < k
      /\ k \in Nat /\ DOMAIN stream \subseteq Nat
  BY <1>1 DEF TypeInv, TypeOK
<1> HIDE DEF k
<1>3. /\ Said(c)' = Said(c) \cup {msg[c]}
      /\ \A d \in Conns \ {c} : Said(d)' = Said(d)
  BY <1>1, <1>2 DEF Said
<1>4. \A n \in DOMAIN stream : stream[n].conn = c =>
        /\ stream[n].kind # "disconnect"
        /\ msg[c].kind # "disconnect" => stream[n].at < msg[c].at
  BY <1>1 DEF StoryInv, Unended, Said
<1>5. StoryInOrder'
  <2> SUFFICES ASSUME NEW m \in DOMAIN stream', NEW n \in DOMAIN stream', m < n,
                      stream'[m].conn = stream'[n].conn
               PROVE  /\ stream'[m].kind # "disconnect"
                      /\ stream'[n].kind # "disconnect" => stream'[m].at < stream'[n].at
    BY DEF StoryInOrder
  <2>1. CASE n = k
    <3>1. m \in DOMAIN stream
      BY <1>2, <2>1
    <3> QED
      BY <1>1, <1>2, <1>4, <2>1, <3>1
  <2>2. CASE n # k
    <3>1. n \in DOMAIN stream /\ m \in DOMAIN stream
      BY <1>2, <2>2
    <3> QED
      BY <1>2, <3>1 DEF StoryInv, StoryInOrder
  <2> QED
    BY <2>1, <2>2
<1>6. AckedIsPublished'
  BY <1>1, <1>2 DEF StoryInv, AckedIsPublished
<1>7. \A d \in Conns : Unended(d)' => \A m \in Said(d)' : m.kind # "disconnect"
  <2>1. ASSUME NEW d \in Conns \ {c}, Unended(d)'
        PROVE  \A m \in Said(d)' : m.kind # "disconnect"
    BY <1>1, <1>3, <2>1 DEF StoryInv, Unended
  <2>2. Unended(c)' => msg[c].kind # "disconnect"
    BY <1>1 DEF Unended
  <2>3. \A m \in Said(c) : m.kind # "disconnect"
    BY <1>1 DEF StoryInv, Unended
  <2> QED
    BY <1>3, <2>1, <2>2, <2>3
<1>8. \A d \in Conns : pc'[d] = "publish" /\ msg'[d].kind # "disconnect" =>
        \A m \in Said(d)' : m.at < msg'[d].at
  BY <1>1, <1>3 DEF StoryInv
<1>9. \A d \in Conns : pc'[d] = "reply" => msg'[d] \in Said(d)'
  BY <1>1, <1>3 DEF StoryInv
<1> QED
  BY <1>5, <1>6, <1>7, <1>8, <1>9 DEF StoryInv

\* The ACK follows a reply: what it acknowledges was said.
LEMMA PublishedStory ==
  ASSUME TypeInv, StoryInv, NEW c \in Conns, Published(c), ~AckFails(c)
  PROVE  StoryInv'
<1>1. /\ pc[c] = "reply" /\ msg[c].kind # "disconnect"
      /\ stream' = stream /\ acked' = acked \cup {msg[c].at}
      /\ msg' = [msg EXCEPT ![c] = NoMsg]
      /\ pc'[c] = "read" /\ \A d \in Conns \ {c} : pc'[d] = pc[d]
  BY GoToLabel DEF Published, TypeInv, PcLabels
<1>2. \A d \in Conns : Said(d)' = Said(d)
  BY <1>1 DEF Said
<1>3. \A d \in Conns \ {c} : msg'[d] = msg[d] /\ (Unended(d)' <=> Unended(d))
  BY <1>1 DEF TypeInv, TypeOK, Unended
<1>4. Unended(c)
  BY <1>1 DEF Unended
<1>5. AckedIsPublished'
  <2>1. msg[c] \in Said(c)
    BY <1>1 DEF StoryInv
  <2>2. \E n \in DOMAIN stream : stream[n].at = msg[c].at /\ stream[n].kind # "disconnect"
    BY <1>1, <2>1 DEF Said
  <2> QED
    BY <1>1, <2>2 DEF StoryInv, AckedIsPublished
<1>6. StoryInOrder'
  BY <1>1 DEF StoryInv, StoryInOrder
<1> QED
  BY <1>1, <1>2, <1>3, <1>4, <1>5, <1>6 DEF StoryInv

LEMMA NextStory == TypeInv /\ StoryInv /\ [Next]_vars => StoryInv'
<1> SUFFICES ASSUME TypeInv, StoryInv, [Next]_vars PROVE StoryInv'
  OBVIOUS
<1>1. ASSUME NEW c \in Conns, Run(c) \/ Wait(c) PROVE StoryInv'
  <2>1. Ends(c) \/ FrameWithMessage(c) \/ Quiet(c) \/ Speaks(c)
    BY <1>1, RunKinds DEF Quiet, TypeInv
  <2>2. CASE Speaks(c)
    BY <2>2, XAddStory, PublishedStory, QuietStory DEF Speaks
  <2> QED
    BY <2>1, <2>2, EndsStory, MessageStory, QuietStory
<1>2. CASE UNCHANGED <<stream, acked, pc, msg>>
  BY <1>2 DEF StoryInv, StoryInOrder, AckedIsPublished, Unended, Said
<1>3. CASE Crash
  <2>1. /\ UNCHANGED <<stream, acked>>
        /\ \A c \in Conns : pc'[c] \in {"idle", "gone"} /\ (pc'[c] = "idle" => pc[c] = "idle")
    BY <1>3 DEF Crash
  <2>2. \A c \in Conns : Said(c)' = Said(c)
    BY <2>1 DEF Said
  <2>3. StoryInOrder' /\ AckedIsPublished'
    BY <2>1 DEF StoryInv, StoryInOrder, AckedIsPublished
  <2>4. \A c \in Conns : Unended(c)' => Unended(c)
    BY <2>1 DEF Unended
  <2> QED
    BY <2>1, <2>2, <2>3, <2>4 DEF StoryInv
<1>4. ASSUME NEW c \in Conns, NEW f \in Frames, Receive(c, f)
      PROVE  UNCHANGED <<stream, acked, pc, msg>>
  BY <1>4 DEF Receive
<1>5. ASSUME NEW x \in Imeis, SendCommand(x)
      PROVE  UNCHANGED <<stream, acked, pc, msg>>
  BY <1>5 DEF SendCommand, connVars
<1>6. UNCHANGED vars => UNCHANGED <<stream, acked, pc, msg>>
  BY DEF vars, connVars
<1> QED
  BY <1>1, <1>2, <1>3, <1>4, <1>5, <1>6, QuietStory DEF Next

LEMMA InitStory == Init => StoryInv
<1> SUFFICES ASSUME Init PROVE StoryInv
  OBVIOUS
<1>1. DOMAIN stream = {} /\ acked = {} /\ \A c \in Conns : pc[c] = "idle"
  BY DEF Init
<1>2. \A c \in Conns : Said(c) = {}
  BY <1>1 DEF Said
<1>3. StoryInOrder /\ AckedIsPublished
  BY <1>1 DEF StoryInOrder, AckedIsPublished
<1> QED
  BY <1>1, <1>2, <1>3 DEF StoryInv

LEMMA AlwaysStory == Spec => []StoryInv
  BY InitStory, NextStory, AlwaysTyped, PTL DEF Spec

(* No frame is acknowledged to its device before its message is in the       *)
(* stream, whatever the crash, the failed or the lost reply in between.      *)
THEOREM AcknowledgedWasPublished == Spec => []AckedIsPublished
<1>1. StoryInv => AckedIsPublished
  BY DEF StoryInv
<1> QED
  BY <1>1, AlwaysStory, PTL

(* What the stream says of a connection it says in the order it happened,    *)
(* and nothing after its disconnect.                                         *)
THEOREM StoryStaysInOrder == Spec => []StoryInOrder
<1>1. StoryInv => StoryInOrder
  BY DEF StoryInv
<1> QED
  BY <1>1, AlwaysStory, PTL

-----------------------------------------------------------------------------
(* The end of a session. A disconnect on its way names the IMEI the session  *)
(* is bound to; one that was bound closes after it was published.            *)
EndInv ==
  /\ \A c \in Conns : pc[c] \in {"publish", "reply"} /\ msg[c].kind = "disconnect" =>
       msg[c].imei = imei[c]
  /\ \A c \in Conns : pc[c] \in {"closing", "gone"} /\ imei[c] # 0 =>
       \E m \in Said(c) : m.kind = "disconnect" /\ m.imei = imei[c]

\* What a step of c must respect to keep it.
LEMMA EndStep ==
  ASSUME EndInv, NEW c \in Conns, OnlyMoves(c),
         \A d \in Conns : Said(d) \subseteq Said(d)',
         pc'[c] \in {"publish", "reply"} /\ msg'[c].kind = "disconnect" =>
           msg'[c].imei = imei'[c],
         pc'[c] \in {"closing", "gone"} /\ imei'[c] # 0 =>
           \E m \in Said(c)' : m.kind = "disconnect" /\ m.imei = imei'[c]
  PROVE  EndInv'
<1>1. ASSUME NEW d \in Conns \ {c}, pc'[d] \in {"closing", "gone"}, imei'[d] # 0
      PROVE  \E m \in Said(d)' : m.kind = "disconnect" /\ m.imei = imei'[d]
  <2>1. imei'[d] = imei[d] /\ pc'[d] = pc[d]
    BY DEF OnlyMoves
  <2>2. PICK m \in Said(d) : m.kind = "disconnect" /\ m.imei = imei[d]
    BY <1>1, <2>1 DEF EndInv
  <2> QED
    BY <2>1, <2>2
<1>2. \A d \in Conns \ {c} :
        pc'[d] \in {"publish", "reply"} /\ msg'[d].kind = "disconnect" =>
          msg'[d].imei = imei'[d]
  BY DEF OnlyMoves, EndInv
<1> QED
  BY <1>1, <1>2 DEF EndInv

\* A coroutine moves alone, and nothing takes back what was said.
LEMMA SpeaksEffect ==
  ASSUME TypeInv, NEW c \in Conns, Speaks(c)
  PROVE  /\ OnlyMoves(c) /\ imei' = imei
         /\ \A d \in Conns : Said(d) \subseteq Said(d)'
<1>1. TypeOK
  BY DEF TypeInv
<1>2. /\ UNCHANGED <<imei, sessions, inbox>>
      /\ msg' = msg \/ msg' = [msg EXCEPT ![c] = NoMsg]
      /\ stream' = stream \/ (XAdd(c) /\ stream' = Append(stream, msg[c]))
      /\ \E label \in PcLabels : GoTo(c, label)
  BY DEF Speaks, XAdd, Published, Announced, AnnounceRaises, Release, regVars,
     PcLabels, Waits
<1>3. OnlyMoves(c)
  BY <1>1, <1>2, GoToLabel DEF OnlyMoves, TypeOK
<1>4. ASSUME NEW d \in Conns PROVE Said(d) \subseteq Said(d)'
  <2>1. CASE stream' = stream
    BY <2>1 DEF Said
  <2>2. CASE XAdd(c) /\ stream' = Append(stream, msg[c])
    <3>1. \A n \in DOMAIN stream : n \in DOMAIN stream' /\ stream'[n] = stream[n]
      BY <1>1, <2>2 DEF TypeOK, TypeInv, MsgInv, XAdd
    <3> QED
      BY <3>1 DEF Said
  <2> QED
    BY <1>2, <2>1, <2>2
<1> QED
  BY <1>2, <1>3, <1>4

\* Speaking: what closes a bound session is the reply to its disconnect.
LEMMA SpeaksEnd ==
  ASSUME Faults \cap {"crash", "redis"} = {}, TypeInv, StoryInv, EndInv, NEW c \in Conns, Speaks(c)
  PROVE  EndInv'
<1>1. /\ OnlyMoves(c) /\ imei' = imei
      /\ \A d \in Conns : Said(d) \subseteq Said(d)'
  BY SpeaksEffect
<1>2. CASE XAdd(c)
  <2>1. pc[c] = "publish" /\ pc'[c] = "reply" /\ msg' = msg
    BY <1>2, GoToLabel DEF XAdd, TypeInv, PcLabels
  <2> QED
    BY <1>1, <2>1, EndStep DEF EndInv
<1>3. CASE Published(c) /\ ~AckFails(c)
  <2>1. pc'[c] = "read"
    BY <1>3, GoToLabel DEF Published, TypeInv, PcLabels
  <2> QED
    BY <1>1, <2>1, EndStep
<1>4. CASE Announced(c)
  <2>1. pc[c] = "reply" /\ msg[c].kind = "disconnect" /\ pc'[c] = "closing"
    BY <1>4, GoToLabel DEF Announced, TypeInv, PcLabels
  <2>2. msg[c] \in Said(c) /\ msg[c].imei = imei[c]
    BY <2>1 DEF StoryInv, EndInv
  <2>3. msg[c] \in Said(c)'
    BY <1>1, <2>2
  <2>4. \E m \in Said(c)' : m.kind = "disconnect" /\ m.imei = imei'[c]
    BY <1>1, <2>1, <2>2, <2>3
  <2> QED
    BY <1>1, <2>1, <2>4, EndStep
<1>5. CASE AnnounceRaises(c)
  <2>1. pc'[c] = "leaked"
    BY <1>5, GoToLabel DEF AnnounceRaises, TypeInv, PcLabels
  <2> QED
    BY <1>1, <2>1, EndStep
<1>6. CASE Release(c)
  <2>1. pc[c] = "closing" /\ pc'[c] = "gone"
    BY <1>6, GoToLabel DEF Release, TypeInv, PcLabels, Waits
  <2>2. imei[c] # 0 => \E m \in Said(c) : m.kind = "disconnect" /\ m.imei = imei[c]
    BY <2>1 DEF EndInv
  <2>3. imei'[c] # 0 => \E m \in Said(c)' : m.kind = "disconnect" /\ m.imei = imei'[c]
    BY <1>1, <2>2
  <2> QED
    BY <1>1, <2>1, <2>3, EndStep
<1> QED
  BY <1>2, <1>3, <1>4, <1>5, <1>6 DEF Speaks

\* The steps that publish nothing.
LEMMA SilentEnd ==
  ASSUME TypeInv, OpenInv, EndInv, NEW c \in Conns,
         Ends(c) \/ FrameWithMessage(c) \/ Quiet(c) \/ Accept(c)
  PROVE  EndInv'
<1>1. TypeOK
  BY DEF TypeInv
<1>2. CASE Ends(c)
  <2>1. /\ OnlyMoves(c) /\ imei' = imei /\ stream' = stream
        /\ IF imei[c] = 0 THEN pc'[c] = "closing"
           ELSE pc'[c] = "publish" /\ msg'[c].imei = imei[c]
    BY <1>1, <1>2, EndsEffect DEF Ends
  <2>2. \A d \in Conns : Said(d) \subseteq Said(d)'
    BY <2>1 DEF Said
  <2> QED
    BY <2>1, <2>2, EndStep
<1>3. CASE FrameWithMessage(c)
  <2>1. pc'[c] = "publish" /\ msg'[c].kind # "disconnect" /\ stream' = stream
    BY <1>1, <1>3, MessageEffect
  <2>2. OnlyMoves(c)
    BY <1>1, <1>3, MessageMoves
  <2>3. \A d \in Conns : Said(d) \subseteq Said(d)'
    BY <2>1 DEF Said
  <2> QED
    BY <2>1, <2>2, <2>3, EndStep
<1>4. CASE Quiet(c) \/ Accept(c)
  <2>1. /\ UNCHANGED <<stream, imei, msg>>
        /\ inbox' = inbox \/ inbox' = [inbox EXCEPT ![c] = Tail(@)]
        /\ \A d \in Conns \ {c} : d \in sessions' <=> d \in sessions
    BY <1>4 DEF Quiet, Wait, Reject, Detect, Learn, SkipFrame, FrameWithoutMessage,
       Accept, regVars
  <2>2. \/ pc' = pc /\ pc[c] \in {"learn", "read"}
        \/ \E label \in {"waiting", "detect", "learn", "read"} : GoTo(c, label)
        \/ pc[c] = "waiting" /\ GoTo(c, "gone")
    BY <1>4 DEF Quiet, Wait, Reject, Detect, Learn, SkipFrame, FrameWithoutMessage, Accept
  <2>3. /\ pc'[c] \notin {"publish", "reply", "closing"}
        /\ pc'[c] = "gone" => pc[c] = "waiting"
        /\ \A d \in Conns \ {c} : pc'[d] = pc[d]
    BY <1>1, <2>2, GoToLabel DEF PcLabels, Waits
  <2>4. OnlyMoves(c)
    BY <1>1, <2>1, <2>3 DEF OnlyMoves, TypeOK
  <2>5. pc'[c] = "gone" => imei'[c] = 0
    BY <2>1, <2>3 DEF OpenInv
  <2>6. \A d \in Conns : Said(d) \subseteq Said(d)'
    BY <2>1 DEF Said
  <2> QED
    BY <2>3, <2>4, <2>5, <2>6, EndStep
<1> QED
  BY <1>2, <1>3, <1>4

LEMMA NextEnd ==
  ASSUME Faults \cap {"crash", "redis"} = {}
  PROVE  TypeInv /\ OpenInv /\ StoryInv /\ EndInv /\ [Next]_vars => EndInv'
<1> SUFFICES ASSUME TypeInv, OpenInv, StoryInv, EndInv, [Next]_vars PROVE EndInv'
  OBVIOUS
<1>1. ASSUME NEW c \in Conns, Run(c) \/ Wait(c) \/ Accept(c) PROVE EndInv'
  <2>1. Ends(c) \/ FrameWithMessage(c) \/ Quiet(c) \/ Speaks(c) \/ Accept(c)
    BY <1>1, RunKinds DEF Quiet, TypeInv
  <2> QED
    BY <2>1, SilentEnd, SpeaksEnd
<1>2. CASE UNCHANGED <<stream, imei, pc, msg>>
  BY <1>2 DEF EndInv, Said
<1>3. ASSUME NEW c \in Conns, NEW f \in Frames, Receive(c, f)
      PROVE  UNCHANGED <<stream, imei, pc, msg>>
  BY <1>3 DEF Receive, regVars
<1>4. ASSUME NEW x \in Imeis, SendCommand(x)
      PROVE  UNCHANGED <<stream, imei, pc, msg>>
  BY <1>4 DEF SendCommand, regVars, connVars
<1>5. ~Crash
  BY DEF Crash
<1>6. UNCHANGED vars => UNCHANGED <<stream, imei, pc, msg>>
  BY DEF vars, regVars, connVars
<1> QED
  BY <1>1, <1>2, <1>3, <1>4, <1>5, <1>6 DEF Next

(* While Redis takes the entries and the process stays up, the end of every  *)
(* session that was bound is announced to the platform, though replies are   *)
(* lost, publications raise and connections are superseded.                  *)
THEOREM EndsAreAnnounced ==
  ASSUME Faults \cap {"crash", "redis"} = {}
  PROVE  Spec => []EndIsAnnounced
<1>1. Init => EndInv
  BY DEF Init, EndInv
<1>2. TypeInv /\ EndInv => EndIsAnnounced
  <2> SUFFICES ASSUME EndInv, NEW c \in Conns, pc[c] = "gone", imei[c] # 0
               PROVE  \E n \in DOMAIN stream :
                        /\ stream[n].kind = "disconnect" /\ stream[n].conn = c
                        /\ stream[n].imei = imei[c]
    BY DEF EndIsAnnounced
  <2>1. PICK m \in Said(c) : m.kind = "disconnect" /\ m.imei = imei[c]
    BY DEF EndInv
  <2> QED
    BY <2>1 DEF Said
<1> QED
  BY <1>1, <1>2, InitOpen, NextOpen, NextEnd, AlwaysStory, AlwaysTyped, PTL DEF Spec

=============================================================================
