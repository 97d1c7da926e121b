---------------------------- MODULE SessionCapture ----------------------------
(***************************************************************************)
(* The learning mode of the gateway: what it captures of a connection      *)
(* whose protocol it does not know (protocols/unknown/protocol.py with the *)
(* recorder and the store of app/learning), why the connection ended       *)
(* (observability/session_lifecycle.py), and what the readers of the       *)
(* captures make of the file (intelligence/engine.py, tools/replay).       *)
(*                                                                         *)
(* From the end of a capture to the close of its connection the event loop *)
(* is not given back, so nothing of another connection comes between; a    *)
(* crash or a failing write does.                                          *)
(***************************************************************************)
EXTENDS Integers, Sequences, FiniteSets, SequencesExt

CONSTANTS
  Conns,    \* the connections, accepted in their order
  MaxReads  \* bound of the model: reads of one connection

CaptureAssumption == Conns \subseteq Nat /\ MaxReads \in Nat

VARIABLES
  pc,         \* where each connection's handler is
  got,        \* what each connection has read, piece by piece
  reason,     \* SessionLifecycle.close_reason
  events,     \* SessionRecorder._events
  cancelled,  \* the connections cancelled by a shutdown
  file,       \* the day's file: what each append left in it
  stored,     \* the connections whose append returned
  closed      \* the CLOSE events logged and counted: <<connection, reason>>

vars == <<pc, got, reason, events, cancelled, file, stored, closed>>

\* A read gives one byte, bytes of no known protocol, or a GT06 marker first.
Pieces == {"byte", "noise", "marker"}

Init ==
  /\ pc = [c \in Conns |-> "free"]
  /\ got = [c \in Conns |-> <<>>]
  /\ reason = [c \in Conns |-> "none"]
  /\ events = [c \in Conns |-> <<>>]
  /\ cancelled = {} /\ stored = {}
  /\ file = <<>> /\ closed = <<>>

LoopIsFree == \A c \in Conns : pc[c] # "append"

Accept(c) ==
  /\ pc[c] = "free" /\ LoopIsFree
  /\ \A d \in Conns : d < c => pc[d] # "free"
  /\ pc' = [pc EXCEPT ![c] = "detect"]
  /\ UNCHANGED <<got, reason, events, cancelled, file, stored, closed>>

-----------------------------------------------------------------------------
(* The recorder.                                                             *)
Event(name, data, why) == [event |-> name, data |-> data, reason |-> why]
Rx(data) == Event("RX", data, "none")

\* Learning starts with what detection has read, in one piece.
StartedEmpty(bytes) == <<Event("CONNECT", <<>>, "none")>>
Started(bytes) == <<Event("CONNECT", <<>>, "none"), Rx(bytes)>>

\* finish: the CLOSE event comes last and once.
Finished(recorded, why) == Append(recorded, Event("CLOSE", <<>>, why))

(* The first reason stays. on_close has one for the connections left without *)
(* one, and the learning mode has another.                                   *)
FirstReason(c, why) == IF reason[c] = "none" THEN why ELSE reason[c]
Logged(why) == IF why = "none" THEN "server_closed" ELSE why
Recorded(why) == IF why = "none" THEN "client_closed" ELSE why

(* _detect_protocol: two bytes decide. A GT06 connection leaves this module  *)
(* for GatewaySessions.                                                      *)
Detected(bytes) ==
  CASE bytes = <<"byte">>       -> "none"
    [] Head(bytes) = "marker"   -> "gt06"
    [] OTHER                    -> "unknown"

DetectRead(c, piece) ==
  /\ pc[c] = "detect" /\ LoopIsFree
  /\ Len(got[c]) < MaxReads
  /\ LET bytes == Append(got[c], piece) IN
     /\ got' = [got EXCEPT ![c] = bytes]
     /\ pc' = [pc EXCEPT ![c] = CASE Detected(bytes) = "none" -> "detect"
                                  [] Detected(bytes) = "gt06" -> "gone"
                                  [] OTHER                    -> "learn"]
     /\ events' = [events EXCEPT ![c] = IF Detected(bytes) = "unknown"
                                        THEN Started(bytes) ELSE @]
  /\ UNCHANGED <<reason, cancelled, file, stored, closed>>

(* Detection ends without a protocol: only a timeout and an end of the       *)
(* stream have a reason of their own.                                        *)
DetectEnd(c, why) ==
  /\ pc[c] = "detect" /\ LoopIsFree
  /\ reason' = [reason EXCEPT ![c] = IF why \in {"timeout", "client_closed"}
                                     THEN FirstReason(c, why) ELSE @]
  /\ cancelled' = IF why = "cancelled" THEN cancelled \cup {c} ELSE cancelled
  /\ closed' = Append(closed, <<c, Logged(reason'[c])>>)
  /\ pc' = [pc EXCEPT ![c] = "gone"]
  /\ UNCHANGED <<got, events, file, stored>>

(* UnknownProtocol.handle_connection.                                        *)
LearnRead(c, piece) ==
  /\ pc[c] = "learn" /\ LoopIsFree
  /\ Len(got[c]) < MaxReads
  /\ got' = [got EXCEPT ![c] = Append(@, piece)]
  /\ events' = [events EXCEPT ![c] = Append(@, Rx(<<piece>>))]
  /\ UNCHANGED <<pc, reason, cancelled, file, stored, closed>>

\* What the except clauses record. A cancellation passes them by.
Exceptional(why) ==
  CASE why = "timeout"                      -> <<Event("TIMEOUT", <<>>, "none")>>
    [] why \in {"socket_error", "exception"} -> <<Event("EXCEPTION", <<>>, "none")>>
    [] OTHER                                -> <<>>

LearnEnd(c, why) ==
  /\ pc[c] = "learn" /\ LoopIsFree
  /\ reason' = [reason EXCEPT ![c] = IF why = "cancelled" THEN @ ELSE FirstReason(c, why)]
  /\ cancelled' = IF why = "cancelled" THEN cancelled \cup {c} ELSE cancelled
  /\ events' = [events EXCEPT ![c] =
       Finished(@ \o Exceptional(why), Recorded(reason'[c]))]
  /\ pc' = [pc EXCEPT ![c] = "append"]
  /\ UNCHANGED <<got, file, stored, closed>>

-----------------------------------------------------------------------------
(* SessionStore.append writes the line and its end; a write that fails or a  *)
(* process that dies leaves nothing, a part, or the line without its end.    *)
Left == {"nothing", "part", "line", "all"}
EndsLineForgotten(left) == FALSE
EndsLine(left) == left = "all"
Written(c, left) ==
  IF left = "nothing" THEN file
  ELSE Append(file, [of |-> c, events |-> events[c],
                     whole |-> left # "part", ended |-> EndsLine(left)])

\* The exception of a failed append is logged and the connection closes.
EndAppend(c, left) ==
  /\ pc[c] = "append"
  /\ file' = Written(c, left)
  /\ stored' = IF left = "all" THEN stored \cup {c} ELSE stored
  /\ closed' = Append(closed, <<c, Logged(reason[c])>>)
  /\ pc' = [pc EXCEPT ![c] = "gone"]
  /\ UNCHANGED <<got, reason, events, cancelled>>

(* The process dies; what is not in the file is lost, and it starts again.   *)
Crash(left) ==
  /\ \E c \in Conns : pc[c] \notin {"free", "gone"}
  /\ IF LoopIsFree THEN left = "nothing" /\ UNCHANGED file
     ELSE \E c \in Conns : pc[c] = "append" /\ file' = Written(c, left)
  /\ pc' = [c \in Conns |-> IF pc[c] = "free" THEN "free" ELSE "gone"]
  /\ UNCHANGED <<got, reason, events, cancelled, stored, closed>>

Ends == {"client_closed", "timeout", "socket_error", "exception", "cancelled"}

Next ==
  \/ \E c \in Conns :
       \/ Accept(c)
       \/ \E p \in Pieces : DetectRead(c, p) \/ LearnRead(c, p)
       \/ \E why \in Ends : DetectEnd(c, why) \/ LearnEnd(c, why)
       \/ \E left \in Left : EndAppend(c, left)
  \/ \E left \in Left : Crash(left)

Spec == Init /\ [][Next]_vars
-----------------------------------------------------------------------------
(* The readers: a line is what stands between two line ends, and decodes     *)
(* when it is one whole session.                                             *)
FollowsLineEnd(i) == i = 1 \/ file[i - 1].ended
Readable(i) ==
  /\ file[i].whole /\ FollowsLineEnd(i)
  /\ file[i].ended \/ i = Len(file)

\* engine.load_sessions leaves out the lines that do not decode.
LoadSessions == {file[i].of : i \in {j \in DOMAIN file : Readable(j)}}

\* SessionLoader.load_jsonl refuses the file for one of them.
LoadJsonl == IF \A i \in DOMAIN file : Readable(i) THEN LoadSessions ELSE {}
-----------------------------------------------------------------------------
(* The state is what the variables say it is.                                *)
TypeOK ==
  /\ pc \in [Conns -> {"free", "detect", "learn", "append", "gone"}]
  /\ \A c \in Conns : /\ got[c] \in Seq(Pieces)
                      /\ reason[c] \in {"none"} \cup (Ends \ {"cancelled"})
                      /\ pc[c] \in {"free", "detect"} => events[c] = <<>>
  /\ stored \subseteq LoadSessions \cup {file[i].of : i \in DOMAIN file}

Events(recorded, name) == {i \in DOMAIN recorded : recorded[i].event = name}

(* A capture that loads is the whole story of its connection: it begins with *)
(* CONNECT, its RX events follow and are all the bytes read in their order,  *)
(* first those of detection and then each read by itself, it ends with its   *)
(* only CLOSE, and a TIMEOUT or an EXCEPTION comes before that exactly when  *)
(* the close reason says so.                                                 *)
CaptureIsComplete ==
  \A i \in DOMAIN file : Readable(i) =>
    LET e     == file[i].events
        bytes == got[file[i].of]
        first == Len(e[2].data)
        last  == Len(bytes) - first + 2
        why   == e[Len(e)].reason
    IN /\ e[1].event = "CONNECT" /\ e[1].data = <<>>
       /\ Events(e, "RX") = 2..last
       /\ \A k \in 1..first : e[2].data[k] = bytes[k]
       /\ \A k \in 3..last : e[k].data = <<bytes[first + k - 2]>>
       /\ Events(e, "CLOSE") = {Len(e)}
       /\ Events(e, "TIMEOUT") = IF why = "timeout" THEN {Len(e) - 1} ELSE {}
       /\ Events(e, "EXCEPTION") =
            IF why \in {"socket_error", "exception"} THEN {Len(e) - 1} ELSE {}

(* No connection is counted closed twice, and capture and log agree on why   *)
(* it ended; a shutdown is the exception, when the capture blames the client *)
(* and the log the server.                                                   *)
ReasonsAgree ==
  \A i \in DOMAIN closed :
    LET c == closed[i][1]
        e == events[c]
    IN /\ \A j \in DOMAIN closed : closed[j][1] = c => j = i
       /\ e # <<>> =>
            IF c \in cancelled
            THEN e[Len(e)].reason = "client_closed" /\ closed[i][2] = "server_closed"
            ELSE e[Len(e)].reason = closed[i][2]

CaptureIsFaithful == CaptureIsComplete /\ ReasonsAgree

(* What an append was reported to have stored is found by the analysis,      *)
(* unless the piece right before it has no line end: a failed append costs   *)
(* itself and at most the next one. The replay tool reads all or nothing.    *)
StoredIsFound ==
  /\ \A i \in DOMAIN file :
       file[i].of \in stored /\ FollowsLineEnd(i) => file[i].of \in LoadSessions
  /\ Cardinality(stored \ LoadSessions) <= Cardinality({i \in DOMAIN file : ~file[i].ended})
  /\ LoadJsonl # {} => stored \subseteq LoadJsonl
=============================================================================
