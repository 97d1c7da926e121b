------------------------- MODULE MCGatewaySessions -------------------------
(* Instances of GatewaySessions for TLC.                                    *)
EXTENDS GatewaySessions

Frame(t, x, s) == [type |-> t, imei |-> x, serial |-> s, hash |-> s]

\* A frame of every type the loop treats apart; logins of two devices and bytes
\* of no known protocol.
ConstFramesAll   == {Frame(t, 7, 1) : t \in FrameTypes}
ConstFramesBound == {Frame("login", 7, 1), Frame("login", 8, 1), Frame("noise", 7, 1)}

ConstLoginsOwn == [c \in Conns |-> IF c = 4 THEN {8} ELSE {7}]
=============================================================================
