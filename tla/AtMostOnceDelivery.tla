------------------------- MODULE AtMostOnceDelivery -------------------------
(***************************************************************************)
(* What the worker promises of the stream, stripped of Redis, batches and  *)
(* transactions: entries are handed out in order, each at most once; while *)
(* an entry is in flight it may take effect (once, and before it is        *)
(* settled) and be settled; an entry that leaves flight unsettled is never *)
(* handed out again.                                                       *)
(***************************************************************************)
EXTENDS Naturals

VARIABLES published,  \* how many entries were added
          handedOut,  \* the newest entry handed out
          inFlight,   \* the entries some consumer holds
          effects,    \* the entries that took effect
          settled     \* the entries acknowledged

avars == <<published, handedOut, inFlight, effects, settled>>

Init ==
  /\ published = 0 /\ handedOut = 0
  /\ inFlight = {} /\ effects = {} /\ settled = {}

Publish ==
  /\ published' = published + 1
  /\ UNCHANGED <<handedOut, inFlight, effects, settled>>

\* Entries after the newest one handed out; some may be skipped (trimmed),
\* and all of them may be lost on the way (the reply never arrives).
HandOut ==
  \E lo \in (handedOut + 1)..published :
    \E hi \in lo..published :
      /\ handedOut' = hi
      /\ inFlight' \in {inFlight, inFlight \cup (lo..hi)}
      /\ UNCHANGED <<published, effects, settled>>

TakeEffect ==
  \E i \in inFlight \ (effects \cup settled) :
    /\ effects' = effects \cup {i}
    /\ UNCHANGED <<published, handedOut, inFlight, settled>>

Settle ==
  \E i \in inFlight :
    /\ settled' = settled \cup {i}
    /\ inFlight' \in {inFlight, inFlight \ {i}}
    /\ UNCHANGED <<published, handedOut, effects>>

Drop ==
  \E S \in SUBSET inFlight :
    /\ inFlight' = inFlight \ S
    /\ UNCHANGED <<published, handedOut, effects, settled>>

\* A consumer settles an entry and drops the rest of what it held.
SettleAndDrop ==
  \E S \in SUBSET inFlight : \E i \in S :
    /\ settled' = settled \cup {i}
    /\ inFlight' = inFlight \ S
    /\ UNCHANGED <<published, handedOut, effects>>

Next ==
  \/ Publish \/ HandOut \/ TakeEffect \/ Settle \/ Drop \/ SettleAndDrop

Spec == Init /\ [][Next]_avars
=============================================================================
