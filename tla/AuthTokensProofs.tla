--------------------------- MODULE AuthTokensProofs ---------------------------
(***************************************************************************)
(* Proofs about AuthTokens, for any tabs, limits, window and faults and    *)
(* any number of refresh tokens, under what the settings of the back       *)
(* office give the constants (PositiveLimits).                             *)
(***************************************************************************)
EXTENDS AuthTokens, FiniteSetTheorems, TLAPS

(* What a request may be, and what it holds.                                 *)
Counted  == [op : {"counted", "limited"}, n : 1..MaxCount, late : BOOLEAN]
Holders  == [op : {"refresh", "logout"}, token : Nat \ {0}, alone : BOOLEAN]
Replies  == [op : {"reply"}, token : Nat \ {0}]
Requests == {Idle} \cup Counted \cup Holders \cup Replies

RequestInv ==
  /\ request \in [Tabs -> Requests]
  /\ \A b \in Tabs :
       request[b].op \in {"refresh", "logout", "reply"} => request[b].token \in DOMAIN tokens

TokenInv ==
  /\ Len(tokens) <= MaxTokens
  /\ \A t \in DOMAIN tokens : tokens[t].login <= t

TypeInv == TypeOK /\ RequestInv /\ TokenInv

(* The logins of this window that may still check a password.                *)
Open == {b \in Tabs : Counting(b) /\ ~request[b].late /\ WithinLimit(b)}

WindowInv ==
  /\ IsFiniteSet(Open)
  /\ checked + Cardinality(Open) <= attempts
  /\ checked + Cardinality(Open) <= LoginLimit

(* The login that made the key and is about to give it its time to live.     *)
First(b) == request[b].op = "counted" /\ request[b].n = 1

KeyInv ==
  /\ ttl # 0
  /\ attempts = 0 => ttl = -1
  /\ \A b \in Tabs : First(b) =>
       ttl = -1 /\ attempts > 0 /\ \A o \in Tabs : First(o) => o = b
  /\ attempts > 0 /\ ttl = -1 => stuck \/ \E b \in Tabs : First(b)

(* The refreshes in progress of a login, the tokens they hold, and its live  *)
(* tokens that none of them holds.                                           *)
Pending(l) == {b \in Tabs : request[b].op = "refresh" /\ tokens[request[b].token].login = l}
Held(l) == {request[b].token : b \in Pending(l)}
Spare(l) == {t \in DOMAIN tokens : tokens[t].login = l /\ Live(t)} \ Held(l)

RotationInv ==
  \A l \in Logins :
    /\ IsFiniteSet(Pending(l))
    /\ Cardinality(Spare(l)) + Cardinality(Pending(l)) <= 1 + overlaps[l]
-----------------------------------------------------------------------------
TokenRows == [login : Logins, revoked : BOOLEAN, expired : BOOLEAN]

(* The tokens after a step: none lost, none given to another login, none     *)
(* valid again.                                                              *)
Kept ==
  \A t \in DOMAIN tokens :
    /\ t \in DOMAIN tokens' /\ tokens'[t].login = tokens[t].login
    /\ tokens[t].revoked => tokens'[t].revoked
    /\ tokens[t].expired => tokens'[t].expired

LEMMA RequestKinds ==
  ASSUME NEW q \in Requests
  PROVE  /\ q.op \in {"idle", "counted", "limited", "refresh", "logout", "reply"}
         /\ q.op \in {"counted", "limited"} => q \in Counted
         /\ q.op \in {"refresh", "logout"} => q \in Holders
         /\ q.op = "reply" => q \in Replies
         /\ q.op = "idle" => q = Idle
  BY DEF Requests, Counted, Holders, Replies, Idle

\* A request that goes on leaves the others alone.
LEMMA ContinueIs ==
  ASSUME RequestInv, NEW b \in Tabs, NEW q \in Requests, Continue(b, q)
  PROVE  /\ request' \in [Tabs -> Requests] /\ request'[b] = q
         /\ \A o \in Tabs \ {b} : request'[o] = request[o]
  BY DEF RequestInv, Continue

\* A request that begins takes from a logout that it is alone.
LEMMA BeginIs ==
  ASSUME RequestInv, NEW b \in Tabs, NEW q \in Requests, Begin(b, q)
  PROVE  /\ request' \in [Tabs -> Requests] /\ request'[b] = q
         /\ \A o \in Tabs \ {b} :
              /\ request'[o].op = request[o].op
              /\ request[o].op # "logout" => request'[o] = request[o]
              /\ request[o].op = "logout" =>
                   request'[o].token = request[o].token /\ ~request'[o].alone
<1>1. \A o \in Tabs : request'[o] =
        IF o = b THEN q
        ELSE IF request[o].op = "logout" THEN [request[o] EXCEPT !.alone = FALSE]
        ELSE request[o]
  BY DEF Begin
<1>2. ASSUME NEW o \in Tabs, request[o].op = "logout"
      PROVE  /\ [request[o] EXCEPT !.alone = FALSE] \in Holders
             /\ [request[o] EXCEPT !.alone = FALSE].op = "logout"
             /\ [request[o] EXCEPT !.alone = FALSE].token = request[o].token
             /\ [request[o] EXCEPT !.alone = FALSE].alone = FALSE
  <2>1. request[o] \in Holders
    BY <1>2, RequestKinds DEF RequestInv
  <2> QED
    BY <1>2, <2>1 DEF Holders
<1>3. \A o \in Tabs : request'[o] \in Requests
  BY <1>1, <1>2 DEF Requests, RequestInv
<1>4. request' = [o \in Tabs |-> request'[o]]
  BY DEF Begin
<1>5. request' \in [Tabs -> Requests]
  BY <1>3, <1>4
<1> QED
  BY <1>1, <1>2, <1>5

\* A new refresh token comes last.
LEMMA Grown ==
  ASSUME NEW s \in Seq(TokenRows), NEW l \in Logins
  PROVE  LET new == Append(s, NewToken(l)) IN
         /\ new \in Seq(TokenRows) /\ Len(new) = Len(s) + 1 /\ Len(s) \in Nat
         /\ DOMAIN s = 1..Len(s) /\ DOMAIN new = 1..(Len(s) + 1)
         /\ \A t \in DOMAIN s : new[t] = s[t]
         /\ new[Len(s) + 1] = NewToken(l)
<1> DEFINE row == NewToken(l)
<1>1. row \in TokenRows
  BY DEF NewToken, TokenRows
<1> HIDE DEF row
<1>2. LET new == Append(s, row) IN
        /\ new \in Seq(TokenRows) /\ Len(new) = Len(s) + 1 /\ Len(s) \in Nat
        /\ DOMAIN s = 1..Len(s) /\ DOMAIN new = 1..(Len(s) + 1)
        /\ \A t \in DOMAIN s : new[t] = s[t]
        /\ new[Len(s) + 1] = row
  BY <1>1
<1> QED
  BY <1>2 DEF row

\* A token that is revoked, or expires, is the only one that changes.
LEMMA Marked ==
  ASSUME NEW s \in Seq(TokenRows), NEW t \in DOMAIN s, NEW row \in TokenRows
  PROVE  LET new == [s EXCEPT ![t] = row] IN
         /\ new \in Seq(TokenRows) /\ Len(new) = Len(s) /\ DOMAIN new = DOMAIN s
         /\ \A u \in DOMAIN s : new[u] = IF u = t THEN row ELSE s[u]
<1>1. s \in [1..Len(s) -> TokenRows] /\ Len(s) \in Nat /\ DOMAIN s = 1..Len(s)
  OBVIOUS
<1>2. [s EXCEPT ![t] = row] \in [1..Len(s) -> TokenRows]
  BY <1>1
<1> QED
  BY <1>1, <1>2

LEMMA RevokedIs ==
  ASSUME TypeInv, NEW t \in DOMAIN tokens
  PROVE  /\ Revoked(t) \in Seq(TokenRows) /\ Len(Revoked(t)) = Len(tokens)
         /\ DOMAIN Revoked(t) = DOMAIN tokens
         /\ \A u \in DOMAIN tokens : u # t => Revoked(t)[u] = tokens[u]
         /\ Revoked(t)[t].revoked /\ Revoked(t)[t].login = tokens[t].login
         /\ Revoked(t)[t].expired = tokens[t].expired
<1> DEFINE row == [tokens[t] EXCEPT !.revoked = TRUE]
<1>1. tokens \in Seq(TokenRows)
  BY DEF TypeInv, TypeOK, TokenRows
<1>2. tokens[t] \in TokenRows
  BY <1>1
<1>3. /\ row \in TokenRows /\ row.revoked = TRUE /\ row.login = tokens[t].login
      /\ row.expired = tokens[t].expired
  BY <1>2 DEF TokenRows
<1>4. Revoked(t) = [tokens EXCEPT ![t] = row]
  BY DEF Revoked
<1> HIDE DEF row
<1> QED
  BY <1>1, <1>3, <1>4, Marked
-----------------------------------------------------------------------------
\* The parts of the type invariant, put together again.
LEMMA TypeAgain ==
  ASSUME TypeInv, request' \in [Tabs -> Requests],
         \A b \in Tabs : request'[b].op \in {"refresh", "logout", "reply"} =>
           request'[b].token \in DOMAIN tokens',
         tokens' \in Seq(TokenRows), TokenInv',
         cookie' \in {0} \cup DOMAIN tokens',
         access' \in [Tabs -> {"none", "valid", "expired"}],
         attempts' \in 0..MaxCount, ttl' \in -1..Window, checked' \in Nat,
         overlaps' \in [Logins -> Nat], loggedOut' \in BOOLEAN, stuck' \in BOOLEAN,
         UNCHANGED active
  PROVE  TypeInv'
<1>1. \A b \in Tabs :
        request'[b].op \in {"idle", "counted", "limited", "refresh", "logout", "reply"}
  BY RequestKinds
<1>2. TypeOK'
  BY <1>1 DEF TypeInv, TypeOK, TokenRows
<1>3. RequestInv'
  BY DEF RequestInv
<1> QED
  BY <1>2, <1>3 DEF TypeInv

\* The tokens held by the requests but the one that steps.
LEMMA StillHeld ==
  ASSUME TypeInv, Kept, NEW b \in Tabs,
         request'[b].op \in {"refresh", "logout", "reply"} =>
           request'[b].token \in DOMAIN tokens',
         \A o \in Tabs \ {b} :
           /\ request'[o].op = request[o].op
           /\ request[o].op # "logout" => request'[o] = request[o]
           /\ request[o].op = "logout" => request'[o].token = request[o].token
  PROVE  \A o \in Tabs : request'[o].op \in {"refresh", "logout", "reply"} =>
           request'[o].token \in DOMAIN tokens'
<1> SUFFICES ASSUME NEW o \in Tabs \ {b},
                    request'[o].op \in {"refresh", "logout", "reply"}
             PROVE  request'[o].token \in DOMAIN tokens'
  OBVIOUS
<1>1. request'[o].token = request[o].token
  OBVIOUS
<1>2. request[o].token \in DOMAIN tokens
  BY DEF TypeInv, RequestInv
<1> QED
  BY <1>1, <1>2 DEF Kept

LEMMA SameTokens ==
  ASSUME TypeInv, UNCHANGED tokens
  PROVE  Kept /\ tokens' \in Seq(TokenRows) /\ TokenInv'
  BY DEF TypeInv, TypeOK, TokenInv, Kept, TokenRows

\* A request begins, and nothing else but counters changes.
LEMMA BeginKeeps ==
  ASSUME TypeInv, NEW b \in Tabs, NEW q \in Requests, Begin(b, q),
         q.op \in {"refresh", "logout", "reply"} => q.token \in DOMAIN tokens,
         UNCHANGED <<active, tokens, cookie, access, ttl, checked, stuck, loggedOut>>,
         attempts' \in 0..MaxCount, overlaps' \in [Logins -> Nat]
  PROVE  TypeInv' /\ Kept
<1>1. Kept /\ tokens' \in Seq(TokenRows) /\ TokenInv'
  BY SameTokens
<1>2. /\ request' \in [Tabs -> Requests] /\ request'[b] = q
      /\ \A o \in Tabs \ {b} :
           /\ request'[o].op = request[o].op
           /\ request[o].op # "logout" => request'[o] = request[o]
           /\ request[o].op = "logout" => request'[o].token = request[o].token
  BY BeginIs DEF TypeInv
<1>3. \A o \in Tabs : request'[o].op \in {"refresh", "logout", "reply"} =>
        request'[o].token \in DOMAIN tokens'
  BY <1>1, <1>2, StillHeld
<1> QED
  BY <1>1, <1>2, <1>3, TypeAgain DEF TypeInv, TypeOK

\* A request goes on.
LEMMA ContinueKeeps ==
  ASSUME TypeInv, NEW b \in Tabs, NEW q \in Requests, Continue(b, q),
         q.op \in {"refresh", "logout", "reply"} => q.token \in DOMAIN tokens',
         Kept, tokens' \in Seq(TokenRows), TokenInv',
         cookie' \in {0} \cup DOMAIN tokens',
         access' \in [Tabs -> {"none", "valid", "expired"}],
         ttl' \in -1..Window, checked' \in Nat,
         loggedOut' \in BOOLEAN, stuck' \in BOOLEAN,
         UNCHANGED <<active, attempts, overlaps>>
  PROVE  TypeInv' /\ Kept
<1>1. /\ request' \in [Tabs -> Requests] /\ request'[b] = q
      /\ \A o \in Tabs \ {b} : request'[o] = request[o]
  BY ContinueIs DEF TypeInv
<1>2. \A o \in Tabs : request'[o].op \in {"refresh", "logout", "reply"} =>
        request'[o].token \in DOMAIN tokens'
  BY <1>1, StillHeld
<1> QED
  BY <1>1, <1>2, TypeAgain DEF TypeInv, TypeOK

LEMMA IdleIs == Idle \in Requests /\ Idle.op = "idle"
  BY DEF Requests, Idle

LEMMA LoginBeginKeeps ==
  ASSUME PositiveLimits, TypeInv, NEW b \in Tabs, BeginLogin(b)
  PROVE  TypeInv' /\ Kept
<1> DEFINE n == IF attempts < MaxCount THEN attempts + 1 ELSE attempts
           q == [op |-> "counted", n |-> n, late |-> FALSE]
<1>1. n \in 1..MaxCount /\ attempts' = n
  BY DEF PositiveLimits, TypeInv, TypeOK, BeginLogin
<1>2. q \in Requests /\ q.op = "counted"
  BY <1>1 DEF Requests, Counted
<1>3. /\ Begin(b, q)
      /\ UNCHANGED <<active, tokens, cookie, access, ttl, checked, stuck, overlaps, loggedOut>>
  BY DEF BeginLogin, history
<1> HIDE DEF q
<1>4. attempts' \in 0..MaxCount /\ overlaps' \in [Logins -> Nat]
  BY <1>1, <1>3 DEF TypeInv, TypeOK
<1> QED
  BY <1>2, <1>3, <1>4, BeginKeeps

LEMMA ExpiryKeeps ==
  ASSUME PositiveLimits, TypeInv, NEW b \in Tabs, SetExpiry(b)
  PROVE  TypeInv' /\ Kept
<1> DEFINE q == [request[b] EXCEPT !.op = "limited"]
<1>1. /\ request[b].op = "counted" /\ Continue(b, q)
      /\ ttl' = IF request[b].n = 1 THEN Window ELSE ttl
      /\ UNCHANGED <<active, tokens, cookie, access, attempts, checked, stuck, overlaps, loggedOut>>
  BY DEF SetExpiry, history
<1>2. request[b] \in Counted
  BY <1>1, RequestKinds DEF TypeInv, RequestInv
<1>3. q \in Counted /\ q.op = "limited"
  BY <1>2 DEF Counted
<1>4. q \in Requests
  BY <1>3 DEF Requests
<1> HIDE DEF q
<1>5. Kept /\ tokens' \in Seq(TokenRows) /\ TokenInv'
  BY <1>1, SameTokens
<1>6. /\ cookie' \in {0} \cup DOMAIN tokens'
      /\ access' \in [Tabs -> {"none", "valid", "expired"}]
      /\ checked' \in Nat /\ loggedOut' \in BOOLEAN /\ stuck' \in BOOLEAN
  BY <1>1 DEF TypeInv, TypeOK
<1>7. ttl' \in -1..Window
  BY <1>1 DEF TypeInv, TypeOK, PositiveLimits
<1> QED
  BY <1>1, <1>3, <1>4, <1>5, <1>6, <1>7, ContinueKeeps

LEMMA RedisFailsKeeps ==
  ASSUME TypeInv, NEW b \in Tabs, RedisFails(b)
  PROVE  TypeInv' /\ Kept
<1>1. Kept /\ tokens' \in Seq(TokenRows) /\ TokenInv'
  BY SameTokens DEF RedisFails
<1>2. /\ Continue(b, Idle) /\ stuck' = TRUE
      /\ UNCHANGED <<active, tokens, cookie, access, attempts, ttl, checked, overlaps, loggedOut>>
  BY DEF RedisFails, history
<1>3. /\ cookie' \in {0} \cup DOMAIN tokens'
      /\ access' \in [Tabs -> {"none", "valid", "expired"}]
      /\ ttl' \in -1..Window
      /\ checked' \in Nat /\ loggedOut' \in BOOLEAN /\ stuck' \in BOOLEAN
  BY <1>2 DEF TypeInv, TypeOK
<1> QED
  BY <1>1, <1>2, <1>3, IdleIs, ContinueKeeps

LEMMA TickKeeps ==
  ASSUME PositiveLimits, TypeInv, Tick
  PROVE  TypeInv' /\ Kept
<1>1. /\ Kept /\ tokens' \in Seq(TokenRows) /\ TokenInv'
      /\ UNCHANGED <<active, tokens, cookie, access, stuck, overlaps, loggedOut>>
  BY SameTokens DEF Tick, history
<1>2. \A b \in Tabs :
        \/ request'[b] = request[b]
        \/ /\ Counting(b) /\ request'[b] = [request[b] EXCEPT !.late = TRUE]
  BY DEF Tick, TypeInv, RequestInv
<1>3. ASSUME NEW b \in Tabs, Counting(b)
      PROVE  /\ [request[b] EXCEPT !.late = TRUE] \in Requests
             /\ [request[b] EXCEPT !.late = TRUE].op \in {"counted", "limited"}
  <2>1. request[b] \in Counted
    BY <1>3, RequestKinds DEF Counting, TypeInv, RequestInv
  <2> QED
    BY <2>1 DEF Counted, Requests
<1>4. request' = [b \in Tabs |-> request'[b]]
  BY DEF Tick, TypeInv, RequestInv
<1>5. \A b \in Tabs : request'[b] \in Requests
  BY <1>2, <1>3 DEF TypeInv, RequestInv
<1>6. \A b \in Tabs : request'[b].op \in {"refresh", "logout", "reply"} =>
        request'[b].token \in DOMAIN tokens'
  BY <1>1, <1>2, <1>3 DEF TypeInv, RequestInv
<1>7. attempts' \in 0..MaxCount /\ ttl' \in -1..Window /\ checked' \in Nat
  BY DEF Tick, TypeInv, TypeOK, PositiveLimits
<1>8. /\ cookie' \in {0} \cup DOMAIN tokens'
      /\ access' \in [Tabs -> {"none", "valid", "expired"}]
      /\ overlaps' \in [Logins -> Nat] /\ loggedOut' \in BOOLEAN /\ stuck' \in BOOLEAN
  BY <1>1 DEF TypeInv, TypeOK
<1>9. request' \in [Tabs -> Requests]
  BY <1>4, <1>5
<1> QED
  BY <1>1, <1>6, <1>7, <1>8, <1>9, TypeAgain

\* A login issues the first refresh token of a login of its own.
LEMMA LoginKeeps ==
  ASSUME PositiveLimits, TypeInv, NEW b \in Tabs, Login(b)
  PROVE  TypeInv' /\ Kept
<1>1. /\ UNCHANGED <<active, cookie, access, attempts, ttl, stuck, overlaps>>
      /\ checked' \in Nat /\ loggedOut' \in BOOLEAN
  <2>1. checked \in Nat /\ loggedOut \in BOOLEAN
    BY DEF TypeInv, TypeOK
  <2>2. checked' = checked \/ checked' = checked + 1
    BY DEF Login
  <2>3. loggedOut' = loggedOut \/ loggedOut' = FALSE
    BY DEF Login
  <2>4. UNCHANGED <<active, cookie, access, attempts, ttl, stuck, overlaps>>
    BY DEF Login
  <2>5. loggedOut' \in BOOLEAN
    BY <2>1, <2>3
  <2>6. checked' \in Nat
    BY <2>1, <2>2
  <2> QED
    BY <2>4, <2>5, <2>6
<1>2. /\ access' \in [Tabs -> {"none", "valid", "expired"}]
      /\ ttl' \in -1..Window /\ stuck' \in BOOLEAN
  BY <1>1 DEF TypeInv, TypeOK
<1>3. CASE Continue(b, Idle) /\ UNCHANGED tokens
  <2>1. Kept /\ tokens' \in Seq(TokenRows) /\ TokenInv'
    BY <1>3, SameTokens
  <2>2. cookie' \in {0} \cup DOMAIN tokens'
    BY <1>1, <1>3 DEF TypeInv, TypeOK
  <2> QED
    BY <1>1, <1>2, <1>3, <2>1, <2>2, IdleIs, ContinueKeeps
<1>4. CASE /\ Len(tokens) < MaxTokens
           /\ tokens' = Append(tokens, NewToken(Len(tokens) + 1))
           /\ Continue(b, [op |-> "reply", token |-> Len(tokens) + 1])
  <2> DEFINE n == Len(tokens) + 1
             q == [op |-> "reply", token |-> n]
  <2>1. tokens \in Seq(TokenRows) /\ Len(tokens) \in Nat
    BY DEF TypeInv, TypeOK, TokenRows
  <2>2. n \in Logins
    BY <1>4, <2>1 DEF Logins, PositiveLimits
  <2>3. /\ tokens' \in Seq(TokenRows) /\ Len(tokens') = n
        /\ DOMAIN tokens = 1..Len(tokens) /\ DOMAIN tokens' = 1..n
        /\ \A t \in DOMAIN tokens : tokens'[t] = tokens[t]
        /\ tokens'[n] = NewToken(n)
    BY <1>4, <2>1, <2>2, Grown
  <2>4. NewToken(n).login = n
    BY DEF NewToken
  <2>5. Kept
    BY <2>1, <2>3 DEF Kept
  <2>6. Len(tokens') <= MaxTokens
    BY <1>4, <2>1, <2>3 DEF PositiveLimits
  <2>7. TokenInv'
    BY <2>1, <2>3, <2>4, <2>6 DEF TypeInv, TokenInv
  <2>8. q \in Requests /\ q.token \in DOMAIN tokens'
    BY <2>1, <2>3 DEF Requests, Replies
  <2>9. cookie' \in {0} \cup DOMAIN tokens'
    BY <1>1, <2>5 DEF TypeInv, TypeOK, Kept
  <2>10. Continue(b, q)
    BY <1>4
  <2> HIDE DEF n, q
  <2> QED
    BY <1>1, <1>2, <2>3, <2>5, <2>7, <2>8, <2>9, <2>10, ContinueKeeps
<1> QED
  BY <1>3, <1>4 DEF Login

LEMMA RefreshBeginKeeps ==
  ASSUME TypeInv, NEW b \in Tabs, NEW op \in {"refresh", "logout"},
         cookie # 0, Hold(b, op),
         UNCHANGED <<active, tokens, cookie, access, ttl, checked, stuck, attempts, loggedOut>>
  PROVE  TypeInv' /\ Kept
<1> DEFINE q == [op |-> op, token |-> cookie, alone |-> OthersIdle(b)]
<1>1. cookie \in DOMAIN tokens /\ tokens \in Seq(TokenRows)
  BY DEF TypeInv, TypeOK, TokenRows
<1>2. OthersIdle(b) \in BOOLEAN
  BY DEF OthersIdle
<1>3. q \in Requests /\ q.token \in DOMAIN tokens
  BY <1>1, <1>2 DEF Requests, Holders
<1>4. Begin(b, q)
  BY DEF Hold
<1>5. overlaps' \in [Logins -> Nat] /\ attempts' \in 0..MaxCount
  <2>1. PICK l, k : l = tokens[cookie].login /\ k = (IF Holding(b, cookie) THEN 1 ELSE 0)
    OBVIOUS
  <2>2. overlaps' = [overlaps EXCEPT ![l] = overlaps[l] + k] /\ k \in Nat
    BY <2>1 DEF Hold
  <2>3. overlaps \in [Logins -> Nat] /\ attempts \in 0..MaxCount
    BY DEF TypeInv, TypeOK
  <2>4. tokens[cookie] \in TokenRows
    BY <1>1
  <2>5. l \in Logins
    BY <2>1, <2>4 DEF TokenRows
  <2>6. overlaps[l] + k \in Nat
    BY <2>2, <2>3, <2>5
  <2> QED
    BY <2>2, <2>3, <2>6
<1> HIDE DEF q
<1> QED
  BY <1>3, <1>4, <1>5, BeginKeeps

LEMMA RefreshCommitKeeps ==
  ASSUME PositiveLimits, TypeInv, NEW b \in Tabs, CommitRefresh(b)
  PROVE  TypeInv' /\ Kept
<1> DEFINE n == Len(tokens) + 1
           q == [op |-> "reply", token |-> n]
<1>0. PICK t : t = request[b].token
  OBVIOUS
<1>1. /\ request[b].op = "refresh" /\ Len(tokens) < MaxTokens
      /\ tokens' = Append(Revoked(t), NewToken(tokens[t].login))
      /\ Continue(b, q)
      /\ UNCHANGED <<active, cookie, access, attempts, ttl, checked, stuck, overlaps, loggedOut>>
  BY <1>0 DEF CommitRefresh, Rotated, limit, history
<1>2. t \in DOMAIN tokens
  BY <1>0, <1>1 DEF TypeInv, RequestInv
<1>3. tokens \in Seq(TokenRows) /\ Len(tokens) \in Nat /\ tokens[t] \in TokenRows
  <2>1. tokens \in Seq(TokenRows)
    BY DEF TypeInv, TypeOK, TokenRows
  <2> QED
    BY <1>2, <2>1
<1>4. tokens[t].login \in Logins /\ tokens[t].login <= t /\ t <= Len(tokens) /\ t \in Nat
  BY <1>2, <1>3 DEF TokenRows, TypeInv, TokenInv
<1>5. /\ Revoked(t) \in Seq(TokenRows) /\ Len(Revoked(t)) = Len(tokens)
      /\ DOMAIN Revoked(t) = DOMAIN tokens
      /\ \A u \in DOMAIN tokens : u # t => Revoked(t)[u] = tokens[u]
      /\ Revoked(t)[t].revoked /\ Revoked(t)[t].login = tokens[t].login
      /\ Revoked(t)[t].expired = tokens[t].expired
  BY <1>2, RevokedIs
<1>6. /\ tokens' \in Seq(TokenRows) /\ Len(tokens') = n
      /\ DOMAIN tokens = 1..Len(tokens) /\ DOMAIN tokens' = 1..n
      /\ \A u \in DOMAIN tokens : tokens'[u] = Revoked(t)[u]
      /\ tokens'[n] = NewToken(tokens[t].login)
  BY <1>1, <1>3, <1>4, <1>5, Grown
<1>7. NewToken(tokens[t].login).login = tokens[t].login
  BY DEF NewToken
<1>8. Kept
  BY <1>3, <1>5, <1>6 DEF Kept
<1>9. Len(tokens') <= MaxTokens /\ tokens'[n].login <= n
  <2>1. tokens[t].login \in Nat
    BY <1>4 DEF Logins, PositiveLimits
  <2> QED
    BY <1>1, <1>3, <1>4, <1>6, <1>7, <2>1 DEF PositiveLimits
<1>10. TokenInv'
  BY <1>3, <1>5, <1>6, <1>9 DEF TypeInv, TokenInv
<1>11. q \in Requests /\ q.token \in DOMAIN tokens'
  BY <1>3, <1>6 DEF Requests, Replies
<1>12. /\ cookie' \in {0} \cup DOMAIN tokens'
       /\ access' \in [Tabs -> {"none", "valid", "expired"}]
       /\ ttl' \in -1..Window /\ checked' \in Nat
       /\ loggedOut' \in BOOLEAN /\ stuck' \in BOOLEAN
  BY <1>1, <1>8 DEF TypeInv, TypeOK, Kept
<1> HIDE DEF n, q
<1> QED
  BY <1>1, <1>6, <1>8, <1>10, <1>11, <1>12, ContinueKeeps

LEMMA ReplyKeeps ==
  ASSUME TypeInv, NEW b \in Tabs, Reply(b) \/ ReplyLost(b)
  PROVE  TypeInv' /\ Kept
<1>1. /\ request[b].op = "reply" /\ Continue(b, Idle)
      /\ UNCHANGED <<active, tokens, attempts, ttl, checked, stuck, overlaps, loggedOut>>
      /\ cookie' = cookie \/ cookie' = request[b].token
  BY DEF Reply, ReplyLost, limit, history
<1>2. Kept /\ tokens' \in Seq(TokenRows) /\ TokenInv'
  BY <1>1, SameTokens
<1>3. request[b].token \in DOMAIN tokens
  BY <1>1 DEF TypeInv, RequestInv
<1>4. access' \in [Tabs -> {"none", "valid", "expired"}]
  BY DEF Reply, ReplyLost, TypeInv, TypeOK
<1>5. /\ cookie' \in {0} \cup DOMAIN tokens'
      /\ ttl' \in -1..Window /\ checked' \in Nat
      /\ loggedOut' \in BOOLEAN /\ stuck' \in BOOLEAN
  BY <1>1, <1>3 DEF TypeInv, TypeOK
<1> QED
  BY <1>1, <1>2, <1>4, <1>5, IdleIs, ContinueKeeps

LEMMA LogoutCommitKeeps ==
  ASSUME TypeInv, NEW b \in Tabs, CommitLogout(b)
  PROVE  TypeInv' /\ Kept
<1>0. PICK t : t = request[b].token
  OBVIOUS
<1>1. /\ request[b].op = "logout" /\ tokens' = Revoked(t) /\ Continue(b, Idle)
      /\ loggedOut' = request[b].alone
      /\ UNCHANGED <<active, cookie, attempts, ttl, checked, stuck, overlaps>>
  BY <1>0 DEF CommitLogout, limit
<1>2. t \in DOMAIN tokens /\ request[b] \in Holders
  BY <1>0, <1>1, RequestKinds DEF TypeInv, RequestInv
<1>3. tokens \in Seq(TokenRows) /\ loggedOut' \in BOOLEAN
  BY <1>1, <1>2 DEF TypeInv, TypeOK, TokenRows, Holders
<1>4. /\ Revoked(t) \in Seq(TokenRows) /\ Len(Revoked(t)) = Len(tokens)
      /\ DOMAIN Revoked(t) = DOMAIN tokens
      /\ \A u \in DOMAIN tokens : u # t => Revoked(t)[u] = tokens[u]
      /\ Revoked(t)[t].revoked /\ Revoked(t)[t].login = tokens[t].login
      /\ Revoked(t)[t].expired = tokens[t].expired
  BY <1>2, RevokedIs
<1>5. Kept
  BY <1>1, <1>4 DEF Kept
<1>6. TokenInv'
  BY <1>1, <1>4 DEF TypeInv, TokenInv
<1>7. access' \in [Tabs -> {"none", "valid", "expired"}]
  BY DEF CommitLogout, TypeInv, TypeOK
<1>8. /\ cookie' \in {0} \cup DOMAIN tokens'
      /\ ttl' \in -1..Window /\ checked' \in Nat /\ stuck' \in BOOLEAN
  BY <1>1, <1>4 DEF TypeInv, TypeOK
<1> QED
  BY <1>1, <1>3, <1>4, <1>5, <1>6, <1>7, <1>8, IdleIs, ContinueKeeps

\* No request steps: a tab forgets its access token, or it expires.
LEMMA AccessKeeps ==
  ASSUME TypeInv, NEW b \in Tabs,
         LogoutOfNothing(b) \/ AccessRefused(b) \/ AccessExpires(b)
  PROVE  TypeInv' /\ Kept
<1>1. UNCHANGED <<active, tokens, cookie, request, attempts, ttl, checked, stuck, overlaps>>
  BY DEF LogoutOfNothing, AccessRefused, AccessExpires, limit, history
<1>2. Kept /\ tokens' \in Seq(TokenRows) /\ TokenInv'
  BY <1>1, SameTokens
<1>3. access' \in [Tabs -> {"none", "valid", "expired"}]
  BY DEF LogoutOfNothing, AccessRefused, AccessExpires, TypeInv, TypeOK
<1>4. loggedOut' \in BOOLEAN
  BY DEF LogoutOfNothing, AccessRefused, AccessExpires, history, OthersIdle, TypeInv, TypeOK
<1>5. /\ request' \in [Tabs -> Requests]
      /\ \A o \in Tabs : request'[o].op \in {"refresh", "logout", "reply"} =>
           request'[o].token \in DOMAIN tokens'
  BY <1>1 DEF TypeInv, RequestInv
<1> QED
  BY <1>1, <1>2, <1>3, <1>4, <1>5, TypeAgain DEF TypeInv, TypeOK

LEMMA TokenExpiresIs ==
  ASSUME TypeInv, NEW t \in DOMAIN tokens, TokenExpires(t)
  PROVE  /\ tokens' \in Seq(TokenRows) /\ Len(tokens') = Len(tokens)
         /\ DOMAIN tokens' = DOMAIN tokens
         /\ \A u \in DOMAIN tokens :
              /\ tokens'[u].login = tokens[u].login /\ tokens'[u].revoked = tokens[u].revoked
              /\ tokens[u].expired => tokens'[u].expired
<1> DEFINE row == [tokens[t] EXCEPT !.expired = TRUE]
<1>0. tokens \in Seq(TokenRows)
  BY DEF TypeInv, TypeOK, TokenRows
<1>1. tokens \in Seq(TokenRows) /\ tokens[t] \in TokenRows
  BY <1>0
<1>2. /\ row \in TokenRows /\ row.expired = TRUE /\ row.login = tokens[t].login
      /\ row.revoked = tokens[t].revoked
  BY <1>1 DEF TokenRows
<1>3. tokens' = [tokens EXCEPT ![t] = row]
  BY DEF TokenExpires
<1> HIDE DEF row
<1> QED
  BY <1>1, <1>2, <1>3, Marked

LEMMA TokenExpiresKeeps ==
  ASSUME TypeInv, NEW t \in DOMAIN tokens, TokenExpires(t)
  PROVE  TypeInv' /\ Kept
<1>1. /\ tokens' \in Seq(TokenRows) /\ Len(tokens') = Len(tokens)
      /\ DOMAIN tokens' = DOMAIN tokens
      /\ \A u \in DOMAIN tokens :
           /\ tokens'[u].login = tokens[u].login /\ tokens'[u].revoked = tokens[u].revoked
           /\ tokens[u].expired => tokens'[u].expired
  BY TokenExpiresIs
<1>2. /\ UNCHANGED <<active, cookie, access, request, attempts, ttl, checked, stuck>>
      /\ UNCHANGED <<overlaps, loggedOut>>
  BY DEF TokenExpires, limit, history
<1>3. Kept /\ TokenInv'
  BY <1>1 DEF Kept, TypeInv, TokenInv
<1>4. /\ request' \in [Tabs -> Requests]
      /\ \A o \in Tabs : request'[o].op \in {"refresh", "logout", "reply"} =>
           request'[o].token \in DOMAIN tokens'
  BY <1>1, <1>2 DEF TypeInv, RequestInv
<1> QED
  BY <1>1, <1>2, <1>3, <1>4, TypeAgain DEF TypeInv, TypeOK
-----------------------------------------------------------------------------
LEMMA InitType == PositiveLimits /\ Init => TypeInv
<1> SUFFICES ASSUME PositiveLimits, Init PROVE TypeInv
  OBVIOUS
<1>1. /\ tokens = <<>> /\ Len(tokens) = 0 /\ DOMAIN tokens = {}
      /\ \A b \in Tabs : request[b] = Idle
  BY DEF Init
<1>2. TypeOK
  <2>1. /\ attempts = 0 /\ ttl = -1 /\ checked = 0 /\ cookie = 0
        /\ overlaps = [l \in Logins |-> 0] /\ access = [b \in Tabs |-> "none"]
        /\ active \in BOOLEAN
    BY DEF Init
  <2>2. loggedOut = FALSE /\ stuck = FALSE
    BY DEF Init
  <2>3. attempts \in 0..MaxCount /\ checked \in Nat /\ cookie \in {0} \cup DOMAIN tokens
    BY <2>1 DEF PositiveLimits
  <2>4. ttl \in -1..Window
    BY <2>1 DEF PositiveLimits
  <2>5. overlaps \in [Logins -> Nat] /\ access \in [Tabs -> {"none", "valid", "expired"}]
    BY <2>1
  <2>6. loggedOut \in BOOLEAN /\ stuck \in BOOLEAN
    BY <2>2
  <2>7. tokens \in Seq([login : Logins, revoked : BOOLEAN, expired : BOOLEAN])
    BY <1>1
  <2>8. \A b \in Tabs :
          request[b].op \in {"idle", "counted", "limited", "refresh", "logout", "reply"}
    BY <1>1, IdleIs
  <2> QED
    BY <2>1, <2>3, <2>4, <2>5, <2>6, <2>7, <2>8 DEF TypeOK
<1>3. RequestInv
  BY <1>1, IdleIs DEF Init, RequestInv
<1>4. TokenInv
  BY <1>1 DEF TokenInv, PositiveLimits
<1> QED
  BY <1>2, <1>3, <1>4 DEF TypeInv

LEMMA NextKeeps == PositiveLimits /\ TypeInv /\ [Next]_vars => TypeInv' /\ Kept
<1> SUFFICES ASSUME PositiveLimits, TypeInv, [Next]_vars PROVE TypeInv' /\ Kept
  OBVIOUS
<1>1. ASSUME NEW b \in Tabs, BeginRefresh(b) \/ BeginLogout(b)
      PROVE  TypeInv' /\ Kept
  <2>1. cookie # 0 /\ (Hold(b, "refresh") \/ Hold(b, "logout"))
    BY <1>1 DEF BeginRefresh, BeginLogout, Usable, Live
  <2>2. UNCHANGED <<active, tokens, cookie, access, ttl, checked, stuck, attempts, loggedOut>>
    BY <1>1 DEF BeginRefresh, BeginLogout, limit
  <2> QED
    BY <2>1, <2>2, RefreshBeginKeeps
<1>2. ASSUME NEW b \in Tabs,
             \/ BeginLogin(b) \/ SetExpiry(b) \/ RedisFails(b) \/ Login(b)
             \/ CommitRefresh(b) \/ Reply(b) \/ ReplyLost(b)
             \/ CommitLogout(b) \/ LogoutOfNothing(b)
             \/ AccessRefused(b) \/ AccessExpires(b)
      PROVE  TypeInv' /\ Kept
  BY <1>2, LoginBeginKeeps, ExpiryKeeps, RedisFailsKeeps, LoginKeeps, RefreshCommitKeeps,
     ReplyKeeps, LogoutCommitKeeps, AccessKeeps
<1>3. CASE Tick
  BY <1>3, TickKeeps
<1>4. CASE \E t \in DOMAIN tokens : TokenExpires(t)
  BY <1>4, TokenExpiresKeeps
<1>5. CASE UNCHANGED vars
  <2>1. Kept /\ tokens' \in Seq(TokenRows) /\ TokenInv'
    BY <1>5, SameTokens DEF vars
  <2> QED
    BY <1>5, <2>1 DEF vars, limit, history, TypeInv, TypeOK, RequestInv
<1> QED
  BY <1>1, <1>2, <1>3, <1>4, <1>5 DEF Next

LEMMA AlwaysTyped == ASSUME PositiveLimits PROVE Spec => []TypeInv
<1>1. Init => TypeInv
  BY InitType
<1>2. TypeInv /\ [Next]_vars => TypeInv'
  BY NextKeeps
<1> QED
  BY <1>1, <1>2, PTL DEF Spec

(* Tokens, cookie, counters and requests keep their types, whatever requests *)
(* of however many tabs overlap: a request holds a token that exists, and    *)
(* the cookie names one or none.                                             *)
THEOREM TypeCorrect == ASSUME PositiveLimits PROVE Spec => []TypeOK
<1>1. TypeInv => TypeOK
  BY DEF TypeInv
<1> QED
  BY <1>1, AlwaysTyped, PTL

(* A refresh token that was revoked or has expired is never usable again,    *)
(* and it stays with the login it was issued for.                            *)
THEOREM RevokedStaysRevoked == ASSUME PositiveLimits PROVE Spec => [][Kept]_vars
<1>1. TypeInv /\ [Next]_vars => Kept
  BY NextKeeps
<1> QED
  BY <1>1, AlwaysTyped, PTL DEF Spec
-----------------------------------------------------------------------------
(* The counter of the logins and what may still check a password.            *)

\* A step of requests that no counter counts.
LEMMA Uncounted ==
  ASSUME TypeInv, WindowInv, KeyInv, UNCHANGED limit,
         \A b \in Tabs :
           \/ request'[b] = request[b]
           \/ /\ request[b].op \notin {"counted", "limited"}
              /\ request'[b].op \notin {"counted", "limited"}
  PROVE  WindowInv' /\ KeyInv'
<1>1. \A b \in Tabs : (First(b))' <=> First(b)
  BY DEF First
<1>2. Open' = Open
  BY DEF Open, Counting, WithinLimit
<1>3. WindowInv'
  BY <1>2 DEF WindowInv, limit
<1>4. KeyInv'
  BY <1>1 DEF KeyInv, limit
<1> QED
  BY <1>3, <1>4

\* The tabs that may still check a password, one fewer.
LEMMA OneLess ==
  ASSUME NEW b \in Tabs, IsFiniteSet(Open), Open' = Open \ {b}
  PROVE  /\ IsFiniteSet(Open') /\ Cardinality(Open) \in Nat /\ Cardinality(Open') \in Nat
         /\ b \in Open => Cardinality(Open') = Cardinality(Open) - 1
         /\ b \notin Open => Cardinality(Open') = Cardinality(Open)
  BY FS_RemoveElement, FS_CardinalityType

LEMMA LoginBeginCounts ==
  ASSUME PositiveLimits, TypeInv, WindowInv, KeyInv, NEW b \in Tabs, BeginLogin(b)
  PROVE  WindowInv' /\ KeyInv'
<1> DEFINE n == IF attempts < MaxCount THEN attempts + 1 ELSE attempts
           q == [op |-> "counted", n |-> n, late |-> FALSE]
<1>1. /\ attempts \in 0..MaxCount /\ LoginLimit \in Nat \ {0} /\ MaxCount \in Nat
      /\ MaxCount > LoginLimit + 1 /\ checked \in Nat
  BY DEF PositiveLimits, TypeInv, TypeOK
<1>2. /\ attempts' = n /\ Begin(b, q) /\ request[b] = Idle
      /\ UNCHANGED <<ttl, checked, stuck>>
  BY DEF BeginLogin
<1>3. n \in 1..MaxCount /\ attempts <= n
  BY <1>1
<1>4. q \in Requests /\ q.op = "counted" /\ q.n = n /\ ~q.late
  BY <1>3 DEF Requests, Counted
<1> HIDE DEF q
<1>5. /\ request'[b] = q
      /\ \A o \in Tabs \ {b} :
           /\ request'[o].op = request[o].op
           /\ request[o].op # "logout" => request'[o] = request[o]
  BY <1>2, <1>4, BeginIs DEF TypeInv
<1>6. ~Counting(b) /\ ~First(b)
  BY <1>2, IdleIs DEF Counting, First
<1>7. /\ IsFiniteSet(Open) /\ Cardinality(Open) \in Nat
      /\ checked + Cardinality(Open) <= attempts
      /\ checked + Cardinality(Open) <= LoginLimit
  BY FS_CardinalityType DEF WindowInv
<1>8. Open' = IF n <= LoginLimit THEN Open \cup {b} ELSE Open
  <2>1. \A o \in Tabs \ {b} : o \in Open' <=> o \in Open
    BY <1>5 DEF Open, Counting, WithinLimit
  <2>2. b \in Open' <=> n <= LoginLimit
    BY <1>4, <1>5 DEF Open, Counting, WithinLimit
  <2>3. b \notin Open /\ Open \subseteq Tabs /\ Open' \subseteq Tabs
    BY <1>6 DEF Open
  <2> QED
    BY <2>1, <2>2, <2>3
<1>9. WindowInv'
  <2>1. CASE n <= LoginLimit
    <3>0. b \notin Open /\ Open' = Open \cup {b}
      BY <1>6, <1>8, <2>1 DEF Open
    <3>1. IsFiniteSet(Open') /\ Cardinality(Open') = Cardinality(Open) + 1
      BY <1>7, <3>0, FS_AddElement
    <3>2. n = attempts + 1
      BY <1>1, <2>1
    <3> QED
      BY <1>1, <1>2, <1>7, <2>1, <3>1, <3>2 DEF WindowInv
  <2>2. CASE ~(n <= LoginLimit)
    <3>1. Open' = Open
      BY <1>8, <2>2
    <3> QED
      BY <1>1, <1>2, <1>3, <1>7, <3>1 DEF WindowInv
  <2> QED
    BY <2>1, <2>2
<1>10. KeyInv'
  <2>1. \A o \in Tabs \ {b} : (First(o))' <=> First(o)
    BY <1>5 DEF First
  <2>2. (First(b))' <=> attempts = 0
    BY <1>1, <1>4, <1>5 DEF First
  <2>3. attempts' > 0
    BY <1>1, <1>2, <1>3
  <2>4. /\ attempts = 0 => ttl = -1 /\ \A o \in Tabs : ~First(o)
        /\ ttl # 0
        /\ \A o \in Tabs : First(o) => ttl = -1 /\ attempts > 0 /\ \A p \in Tabs : First(p) => p = o
        /\ attempts > 0 /\ ttl = -1 => stuck \/ \E o \in Tabs \ {b} : First(o)
    BY <1>1, <1>6 DEF KeyInv
  <2>5. ASSUME NEW o \in Tabs, (First(o))'
        PROVE  ttl' = -1 /\ \A p \in Tabs : (First(p))' => p = o
    BY <1>1, <1>2, <2>1, <2>2, <2>4, <2>5
  <2>6. attempts' > 0 /\ ttl' = -1 => stuck' \/ \E o \in Tabs : (First(o))'
    BY <1>1, <1>2, <2>1, <2>2, <2>4
  <2>7. ttl' # 0 /\ (attempts' = 0 => ttl' = -1)
    BY <1>2, <2>3, <2>4
  <2> QED
    BY <2>3, <2>5, <2>6, <2>7 DEF KeyInv
<1> QED
  BY <1>9, <1>10

\* The login that made the key gives it its time to live; no other does.
LEMMA ExpiryCounts ==
  ASSUME PositiveLimits, TypeInv, WindowInv, KeyInv, NEW b \in Tabs, SetExpiry(b)
  PROVE  WindowInv' /\ KeyInv'
<1> DEFINE q == [request[b] EXCEPT !.op = "limited"]
<1>1. /\ request[b].op = "counted" /\ Continue(b, q)
      /\ ttl' = IF request[b].n = 1 THEN Window ELSE ttl
      /\ UNCHANGED <<attempts, checked, stuck>>
  BY DEF SetExpiry
<1>2. request[b] \in Counted
  BY <1>1, RequestKinds DEF TypeInv, RequestInv
<1>3. q \in Counted /\ q.op = "limited" /\ q.n = request[b].n /\ q.late = request[b].late
  BY <1>2 DEF Counted
<1>4. q \in Requests
  BY <1>3 DEF Requests
<1> HIDE DEF q
<1>5. request'[b] = q /\ \A o \in Tabs \ {b} : request'[o] = request[o]
  BY <1>1, <1>4, ContinueIs DEF TypeInv
<1>6. Open' = Open
  BY <1>1, <1>3, <1>5 DEF Open, Counting, WithinLimit
<1>7. WindowInv'
  BY <1>1, <1>6 DEF WindowInv
<1>8. ~(First(b))' /\ \A o \in Tabs \ {b} : (First(o))' <=> First(o)
  BY <1>3, <1>5 DEF First
<1>9. First(b) <=> request[b].n = 1
  BY <1>1 DEF First
<1>10. Window > 0 /\ Window \in Nat
  BY DEF PositiveLimits
<1>11. KeyInv'
  <2>1. CASE First(b)
    <3>1. ttl' = Window /\ attempts' > 0 /\ \A o \in Tabs : ~(First(o))'
      BY <1>1, <1>8, <1>9, <2>1 DEF KeyInv
    <3> QED
      BY <1>10, <3>1 DEF KeyInv
  <2>2. CASE ~First(b)
    <3>1. ttl' = ttl /\ \A o \in Tabs : (First(o))' <=> First(o)
      BY <1>1, <1>8, <1>9, <2>2
    <3> QED
      BY <1>1, <3>1 DEF KeyInv
  <2> QED
    BY <2>1, <2>2
<1> QED
  BY <1>7, <1>11

LEMMA RedisFailsCounts ==
  ASSUME PositiveLimits, TypeInv, WindowInv, KeyInv, NEW b \in Tabs, RedisFails(b)
  PROVE  WindowInv' /\ KeyInv'
<1>1. /\ request[b].op = "counted" /\ Continue(b, Idle) /\ stuck'
      /\ UNCHANGED <<attempts, ttl, checked>>
  BY DEF RedisFails
<1>2. request'[b] = Idle /\ \A o \in Tabs \ {b} : request'[o] = request[o]
  BY <1>1, IdleIs, ContinueIs DEF TypeInv
<1>3. Open' = Open \ {b}
  BY <1>2, IdleIs DEF Open, Counting, WithinLimit
<1>4. IsFiniteSet(Open') /\ Cardinality(Open) \in Nat /\ Cardinality(Open') \in Nat
      /\ Cardinality(Open') <= Cardinality(Open)
  BY <1>3, OneLess DEF WindowInv
<1>5. checked \in Nat /\ attempts \in Nat /\ LoginLimit \in Nat
  BY DEF TypeInv, TypeOK, PositiveLimits
<1>6. WindowInv'
  BY <1>1, <1>4, <1>5 DEF WindowInv
<1>7. ~(First(b))' /\ \A o \in Tabs \ {b} : (First(o))' <=> First(o)
  BY <1>2, IdleIs DEF First
<1>8. KeyInv'
  BY <1>1, <1>7 DEF KeyInv
<1> QED
  BY <1>6, <1>8

\* A login that this window counts takes the place it kept in Open.
LEMMA LoginCounts ==
  ASSUME PositiveLimits, TypeInv, WindowInv, KeyInv, NEW b \in Tabs, Login(b)
  PROVE  WindowInv' /\ KeyInv'
<1>1. /\ request[b].op = "limited" /\ UNCHANGED <<attempts, ttl, stuck>>
      /\ checked' = IF WithinLimit(b) /\ ~request[b].late THEN checked + 1 ELSE checked
  BY DEF Login
<1>2. PICK q \in {Idle, [op |-> "reply", token |-> Len(tokens) + 1]} : Continue(b, q)
  BY DEF Login
<1>3. q \in Requests /\ q.op \notin {"counted", "limited"}
  <2>1. tokens \in Seq(TokenRows)
    BY DEF TypeInv, TypeOK, TokenRows
  <2>2. Len(tokens) + 1 \in Nat \ {0}
    BY <2>1
  <2> QED
    BY <1>2, <2>2, IdleIs DEF Requests, Replies
<1>4. request'[b] = q /\ \A o \in Tabs \ {b} : request'[o] = request[o]
  BY <1>2, <1>3, ContinueIs DEF TypeInv
<1>5. Open' = Open \ {b}
  BY <1>3, <1>4 DEF Open, Counting, WithinLimit
<1>6. /\ IsFiniteSet(Open') /\ Cardinality(Open) \in Nat /\ Cardinality(Open') \in Nat
      /\ b \in Open => Cardinality(Open') = Cardinality(Open) - 1
      /\ b \notin Open => Cardinality(Open') = Cardinality(Open)
  BY <1>5, OneLess DEF WindowInv
<1>7. b \in Open <=> WithinLimit(b) /\ ~request[b].late
  BY <1>1 DEF Open, Counting
<1>8. checked \in Nat /\ attempts \in Nat /\ LoginLimit \in Nat
  BY DEF TypeInv, TypeOK, PositiveLimits
<1>9. WindowInv'
  <2>1. CASE b \in Open
    <3>1. checked' + Cardinality(Open') = checked + Cardinality(Open)
      BY <1>1, <1>6, <1>7, <1>8, <2>1
    <3> QED
      BY <1>1, <1>6, <3>1 DEF WindowInv
  <2>2. CASE b \notin Open
    <3>1. checked' = checked /\ Cardinality(Open') = Cardinality(Open)
      BY <1>1, <1>6, <1>7, <2>2
    <3> QED
      BY <1>1, <1>6, <3>1 DEF WindowInv
  <2> QED
    BY <2>1, <2>2
<1>10. \A o \in Tabs : (First(o))' <=> First(o)
  BY <1>1, <1>3, <1>4 DEF First
<1>11. KeyInv'
  BY <1>1, <1>10 DEF KeyInv
<1> QED
  BY <1>9, <1>11

LEMMA TickCounts ==
  ASSUME PositiveLimits, TypeInv, WindowInv, KeyInv, Tick
  PROVE  WindowInv' /\ KeyInv'
<1>1. ttl > 0 /\ ttl \in Int /\ UNCHANGED stuck
  BY DEF Tick, TypeInv, TypeOK
<1>2. \A b \in Tabs : ~First(b)
  BY <1>1 DEF KeyInv
<1>3. CASE ttl = 1
  <2>1. /\ attempts' = 0 /\ ttl' = -1 /\ checked' = 0
        /\ \A b \in Tabs : request'[b] =
             IF Counting(b) THEN [request[b] EXCEPT !.late = TRUE] ELSE request[b]
    BY <1>3 DEF Tick
  <2>2. ASSUME NEW b \in Tabs, Counting(b)
        PROVE  /\ request'[b].op = request[b].op /\ request'[b].n = request[b].n
               /\ request'[b].late
    <3>1. request[b] \in Counted
      BY <2>2, RequestKinds DEF Counting, TypeInv, RequestInv
    <3> QED
      BY <2>1, <2>2, <3>1 DEF Counted
  <2>3. \A b \in Tabs : ~Counting(b) => request'[b] = request[b]
    BY <2>1
  <2>4. Open' = {}
    BY <2>2, <2>3 DEF Open, Counting
  <2>5. \A b \in Tabs : ~(First(b))'
    BY <1>2, <2>2, <2>3 DEF First, Counting
  <2>6. IsFiniteSet(Open') /\ Cardinality(Open') = 0
    BY <2>4, FS_EmptySet
  <2>7. WindowInv'
    BY <2>1, <2>6 DEF WindowInv, PositiveLimits
  <2>8. KeyInv'
    BY <2>1, <2>5 DEF KeyInv
  <2> QED
    BY <2>7, <2>8
<1>4. CASE ttl # 1
  <2>1. ttl' = ttl - 1 /\ UNCHANGED <<attempts, checked, request>>
    BY <1>4 DEF Tick
  <2>2. Open' = Open /\ \A b \in Tabs : ~(First(b))'
    BY <1>2, <2>1 DEF Open, Counting, WithinLimit, First
  <2>3. WindowInv'
    BY <2>1, <2>2 DEF WindowInv
  <2>4. attempts' # 0 /\ ttl' > 0
    BY <1>1, <1>4, <2>1 DEF KeyInv
  <2>5. KeyInv'
    BY <2>2, <2>4 DEF KeyInv
  <2> QED
    BY <2>3, <2>5
<1> QED
  BY <1>3, <1>4
\* What a request holds of no login's counter: begun, gone on, or ended.
LEMMA OthersCount ==
  ASSUME PositiveLimits, TypeInv, WindowInv, KeyInv,
         \/ \E b \in Tabs :
              \/ BeginRefresh(b) \/ CommitRefresh(b) \/ Reply(b) \/ ReplyLost(b)
              \/ BeginLogout(b) \/ CommitLogout(b) \/ LogoutOfNothing(b)
              \/ AccessRefused(b) \/ AccessExpires(b)
         \/ \E t \in DOMAIN tokens : TokenExpires(t)
         \/ UNCHANGED vars
  PROVE  WindowInv' /\ KeyInv'
<1>1. UNCHANGED limit
  BY DEF BeginRefresh, CommitRefresh, Reply, ReplyLost, BeginLogout, CommitLogout,
     LogoutOfNothing, AccessRefused, AccessExpires, TokenExpires, vars
<1>2. ASSUME NEW b \in Tabs, BeginRefresh(b) \/ BeginLogout(b)
      PROVE  WindowInv' /\ KeyInv'
  <2>1. PICK op \in {"refresh", "logout"} : Hold(b, op)
    BY <1>2 DEF BeginRefresh, BeginLogout
  <2> DEFINE q == [op |-> op, token |-> cookie, alone |-> OthersIdle(b)]
  <2>2. cookie # 0 /\ request[b] = Idle /\ Begin(b, q)
    BY <1>2, <2>1 DEF BeginRefresh, BeginLogout, Usable, Live, Hold
  <2>3. q \in Requests /\ q.op = op
    <3>1. cookie \in DOMAIN tokens /\ tokens \in Seq(TokenRows) /\ OthersIdle(b) \in BOOLEAN
      BY <2>2 DEF TypeInv, TypeOK, TokenRows, OthersIdle
    <3> QED
      BY <3>1 DEF Requests, Holders
  <2> HIDE DEF q
  <2>4. /\ request'[b] = q
        /\ \A o \in Tabs \ {b} :
             /\ request'[o].op = request[o].op
             /\ request[o].op # "logout" => request'[o] = request[o]
    BY <2>2, <2>3, BeginIs DEF TypeInv
  <2>5. \A o \in Tabs :
           \/ request'[o] = request[o]
           \/ /\ request[o].op \notin {"counted", "limited"}
              /\ request'[o].op \notin {"counted", "limited"}
    BY <2>2, <2>3, <2>4, IdleIs
  <2> QED
    BY <1>1, <2>5, Uncounted
<1>3. ASSUME NEW b \in Tabs,
             CommitRefresh(b) \/ Reply(b) \/ ReplyLost(b) \/ CommitLogout(b)
      PROVE  WindowInv' /\ KeyInv'
  <2>1. PICK q \in {Idle, [op |-> "reply", token |-> Len(tokens) + 1]} : Continue(b, q)
    BY <1>3 DEF CommitRefresh, Reply, ReplyLost, CommitLogout
  <2>2. request[b].op \notin {"counted", "limited"} /\ q.op \notin {"counted", "limited"}
    BY <1>3, <2>1, IdleIs DEF CommitRefresh, Reply, ReplyLost, CommitLogout
  <2>3. request' = [request EXCEPT ![b] = q]
    BY <2>1 DEF Continue
  <2>4. \A o \in Tabs :
           \/ request'[o] = request[o]
           \/ /\ request[o].op \notin {"counted", "limited"}
              /\ request'[o].op \notin {"counted", "limited"}
    BY <2>2, <2>3 DEF TypeInv, RequestInv
  <2> QED
    BY <1>1, <2>4, Uncounted
<1>4. CASE UNCHANGED request
  BY <1>1, <1>4, Uncounted
<1> QED
  BY <1>2, <1>3, <1>4 DEF LogoutOfNothing, AccessRefused, AccessExpires, TokenExpires, vars

LEMMA NextCounts ==
  ASSUME PositiveLimits, TypeInv, WindowInv, KeyInv, [Next]_vars
  PROVE  WindowInv' /\ KeyInv'
BY LoginBeginCounts, ExpiryCounts, RedisFailsCounts, LoginCounts, TickCounts, OthersCount
   DEF Next

LEMMA AlwaysCounted ==
  ASSUME PositiveLimits PROVE Spec => [](TypeInv /\ WindowInv /\ KeyInv)
<1>1. Init => TypeInv /\ WindowInv /\ KeyInv
  <2> SUFFICES ASSUME Init PROVE TypeInv /\ WindowInv /\ KeyInv
    OBVIOUS
  <2>1. \A b \in Tabs : ~Counting(b) /\ ~First(b)
    BY IdleIs DEF Init, Counting, First
  <2>2. Open = {}
    BY <2>1 DEF Open
  <2>3. IsFiniteSet(Open) /\ Cardinality(Open) = 0
    BY <2>2, FS_EmptySet
  <2>4. checked = 0 /\ attempts = 0 /\ ttl = -1
    BY DEF Init
  <2>5. WindowInv
    BY <2>3, <2>4 DEF WindowInv, PositiveLimits
  <2>6. KeyInv
    BY <2>1, <2>4 DEF KeyInv
  <2> QED
    BY <2>5, <2>6, InitType
<1>2. TypeInv /\ WindowInv /\ KeyInv /\ [Next]_vars => (TypeInv /\ WindowInv /\ KeyInv)'
  BY NextKeeps, NextCounts
<1> QED
  BY <1>1, <1>2, PTL DEF Spec

(* However many logins of one address are in flight, in whatever order their *)
(* INCR, EXPIRE and password checks come and wherever Redis deletes the key  *)
(* between them, a window checks no more passwords than the limit.           *)
THEOREM LimitHolds == ASSUME PositiveLimits PROVE Spec => []WindowLimit
<1>1. TypeInv /\ WindowInv => WindowLimit
  BY FS_CardinalityType DEF TypeInv, TypeOK, PositiveLimits, WindowInv, WindowLimit
<1> QED
  BY <1>1, AlwaysCounted, PTL

\* Only the login that made the key sets its time to live.
LEMMA TtlFalls ==
  ASSUME PositiveLimits, TypeInv, KeyInv, [Next]_vars, ttl > 0
  PROVE  ttl' = -1 \/ ttl' <= ttl
<1>1. ttl \in Int
  BY DEF TypeInv, TypeOK
<1>2. CASE Tick
  BY <1>1, <1>2 DEF Tick
<1>3. ASSUME NEW b \in Tabs, SetExpiry(b)
      PROVE  ttl' = ttl
  BY <1>3 DEF KeyInv, First, SetExpiry
<1>4. CASE UNCHANGED ttl
  BY <1>1, <1>4
<1> QED
  BY <1>1, <1>2, <1>3, <1>4
     DEF Next, BeginLogin, RedisFails, Login, BeginRefresh, CommitRefresh, Reply, ReplyLost,
         BeginLogout, CommitLogout, LogoutOfNothing, AccessRefused, AccessExpires,
         TokenExpires, limit, vars

(* A counter of failed logins runs down: it has a time to live that later    *)
(* attempts do not prolong, or the login that made it is about to set it;    *)
(* the one exception is a login that fails between INCR and EXPIRE.          *)
THEOREM LockoutsRunDown == ASSUME PositiveLimits PROVE Spec => [][LockoutRunsDown]_vars
<1>1. ASSUME TypeInv, WindowInv, KeyInv, [Next]_vars
      PROVE  LockoutRunsDown
  <2>1. TypeInv' /\ KeyInv'
    BY <1>1, NextKeeps, NextCounts
  <2>2. CASE attempts' > 0 /\ ttl' = -1
    BY <2>1, <2>2 DEF KeyInv, First, LockoutRunsDown
  <2>3. CASE attempts' > 0 /\ ttl' # -1
    <3>1. ttl' > 0
      BY <2>1, <2>3 DEF KeyInv, TypeInv, TypeOK, PositiveLimits
    <3>2. ttl > 0 => ttl' <= ttl
      BY <1>1, <2>3, TtlFalls
    <3> QED
      BY <3>1, <3>2 DEF LockoutRunsDown
  <2> QED
    BY <2>2, <2>3 DEF LockoutRunsDown
<1>2. TypeInv /\ WindowInv /\ KeyInv /\ [Next]_vars => LockoutRunsDown
  BY <1>1
<1> QED
  BY <1>2, AlwaysCounted, PTL DEF Spec
-----------------------------------------------------------------------------
(* Rotation.                                                                 *)

LEMMA FiniteSpare ==
  ASSUME TypeInv, NEW l \in Logins
  PROVE  IsFiniteSet(Spare(l)) /\ Cardinality(Spare(l)) \in Nat
<1>1. Len(tokens) \in Nat /\ DOMAIN tokens = 1..Len(tokens)
  BY DEF TypeInv, TypeOK
<1>2. IsFiniteSet(DOMAIN tokens)
  BY <1>1, FS_Interval
<1>3. Spare(l) \subseteq DOMAIN tokens
  BY DEF Spare
<1> QED
  BY <1>2, <1>3, FS_Subset, FS_CardinalityType

\* The refreshes in progress stay what they are, and no token is issued.
LEMMA NoneRotates ==
  ASSUME TypeInv, TypeInv', RotationInv,
         \A l \in Logins : overlaps[l] <= overlaps'[l],
         DOMAIN tokens' = DOMAIN tokens,
         \A t \in DOMAIN tokens :
           tokens'[t].login = tokens[t].login /\ (tokens[t].revoked => tokens'[t].revoked),
         \A b \in Tabs :
           /\ request'[b].op = "refresh" <=> request[b].op = "refresh"
           /\ request[b].op = "refresh" => request'[b].token = request[b].token
  PROVE  RotationInv'
<1> SUFFICES ASSUME NEW l \in Logins
             PROVE  /\ IsFiniteSet(Pending(l)')
                    /\ Cardinality(Spare(l)') + Cardinality(Pending(l)') <= 1 + overlaps'[l]
  BY DEF RotationInv
<1>1. Pending(l)' = Pending(l)
  BY DEF Pending, TypeInv, RequestInv
<1>2. Held(l)' = Held(l)
  <2>1. \A b \in Pending(l) : request'[b].token = request[b].token
    BY DEF Pending
  <2> QED
    BY <1>1, <2>1 DEF Held
<1>3. Spare(l)' \subseteq Spare(l)
  BY <1>2 DEF Spare, Live
<1>4. /\ IsFiniteSet(Spare(l)) /\ Cardinality(Spare(l)) \in Nat
      /\ Cardinality(Spare(l)') \in Nat /\ Cardinality(Spare(l)') <= Cardinality(Spare(l))
  BY <1>3, FiniteSpare, FS_Subset, FS_CardinalityType
<1>5. /\ IsFiniteSet(Pending(l)) /\ Cardinality(Pending(l)) \in Nat
      /\ Cardinality(Spare(l)) + Cardinality(Pending(l)) <= 1 + overlaps[l]
  BY FS_CardinalityType DEF RotationInv
<1>6. overlaps[l] \in Nat /\ overlaps'[l] \in Nat
  BY DEF TypeInv, TypeOK
<1> QED
  BY <1>1, <1>4, <1>5, <1>6

\* A refresh begins: it holds a token that was spare, or overlaps.
LEMMA RefreshBeginRotates ==
  ASSUME TypeInv, TypeInv', RotationInv, NEW b \in Tabs, BeginRefresh(b)
  PROVE  RotationInv'
<1>0. PICK m, k : m = tokens[cookie].login /\ k = (IF Holding(b, cookie) THEN 1 ELSE 0)
  OBVIOUS
<1> DEFINE q == [op |-> "refresh", token |-> cookie, alone |-> OthersIdle(b)]
<1>1. /\ request[b] = Idle /\ Begin(b, q) /\ UNCHANGED tokens
      /\ cookie # 0 /\ ~tokens[cookie].revoked
      /\ overlaps' = [overlaps EXCEPT ![m] = overlaps[m] + k]
  BY <1>0 DEF BeginRefresh, Usable, Live, Hold
<1>2. cookie \in DOMAIN tokens /\ cookie \in Nat \ {0} /\ m \in Logins
  <2>1. tokens \in Seq(TokenRows) /\ cookie \in DOMAIN tokens
    BY <1>1 DEF TypeInv, TypeOK, TokenRows
  <2>2. tokens[cookie] \in TokenRows /\ cookie \in Nat \ {0}
    BY <2>1
  <2> QED
    BY <1>0, <2>1, <2>2 DEF TokenRows
<1>3. q \in Requests /\ q.op = "refresh" /\ q.token = cookie
  <2>1. OthersIdle(b) \in BOOLEAN
    BY DEF OthersIdle
  <2> QED
    BY <1>2, <2>1 DEF Requests, Holders
<1> HIDE DEF q
<1>4. /\ request'[b] = q
      /\ \A o \in Tabs \ {b} :
           /\ request'[o].op = request[o].op
           /\ request[o].op # "logout" => request'[o] = request[o]
  BY <1>1, <1>3, BeginIs DEF TypeInv
<1>5. request[b].op # "refresh"
  BY <1>1, IdleIs
<1>6. overlaps \in [Logins -> Nat] /\ k \in Nat
  BY <1>0 DEF TypeInv, TypeOK
<1> SUFFICES ASSUME NEW l \in Logins
             PROVE  /\ IsFiniteSet(Pending(l)')
                    /\ Cardinality(Spare(l)') + Cardinality(Pending(l)') <= 1 + overlaps'[l]
  BY DEF RotationInv
<1>7. /\ IsFiniteSet(Pending(l)) /\ Cardinality(Pending(l)) \in Nat
      /\ Cardinality(Spare(l)) + Cardinality(Pending(l)) <= 1 + overlaps[l]
      /\ IsFiniteSet(Spare(l)) /\ Cardinality(Spare(l)) \in Nat
  BY FiniteSpare, FS_CardinalityType DEF RotationInv
<1>8. CASE l # m
  <2>1. Pending(l)' = Pending(l)
    BY <1>0, <1>1, <1>3, <1>4, <1>5, <1>8 DEF Pending
  <2>2. \A o \in Pending(l) : request'[o].token = request[o].token
    BY <1>4, <1>5 DEF Pending
  <2>3. Held(l)' = Held(l)
    BY <2>1, <2>2 DEF Held
  <2>4. Spare(l)' = Spare(l)
    BY <1>1, <2>3 DEF Spare, Live
  <2>5. overlaps'[l] = overlaps[l]
    BY <1>1, <1>6, <1>8
  <2> QED
    BY <1>7, <2>1, <2>4, <2>5
<1>9. CASE l = m
  <2>1. Pending(l)' = Pending(l) \cup {b} /\ b \notin Pending(l)
    BY <1>0, <1>1, <1>3, <1>4, <1>5, <1>9 DEF Pending
  <2>2. \A o \in Pending(l) : request'[o].token = request[o].token
    BY <1>4, <1>5 DEF Pending
  <2>3. Held(l)' = Held(l) \cup {cookie}
    BY <1>3, <1>4, <2>1, <2>2 DEF Held
  <2>4. Spare(l)' = Spare(l) \ {cookie}
    BY <1>1, <2>3 DEF Spare, Live
  <2>5. IsFiniteSet(Pending(l)') /\ Cardinality(Pending(l)') = Cardinality(Pending(l)) + 1
    BY <1>7, <2>1, FS_AddElement
  <2>6. overlaps'[l] = overlaps[l] + k /\ overlaps[l] \in Nat
    BY <1>1, <1>2, <1>6, <1>9
  <2>7. CASE cookie \in Held(l)
    <3>1. PICK o \in Tabs : request[o].op = "refresh" /\ request[o].token = cookie
      BY <2>7 DEF Held, Pending
    <3>2. o # b
      BY <1>5, <3>1
    <3>3. k = 1
      BY <1>0, <3>1, <3>2 DEF Holding
    <3>4. Spare(l)' = Spare(l)
      BY <2>4, <2>7 DEF Spare
    <3> QED
      BY <1>7, <2>5, <2>6, <3>3, <3>4
  <2>8. CASE cookie \notin Held(l)
    <3>1. cookie \in Spare(l)
      BY <1>0, <1>1, <1>2, <1>9, <2>8 DEF Spare, Live
    <3>2. Cardinality(Spare(l)') = Cardinality(Spare(l)) - 1
      BY <1>7, <2>4, <3>1, FS_RemoveElement
    <3> QED
      BY <1>6, <1>7, <2>5, <2>6, <3>2
  <2> QED
    BY <2>7, <2>8
<1> QED
  BY <1>8, <1>9

\* A refresh commits: its successor is spare, its own token is revoked.
LEMMA RefreshCommitRotates ==
  ASSUME TypeInv, RotationInv, NEW b \in Tabs, CommitRefresh(b)
  PROVE  RotationInv'
<1> DEFINE n == Len(tokens) + 1
           q == [op |-> "reply", token |-> n]
<1>0. PICK t, m : t = request[b].token /\ m = tokens[t].login
  OBVIOUS
<1>1. /\ request[b].op = "refresh"
      /\ tokens' = Append(Revoked(t), NewToken(m))
      /\ Continue(b, q) /\ UNCHANGED overlaps
  BY <1>0 DEF CommitRefresh, Rotated, history
<1>2. t \in DOMAIN tokens /\ tokens \in Seq(TokenRows) /\ Len(tokens) \in Nat
      /\ DOMAIN tokens = 1..Len(tokens)
  BY <1>0, <1>1 DEF TypeInv, RequestInv, TypeOK, TokenRows
<1>3. tokens[t] \in TokenRows
  BY <1>2
<1>4. m \in Logins
  BY <1>0, <1>3 DEF TokenRows
<1>5. /\ Revoked(t) \in Seq(TokenRows) /\ Len(Revoked(t)) = Len(tokens)
      /\ DOMAIN Revoked(t) = DOMAIN tokens
      /\ \A u \in DOMAIN tokens : u # t => Revoked(t)[u] = tokens[u]
      /\ Revoked(t)[t].revoked /\ Revoked(t)[t].login = tokens[t].login
  BY <1>2, RevokedIs
<1>6. /\ DOMAIN tokens' = 1..n /\ tokens'[n] = NewToken(m)
      /\ \A u \in DOMAIN tokens : tokens'[u] = Revoked(t)[u]
  BY <1>1, <1>2, <1>4, <1>5, Grown
<1>7. NewToken(m).login = m /\ ~NewToken(m).revoked
  BY DEF NewToken
<1>8. q \in Requests /\ q.op = "reply" /\ n \in Nat
  BY <1>2 DEF Requests, Replies
<1>9. /\ DOMAIN tokens' = DOMAIN tokens \cup {n} /\ n \notin DOMAIN tokens /\ n # 0
      /\ tokens'[n].login = m /\ ~tokens'[n].revoked
      /\ tokens'[t].login = m /\ tokens'[t].revoked
      /\ \A u \in DOMAIN tokens : u # t => tokens'[u] = tokens[u]
  BY <1>0, <1>2, <1>5, <1>6, <1>7
<1> HIDE DEF n, q
<1>10. request'[b] = q /\ \A o \in Tabs \ {b} : request'[o] = request[o]
  BY <1>1, <1>8, ContinueIs DEF TypeInv
<1>11. \A o \in Tabs : request[o].op = "refresh" => request[o].token \in DOMAIN tokens
  BY DEF TypeInv, RequestInv
<1> SUFFICES ASSUME NEW l \in Logins
             PROVE  /\ IsFiniteSet(Pending(l)')
                    /\ Cardinality(Spare(l)') + Cardinality(Pending(l)') <= 1 + overlaps'[l]
  BY DEF RotationInv
<1>12. /\ IsFiniteSet(Pending(l)) /\ Cardinality(Pending(l)) \in Nat
       /\ Cardinality(Spare(l)) + Cardinality(Pending(l)) <= 1 + overlaps[l]
       /\ IsFiniteSet(Spare(l)) /\ Cardinality(Spare(l)) \in Nat
       /\ overlaps[l] \in Nat
  BY FiniteSpare, FS_CardinalityType DEF RotationInv, TypeInv, TypeOK
<1>13. Pending(l)' = Pending(l) \ {b}
  <2>1. \A o \in Tabs \ {b} : request[o].op = "refresh" =>
          tokens'[request[o].token].login = tokens[request[o].token].login
    BY <1>0, <1>9, <1>11
  <2> QED
    BY <1>8, <1>10, <2>1 DEF Pending
<1>14. b \in Pending(l) <=> l = m
  BY <1>0, <1>1 DEF Pending
<1>15. \A o \in Pending(l)' : request'[o].token = request[o].token
  <2>1. Pending(l) \subseteq Tabs
    BY DEF Pending
  <2> QED
    BY <1>10, <1>13, <2>1
<1>16. Held(l)' \subseteq Held(l) /\ Held(l) \subseteq Held(l)' \cup {t}
  <2>1. Held(l)' = {request[o].token : o \in Pending(l) \ {b}}
    BY <1>13, <1>15 DEF Held
  <2> QED
    BY <1>0, <2>1 DEF Held
<1>17. CASE l # m
  <2>1. Pending(l)' = Pending(l)
    BY <1>13, <1>14, <1>17
  <2>2. Spare(l)' = Spare(l)
    BY <1>0, <1>2, <1>9, <1>16, <1>17 DEF Spare, Live
  <2> QED
    BY <1>1, <1>12, <2>1, <2>2
<1>18. CASE l = m
  <2>1. t \in Held(l)
    BY <1>0, <1>14, <1>18 DEF Held
  <2>2. Held(l)' \subseteq DOMAIN tokens
    BY <1>11, <1>16 DEF Held, Pending
  <2>3. Spare(l)' = Spare(l) \cup {n} /\ n \notin Spare(l)
    BY <1>0, <1>2, <1>9, <1>16, <1>18, <2>1, <2>2 DEF Spare, Live
  <2>4. Cardinality(Spare(l)') = Cardinality(Spare(l)) + 1
    BY <1>12, <2>3, FS_AddElement
  <2>5. IsFiniteSet(Pending(l)') /\ Cardinality(Pending(l)') = Cardinality(Pending(l)) - 1
    BY <1>12, <1>13, <1>14, <1>18, FS_RemoveElement
  <2> QED
    BY <1>1, <1>12, <2>4, <2>5
<1> QED
  BY <1>17, <1>18
\* A login issues a token of a login that had none and no request holds.
LEMMA LoginRotates ==
  ASSUME TypeInv, RotationInv, NEW b \in Tabs, request[b].op = "limited",
         Len(tokens) < MaxTokens, UNCHANGED overlaps,
         tokens' = Append(tokens, NewToken(Len(tokens) + 1)),
         Continue(b, [op |-> "reply", token |-> Len(tokens) + 1]),
         PositiveLimits
  PROVE  RotationInv'
<1> DEFINE n == Len(tokens) + 1
           q == [op |-> "reply", token |-> n]
<1>1. tokens \in Seq(TokenRows) /\ Len(tokens) \in Nat /\ n \in Logins
  BY DEF TypeInv, TypeOK, TokenRows, Logins, PositiveLimits
<1>2. /\ DOMAIN tokens = 1..Len(tokens) /\ DOMAIN tokens' = 1..n
      /\ \A t \in DOMAIN tokens : tokens'[t] = tokens[t]
      /\ tokens'[n] = NewToken(n)
  BY <1>1, Grown
<1>3. NewToken(n).login = n
  BY DEF NewToken
<1>4. /\ DOMAIN tokens' = DOMAIN tokens \cup {n} /\ n \notin DOMAIN tokens
      /\ tokens'[n].login = n /\ \A t \in DOMAIN tokens : tokens'[t] = tokens[t]
      /\ \A t \in DOMAIN tokens : tokens[t].login # n
  BY <1>1, <1>2, <1>3 DEF TypeInv, TokenInv, TokenRows, Logins, PositiveLimits
<1>5. q \in Requests /\ q.op = "reply"
  BY <1>1 DEF Requests, Replies
<1>6. Continue(b, q)
  OBVIOUS
<1> HIDE DEF n, q
<1>7. request'[b] = q /\ \A o \in Tabs \ {b} : request'[o] = request[o]
  BY <1>5, <1>6, ContinueIs DEF TypeInv
<1>8. \A o \in Tabs : request[o].op = "refresh" => request[o].token \in DOMAIN tokens
  BY DEF TypeInv, RequestInv
<1> SUFFICES ASSUME NEW l \in Logins
             PROVE  /\ IsFiniteSet(Pending(l)')
                    /\ Cardinality(Spare(l)') + Cardinality(Pending(l)') <= 1 + overlaps'[l]
  BY DEF RotationInv
<1>9. Pending(l)' = Pending(l)
  <2>1. \A o \in Tabs : request'[o].op = "refresh" <=> request[o].op = "refresh"
    BY <1>5, <1>7
  <2>2. \A o \in Tabs : request[o].op = "refresh" =>
          tokens'[request'[o].token].login = tokens[request[o].token].login
    BY <1>4, <1>7, <1>8
  <2> QED
    BY <2>1, <2>2 DEF Pending
<1>10. Held(l)' = Held(l)
  <2>1. \A o \in Pending(l) : request'[o].token = request[o].token
    BY <1>7 DEF Pending
  <2> QED
    BY <1>9, <2>1 DEF Held
<1>11. /\ IsFiniteSet(Pending(l)) /\ Cardinality(Pending(l)) \in Nat
       /\ Cardinality(Spare(l)) + Cardinality(Pending(l)) <= 1 + overlaps[l]
       /\ overlaps[l] \in Nat
  BY FS_CardinalityType DEF RotationInv, TypeInv, TypeOK
<1>12. CASE l # n
  <2>1. Spare(l)' = Spare(l)
    BY <1>4, <1>10, <1>12 DEF Spare, Live
  <2> QED
    BY <1>9, <1>11, <2>1
<1>13. CASE l = n
  <2>1. Pending(l) = {}
    BY <1>4, <1>8, <1>13 DEF Pending
  <2>2. Spare(l)' \subseteq {n}
    BY <1>4, <1>13 DEF Spare
  <2>3. IsFiniteSet({n}) /\ Cardinality({n}) = 1
    BY FS_Singleton
  <2>4. Cardinality(Spare(l)') \in Nat /\ Cardinality(Spare(l)') <= 1
    BY <2>2, <2>3, FS_Subset, FS_CardinalityType
  <2>5. Cardinality(Pending(l)') = 0
    BY <1>9, <2>1, FS_EmptySet
  <2> QED
    BY <1>9, <1>11, <2>4, <2>5
<1> QED
  BY <1>12, <1>13

\* A request that goes on and was no refresh, nor becomes one.
LEMMA ContinueRotates ==
  ASSUME TypeInv, TypeInv', RotationInv, NEW b \in Tabs, NEW q \in Requests,
         request[b].op # "refresh", q.op # "refresh",
         Continue(b, q), UNCHANGED <<tokens, overlaps>>
  PROVE  RotationInv'
<1>1. request'[b] = q /\ \A o \in Tabs \ {b} : request'[o] = request[o]
  BY ContinueIs DEF TypeInv
<1>2. \A l \in Logins : overlaps[l] <= overlaps'[l]
  BY DEF TypeInv, TypeOK
<1> QED
  BY <1>1, <1>2, NoneRotates
\* A request that begins and is no refresh.
LEMMA BeginRotates ==
  ASSUME TypeInv, TypeInv', RotationInv, NEW b \in Tabs, NEW q \in Requests,
         request[b] = Idle, q.op # "refresh", Begin(b, q), UNCHANGED tokens,
         \A l \in Logins : overlaps[l] <= overlaps'[l]
  PROVE  RotationInv'
<1>1. /\ request'[b] = q
      /\ \A o \in Tabs \ {b} :
           /\ request'[o].op = request[o].op
           /\ request[o].op # "logout" => request'[o] = request[o]
  BY BeginIs DEF TypeInv
<1>2. \A o \in Tabs :
        /\ request'[o].op = "refresh" <=> request[o].op = "refresh"
        /\ request[o].op = "refresh" => request'[o].token = request[o].token
  BY <1>1, IdleIs
<1> QED
  BY <1>2, NoneRotates

LEMMA NextRotates ==
  ASSUME PositiveLimits, TypeInv, RotationInv, [Next]_vars
  PROVE  RotationInv'
<1>1. TypeInv'
  BY NextKeeps
<1>2. \A l \in Logins : overlaps[l] <= overlaps[l]
  BY DEF TypeInv, TypeOK
<1>3. ASSUME NEW b \in Tabs, BeginLogin(b)
      PROVE  RotationInv'
  <2> DEFINE n == IF attempts < MaxCount THEN attempts + 1 ELSE attempts
             q == [op |-> "counted", n |-> n, late |-> FALSE]
  <2>1. n \in 1..MaxCount
    BY DEF PositiveLimits, TypeInv, TypeOK
  <2>2. q \in Requests /\ q.op # "refresh"
    BY <2>1 DEF Requests, Counted
  <2>3. Begin(b, q) /\ request[b] = Idle /\ UNCHANGED <<tokens, overlaps>>
    BY <1>3 DEF BeginLogin, history
  <2> HIDE DEF q
  <2> QED
    BY <1>1, <1>2, <2>2, <2>3, BeginRotates
<1>4. ASSUME NEW b \in Tabs, BeginLogout(b)
      PROVE  RotationInv'
  <2>0. PICK m, k : m = tokens[cookie].login /\ k = (IF Holding(b, cookie) THEN 1 ELSE 0)
    OBVIOUS
  <2> DEFINE q == [op |-> "logout", token |-> cookie, alone |-> OthersIdle(b)]
  <2>1. /\ Begin(b, q) /\ request[b] = Idle /\ UNCHANGED tokens /\ cookie # 0
        /\ overlaps' = [overlaps EXCEPT ![m] = overlaps[m] + k]
    BY <1>4, <2>0 DEF BeginLogout, Hold, Usable, Live
  <2>2. OthersIdle(b) \in BOOLEAN /\ cookie \in DOMAIN tokens /\ tokens \in Seq(TokenRows)
    BY <2>1 DEF OthersIdle, TypeInv, TypeOK, TokenRows
  <2>3. q \in Requests /\ q.op # "refresh"
    BY <2>2 DEF Requests, Holders
  <2>4. \A l \in Logins : overlaps[l] <= overlaps'[l]
    <3>1. overlaps \in [Logins -> Nat] /\ k \in Nat
      BY <2>0 DEF TypeInv, TypeOK
    <3> QED
      BY <2>1, <3>1
  <2> HIDE DEF q
  <2> QED
    BY <1>1, <2>1, <2>3, <2>4, BeginRotates
<1>5. ASSUME NEW b \in Tabs, SetExpiry(b) \/ RedisFails(b) \/ Reply(b) \/ ReplyLost(b)
      PROVE  RotationInv'
  <2>1. PICK q \in {Idle, [request[b] EXCEPT !.op = "limited"]} :
          Continue(b, q) /\ (q = Idle \/ request[b].op = "counted")
    BY <1>5 DEF SetExpiry, RedisFails, Reply, ReplyLost
  <2>3. q \in Requests /\ q.op # "refresh"
    <3>1. request[b].op = "counted" => request[b] \in Counted
      BY RequestKinds DEF TypeInv, RequestInv
    <3>2. request[b].op = "counted" =>
            /\ [request[b] EXCEPT !.op = "limited"] \in Counted
            /\ [request[b] EXCEPT !.op = "limited"].op # "refresh"
      BY <3>1 DEF Counted
    <3> QED
      BY <2>1, <3>2, IdleIs DEF Requests
  <2>4. request[b].op # "refresh" /\ UNCHANGED <<tokens, overlaps>>
    BY <1>5 DEF SetExpiry, RedisFails, Reply, ReplyLost, history
  <2> QED
    BY <1>1, <2>1, <2>3, <2>4, ContinueRotates
<1>6. ASSUME NEW b \in Tabs, Login(b)
      PROVE  RotationInv'
  <2>1. request[b].op = "limited" /\ UNCHANGED overlaps
    BY <1>6 DEF Login
  <2>2. CASE Continue(b, Idle) /\ UNCHANGED tokens
    BY <1>1, <2>1, <2>2, IdleIs, ContinueRotates
  <2>3. CASE /\ Len(tokens) < MaxTokens
             /\ tokens' = Append(tokens, NewToken(Len(tokens) + 1))
             /\ Continue(b, [op |-> "reply", token |-> Len(tokens) + 1])
    BY <2>1, <2>3, LoginRotates
  <2> QED
    BY <1>6, <2>2, <2>3 DEF Login
<1>7. ASSUME NEW b \in Tabs, CommitLogout(b)
      PROVE  RotationInv'
  <2>0. PICK t : t = request[b].token
    OBVIOUS
  <2>1. /\ request[b].op = "logout" /\ Continue(b, Idle) /\ tokens' = Revoked(t)
        /\ UNCHANGED overlaps
    BY <1>7, <2>0 DEF CommitLogout
  <2>2. t \in DOMAIN tokens
    BY <2>0, <2>1 DEF TypeInv, RequestInv
  <2>3. /\ DOMAIN tokens' = DOMAIN tokens
        /\ \A u \in DOMAIN tokens : u # t => tokens'[u] = tokens[u]
        /\ tokens'[t].revoked /\ tokens'[t].login = tokens[t].login
    BY <2>1, <2>2, RevokedIs
  <2>4. /\ request'[b] = Idle /\ \A o \in Tabs \ {b} : request'[o] = request[o]
    BY <2>1, IdleIs, ContinueIs DEF TypeInv
  <2>5. \A o \in Tabs :
          /\ request'[o].op = "refresh" <=> request[o].op = "refresh"
          /\ request[o].op = "refresh" => request'[o].token = request[o].token
    BY <2>1, <2>4, IdleIs
  <2>6. \A u \in DOMAIN tokens :
          tokens'[u].login = tokens[u].login /\ (tokens[u].revoked => tokens'[u].revoked)
    BY <2>3
  <2>7. \A l \in Logins : overlaps[l] <= overlaps'[l]
    BY <1>2, <2>1
  <2> QED
    BY <1>1, <2>3, <2>5, <2>6, <2>7, NoneRotates
<1>8. ASSUME UNCHANGED <<request, overlaps>>, DOMAIN tokens' = DOMAIN tokens,
             \A u \in DOMAIN tokens :
               tokens'[u].login = tokens[u].login /\ (tokens[u].revoked => tokens'[u].revoked)
      PROVE  RotationInv'
  BY <1>1, <1>2, <1>8, NoneRotates
<1>9. CASE Tick
  <2>1. UNCHANGED <<tokens, overlaps>>
    BY <1>9 DEF Tick, history
  <2>2. \A o \in Tabs :
          /\ request'[o].op = "refresh" <=> request[o].op = "refresh"
          /\ request[o].op = "refresh" => request'[o].token = request[o].token
    <3>1. ASSUME NEW o \in Tabs, Counting(o)
          PROVE  [request[o] EXCEPT !.late = TRUE].op = request[o].op
      <4>1. request[o] \in Counted
        BY <3>1, RequestKinds DEF Counting, TypeInv, RequestInv
      <4> QED
        BY <4>1 DEF Counted
    <3>2. \A o \in Tabs : request'[o] = request[o] \/
                          (Counting(o) /\ request'[o] = [request[o] EXCEPT !.late = TRUE])
      BY <1>9 DEF Tick
    <3> QED
      BY <3>1, <3>2 DEF Counting
  <2> QED
    BY <1>1, <1>2, <2>1, <2>2, NoneRotates
<1>10. CASE \E t \in DOMAIN tokens : TokenExpires(t)
  <2>1. UNCHANGED <<request, overlaps>>
    BY <1>10 DEF TokenExpires, history
  <2> QED
    BY <1>8, <1>10, <2>1, TokenExpiresIs
<1>11. ASSUME NEW b \in Tabs, LogoutOfNothing(b) \/ AccessRefused(b) \/ AccessExpires(b)
       PROVE  RotationInv'
  <2>1. UNCHANGED <<request, tokens, overlaps>>
    BY <1>11 DEF LogoutOfNothing, AccessRefused, AccessExpires, history
  <2> QED
    BY <1>8, <2>1
<1>12. CASE UNCHANGED vars
  BY <1>8, <1>12 DEF vars, history
<1> QED
  BY <1>1, <1>3, <1>4, <1>5, <1>6, <1>7, <1>9, <1>10, <1>11, <1>12,
     RefreshBeginRotates, RefreshCommitRotates DEF Next

\* As many tokens are held as there are refreshes, at most.
LEMMA HeldFew ==
  ASSUME TypeInv, NEW l \in Logins, IsFiniteSet(Pending(l))
  PROVE  IsFiniteSet(Held(l)) /\ Cardinality(Held(l)) <= Cardinality(Pending(l))
<1> DEFINE f == [b \in Pending(l) |-> request[b].token]
<1>1. f \in Surjection(Pending(l), Held(l))
  <2>1. f \in [Pending(l) -> Held(l)] /\ \A t \in Held(l) : \E b \in Pending(l) : f[b] = t
    BY DEF Held
  <2> HIDE DEF f
  <2> QED
    BY <2>1 DEF Surjection
<1> HIDE DEF f
<1> QED
  BY <1>1, FS_Surjection

(* A login has one live refresh token, and one more at most for each request *)
(* that began while another was using the same token.                        *)
THEOREM RotationHolds == ASSUME PositiveLimits PROVE Spec => []RotationBounded
<1>1. Init => TypeInv /\ RotationInv
  <2> SUFFICES ASSUME Init, NEW l \in Logins
               PROVE  /\ IsFiniteSet(Pending(l))
                      /\ Cardinality(Spare(l)) + Cardinality(Pending(l)) <= 1 + overlaps[l]
    BY InitType DEF RotationInv
  <2>1. tokens = <<>> /\ DOMAIN tokens = {} /\ overlaps[l] = 0
    BY DEF Init
  <2>2. Pending(l) = {} /\ Spare(l) = {}
    BY <2>1, IdleIs DEF Init, Pending, Spare
  <2> QED
    BY <2>1, <2>2, FS_EmptySet
<1>2. TypeInv /\ RotationInv /\ [Next]_vars => (TypeInv /\ RotationInv)'
  BY NextKeeps, NextRotates
<1>3. ASSUME TypeInv, RotationInv
      PROVE  RotationBounded
  <2> SUFFICES ASSUME NEW l \in Logins
               PROVE  Cardinality({t \in DOMAIN tokens : tokens[t].login = l /\ Live(t)})
                        <= 1 + overlaps[l]
    BY DEF RotationBounded
  <2> DEFINE live == {t \in DOMAIN tokens : tokens[t].login = l /\ Live(t)}
  <2>1. /\ IsFiniteSet(Pending(l)) /\ overlaps[l] \in Nat
        /\ Cardinality(Spare(l)) + Cardinality(Pending(l)) <= 1 + overlaps[l]
    BY <1>3 DEF RotationInv, TypeInv, TypeOK
  <2>2. IsFiniteSet(Held(l)) /\ Cardinality(Held(l)) <= Cardinality(Pending(l))
    BY <1>3, <2>1, HeldFew
  <2>3. IsFiniteSet(Spare(l))
    BY <1>3, FiniteSpare
  <2>4. live \subseteq Spare(l) \cup Held(l)
    BY DEF Spare
  <2> HIDE DEF live
  <2>5. /\ IsFiniteSet(Spare(l) \cup Held(l)) /\ IsFiniteSet(Spare(l) \cap Held(l))
        /\ Cardinality(Spare(l) \cup Held(l))
             = Cardinality(Spare(l)) + Cardinality(Held(l)) - Cardinality(Spare(l) \cap Held(l))
    BY <2>2, <2>3, FS_Union, FS_Intersection
  <2>6. IsFiniteSet(live) /\ Cardinality(live) <= Cardinality(Spare(l) \cup Held(l))
    BY <2>4, <2>5, FS_Subset
  <2>7. /\ Cardinality(Spare(l)) \in Nat /\ Cardinality(Held(l)) \in Nat
        /\ Cardinality(Spare(l) \cap Held(l)) \in Nat /\ Cardinality(live) \in Nat
        /\ Cardinality(Pending(l)) \in Nat
    BY <2>1, <2>2, <2>3, <2>5, <2>6, FS_CardinalityType
  <2>8. Cardinality(live) <= 1 + overlaps[l]
    BY <2>1, <2>2, <2>5, <2>6, <2>7
  <2> QED
    BY <2>8 DEF live
<1>4. TypeInv /\ RotationInv => RotationBounded
  BY <1>3
<1> QED
  BY <1>1, <1>2, <1>4, PTL DEF Spec
-----------------------------------------------------------------------------
(* Logout.                                                                   *)

(* A logout that is alone is, and holds the cookie's token; after one nothing *)
(* is on its way that could undo it.                                         *)
AloneInv ==
  \A b \in Tabs : request[b].op = "logout" /\ request[b].alone =>
    OthersIdle(b) /\ request[b].token = cookie

OutInv ==
  loggedOut =>
    /\ ~Usable(cookie)
    /\ \A b \in Tabs : request[b].op \in {"idle", "counted", "limited"}

\* While a request is in progress no other logout is alone.
LEMMA NoneAlone ==
  ASSUME TypeInv, AloneInv, NEW b \in Tabs, request[b] # Idle, NEW q \in Requests,
         Continue(b, q), q.op # "logout"
  PROVE  AloneInv'
<1>1. request'[b] = q /\ \A o \in Tabs \ {b} : request'[o] = request[o]
  BY ContinueIs DEF TypeInv
<1>2. \A o \in Tabs \ {b} : ~(request[o].op = "logout" /\ request[o].alone)
  BY DEF AloneInv, OthersIdle
<1> QED
  BY <1>1, <1>2 DEF AloneInv

\* A cookie that opens nothing opens nothing later.
LEMMA StaysOut ==
  ASSUME TypeInv, Kept, ~Usable(cookie), UNCHANGED cookie
  PROVE  ~Usable(cookie)'
<1>1. cookie = 0 \/ cookie \in DOMAIN tokens
  BY DEF TypeInv, TypeOK
<1> QED
  BY <1>1 DEF Kept, Usable, Live

\* No request begins or ends one that holds a token.
LEMMA QuietOut ==
  ASSUME TypeInv, Kept, OutInv, UNCHANGED <<cookie, loggedOut>>,
         \A b \in Tabs : request[b].op \in {"idle", "counted", "limited"} =>
                           request'[b].op \in {"idle", "counted", "limited"}
  PROVE  OutInv'
<1> SUFFICES ASSUME loggedOut'
             PROVE  /\ ~Usable(cookie)'
                    /\ \A b \in Tabs : request'[b].op \in {"idle", "counted", "limited"}
  BY DEF OutInv
<1>1. loggedOut
  OBVIOUS
<1> QED
  BY <1>1, StaysOut DEF OutInv

LEMMA LoginBeginOut ==
  ASSUME PositiveLimits, TypeInv, Kept, AloneInv, OutInv, NEW b \in Tabs, BeginLogin(b)
  PROVE  AloneInv' /\ OutInv'
<1> DEFINE n == IF attempts < MaxCount THEN attempts + 1 ELSE attempts
           q == [op |-> "counted", n |-> n, late |-> FALSE]
<1>1. n \in 1..MaxCount
  BY DEF PositiveLimits, TypeInv, TypeOK
<1>2. q \in Requests /\ q.op = "counted"
  BY <1>1 DEF Requests, Counted
<1>3. Begin(b, q) /\ UNCHANGED <<cookie, loggedOut>>
  BY DEF BeginLogin, history
<1> HIDE DEF q
<1>4. /\ request'[b] = q
      /\ \A o \in Tabs \ {b} :
           /\ request'[o].op = request[o].op
           /\ request[o].op # "logout" => request'[o] = request[o]
           /\ request[o].op = "logout" =>
                request'[o].token = request[o].token /\ ~request'[o].alone
  BY <1>2, <1>3, BeginIs DEF TypeInv
<1>5. AloneInv'
  BY <1>2, <1>4 DEF AloneInv
<1>6. OutInv'
  BY <1>2, <1>3, <1>4, QuietOut
<1> QED
  BY <1>5, <1>6

\* A refresh or a logout begins: the cookie is usable, so no logout is final.
LEMMA HoldOut ==
  ASSUME TypeInv, AloneInv, OutInv, NEW b \in Tabs, BeginRefresh(b) \/ BeginLogout(b)
  PROVE  AloneInv' /\ OutInv'
<1>1. PICK op \in {"refresh", "logout"} : Hold(b, op)
  BY DEF BeginRefresh, BeginLogout
<1> DEFINE q == [op |-> op, token |-> cookie, alone |-> OthersIdle(b)]
<1>2. /\ Begin(b, q) /\ request[b] = Idle /\ Usable(cookie) /\ cookie # 0
      /\ UNCHANGED <<cookie, loggedOut>>
  BY <1>1 DEF BeginRefresh, BeginLogout, Hold, Usable, Live
<1>3. OthersIdle(b) \in BOOLEAN /\ cookie \in DOMAIN tokens /\ tokens \in Seq(TokenRows)
  BY <1>2 DEF OthersIdle, TypeInv, TypeOK, TokenRows
<1>4. q \in Requests /\ q.token = cookie /\ q.alone = OthersIdle(b)
  BY <1>3 DEF Requests, Holders
<1> HIDE DEF q
<1>5. /\ request'[b] = q
      /\ \A o \in Tabs \ {b} :
           /\ request'[o].op = request[o].op
           /\ request[o].op # "logout" => request'[o] = request[o]
           /\ request[o].op = "logout" =>
                request'[o].token = request[o].token /\ ~request'[o].alone
  BY <1>2, <1>4, BeginIs DEF TypeInv
<1>6. OthersIdle(b) => (OthersIdle(b))'
  BY <1>5, IdleIs DEF OthersIdle
<1>7. AloneInv'
  BY <1>2, <1>4, <1>5, <1>6 DEF AloneInv
<1>8. OutInv'
  BY <1>2 DEF OutInv
<1> QED
  BY <1>7, <1>8

\* A request goes on or ends; only a reply, a refresh or a logout touches
\* the cookie, its token or the last logout.
LEMMA ContinueOut ==
  ASSUME TypeInv, Kept, AloneInv, OutInv, NEW b \in Tabs,
         \/ SetExpiry(b) \/ RedisFails(b) \/ Login(b)
         \/ CommitRefresh(b) \/ Reply(b) \/ ReplyLost(b)
  PROVE  AloneInv' /\ OutInv'
<1>1. request[b].op = "counted" =>
        /\ [request[b] EXCEPT !.op = "limited"] \in Counted
        /\ [request[b] EXCEPT !.op = "limited"].op = "limited"
  <2>1. request[b].op = "counted" => request[b] \in Counted
    BY RequestKinds DEF TypeInv, RequestInv
  <2> QED
    BY <2>1 DEF Counted
<1>2. /\ [op |-> "reply", token |-> Len(tokens) + 1] \in Requests
      /\ [op |-> "reply", token |-> Len(tokens) + 1].op = "reply"
  <2>1. tokens \in Seq(TokenRows)
    BY DEF TypeInv, TypeOK, TokenRows
  <2>2. Len(tokens) + 1 \in Nat \ {0}
    BY <2>1
  <2> QED
    BY <2>2 DEF Requests, Replies
<1>3. PICK q \in Requests :
        /\ Continue(b, q) /\ q.op # "logout"
        /\ q.op \in {"idle", "limited"} \/ loggedOut' = FALSE \/ request[b].op = "refresh"
  <2>1. CASE SetExpiry(b)
    <3>1. Continue(b, [request[b] EXCEPT !.op = "limited"]) /\ request[b].op = "counted"
      BY <2>1 DEF SetExpiry
    <3> QED
      BY <1>1, <3>1 DEF Requests
  <2>2. CASE Continue(b, Idle)
    BY <2>2, IdleIs
  <2>3. CASE /\ Continue(b, [op |-> "reply", token |-> Len(tokens) + 1])
             /\ loggedOut' = FALSE \/ request[b].op = "refresh"
    BY <1>2, <2>3
  <2> QED
    BY <2>1, <2>2, <2>3 DEF RedisFails, Login, CommitRefresh, Reply, ReplyLost
<1>4. request[b] # Idle
  BY IdleIs DEF SetExpiry, RedisFails, Login, CommitRefresh, Reply, ReplyLost
<1>5. AloneInv'
  BY <1>3, <1>4, NoneAlone
<1>6. request'[b] = q /\ \A o \in Tabs \ {b} : request'[o] = request[o]
  BY <1>3, ContinueIs DEF TypeInv
<1>7. OutInv'
  <2>1. CASE request[b].op \in {"refresh", "reply"}
    <3>1. ~loggedOut
      BY <2>1 DEF OutInv
    <3>2. loggedOut' = loggedOut
      BY <2>1 DEF SetExpiry, RedisFails, Login, CommitRefresh, Reply, ReplyLost, history
    <3> QED
      BY <3>1, <3>2 DEF OutInv
  <2>2. CASE loggedOut' = FALSE
    BY <2>2 DEF OutInv
  <2>3. CASE request[b].op \notin {"refresh", "reply"} /\ loggedOut' # FALSE
    <3>1. UNCHANGED <<cookie, loggedOut>>
      BY <2>3 DEF SetExpiry, RedisFails, Login, CommitRefresh, Reply, ReplyLost, history
    <3>2. q.op \in {"idle", "limited"}
      BY <1>3, <2>3
    <3> QED
      BY <1>6, <3>1, <3>2, QuietOut
  <2> QED
    BY <2>1, <2>2, <2>3
<1> QED
  BY <1>5, <1>7

\* A logout that was alone revokes what the cookie names.
LEMMA LogoutOut ==
  ASSUME TypeInv, AloneInv, OutInv, NEW b \in Tabs, CommitLogout(b)
  PROVE  AloneInv' /\ OutInv'
<1>0. PICK t : t = request[b].token
  OBVIOUS
<1>1. /\ request[b].op = "logout" /\ Continue(b, Idle) /\ tokens' = Revoked(t)
      /\ loggedOut' = request[b].alone /\ UNCHANGED cookie
  BY <1>0 DEF CommitLogout
<1>2. t \in DOMAIN tokens /\ request[b] # Idle
  BY <1>0, <1>1, IdleIs DEF TypeInv, RequestInv
<1>3. tokens'[t].revoked
  BY <1>1, <1>2, RevokedIs
<1>4. request'[b] = Idle /\ \A o \in Tabs \ {b} : request'[o] = request[o]
  BY <1>1, IdleIs, ContinueIs DEF TypeInv
<1>5. AloneInv'
  BY <1>1, <1>2, IdleIs, NoneAlone
<1>6. ASSUME request[b].alone
      PROVE  /\ ~Usable(cookie)'
             /\ \A o \in Tabs : request'[o].op \in {"idle", "counted", "limited"}
  <2>1. t = cookie /\ OthersIdle(b)
    BY <1>0, <1>1, <1>6 DEF AloneInv
  <2> QED
    BY <1>1, <1>3, <1>4, <2>1, IdleIs DEF OthersIdle, Usable, Live
<1>7. OutInv'
  BY <1>1, <1>6 DEF OutInv
<1> QED
  BY <1>5, <1>7

\* No request steps, or time passes.
LEMMA RestOut ==
  ASSUME TypeInv, Kept, AloneInv, OutInv,
         \/ Tick
         \/ \E b \in Tabs : AccessRefused(b) \/ AccessExpires(b)
         \/ \E t \in DOMAIN tokens : TokenExpires(t)
         \/ UNCHANGED vars
  PROVE  AloneInv' /\ OutInv'
<1>1. UNCHANGED <<cookie, loggedOut>>
  BY DEF Tick, AccessRefused, AccessExpires, TokenExpires, history, vars
<1>2. \A o \in Tabs :
        \/ request'[o] = request[o]
        \/ Counting(o) /\ request'[o] = [request[o] EXCEPT !.late = TRUE]
  BY DEF Tick, AccessRefused, AccessExpires, TokenExpires, history, vars
<1>3. ASSUME NEW o \in Tabs, Counting(o)
      PROVE  [request[o] EXCEPT !.late = TRUE].op = request[o].op
  <2>1. request[o] \in Counted
    BY <1>3, RequestKinds DEF Counting, TypeInv, RequestInv
  <2> QED
    BY <2>1 DEF Counted
<1>4. \A o \in Tabs :
        /\ request'[o].op = request[o].op
        /\ request[o].op \notin {"counted", "limited"} => request'[o] = request[o]
  BY <1>2, <1>3 DEF Counting
<1>5. AloneInv'
  <2>1. \A o \in Tabs : request[o] = Idle => request'[o] = Idle
    BY <1>4, IdleIs
  <2> QED
    BY <1>1, <1>4, <2>1 DEF AloneInv, OthersIdle
<1>6. OutInv'
  BY <1>1, <1>4, QuietOut
<1> QED
  BY <1>5, <1>6

LEMMA NothingOut ==
  ASSUME TypeInv, AloneInv, OutInv, NEW b \in Tabs, LogoutOfNothing(b)
  PROVE  AloneInv' /\ OutInv'
<1>1. /\ request[b] = Idle /\ ~Usable(cookie) /\ loggedOut' = OthersIdle(b)
      /\ UNCHANGED <<tokens, cookie, request>>
  BY DEF LogoutOfNothing
<1>2. AloneInv'
  BY <1>1 DEF AloneInv, OthersIdle
<1>3. OthersIdle(b) => \A o \in Tabs : request'[o].op = "idle"
  BY <1>1, IdleIs DEF OthersIdle
<1>4. OutInv'
  BY <1>1, <1>3 DEF OutInv, Usable, Live
<1> QED
  BY <1>2, <1>4

(* After a logout that no other request of the browser overlapped, nothing   *)
(* the browser holds, and nothing still on its way, gets a tab in again.     *)
THEOREM LogoutHolds == ASSUME PositiveLimits PROVE Spec => []LogoutIsFinal
<1>1. Init => TypeInv /\ AloneInv /\ OutInv
  <2> SUFFICES ASSUME Init PROVE AloneInv /\ OutInv
    BY InitType
  <2>1. loggedOut = FALSE /\ \A b \in Tabs : request[b].op = "idle"
    BY IdleIs DEF Init
  <2> QED
    BY <2>1 DEF AloneInv, OutInv
<1>2. ASSUME TypeInv, AloneInv, OutInv, [Next]_vars
      PROVE  (TypeInv /\ AloneInv /\ OutInv)'
  <2>1. TypeInv' /\ Kept
    BY <1>2, NextKeeps
  <2> QED
    BY <1>2, <2>1, LoginBeginOut, HoldOut, ContinueOut, LogoutOut, NothingOut, RestOut DEF Next
<1>3. TypeInv /\ AloneInv /\ OutInv /\ [Next]_vars => (TypeInv /\ AloneInv /\ OutInv)'
  BY <1>2
<1>4. OutInv => LogoutIsFinal
  BY DEF OutInv, LogoutIsFinal
<1> QED
  BY <1>1, <1>3, <1>4, PTL DEF Spec

(* What the runs check of the sessions, in one: window, rotation, logout.    *)
THEOREM SessionsStayBounded == ASSUME PositiveLimits PROVE Spec => []SessionsAreBounded
<1>1. WindowLimit /\ RotationBounded /\ LogoutIsFinal => SessionsAreBounded
  BY DEF SessionsAreBounded
<1> QED
  BY <1>1, LimitHolds, RotationHolds, LogoutHolds, PTL
===============================================================================
