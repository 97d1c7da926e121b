----------------------------- MODULE AuthTokens ------------------------------
(***************************************************************************)
(* Sessions of the back office: logins with a rate limit in Redis, refresh *)
(* tokens that are rotated on use, logout (domains/identity), and the      *)
(* browser that holds them (contexts/AuthContext.tsx, lib/auth.ts): one    *)
(* refresh cookie for all its tabs, an access token per tab.               *)
(*                                                                         *)
(* A refresh and a logout read the token's row, then write and commit; two *)
(* of them may overlap. READ COMMITTED, no lock.                           *)
(***************************************************************************)
EXTENDS Integers, Sequences, FiniteSets

CONSTANTS
  Tabs,       \* tabs of the browser; each has at most one request in flight
  LoginLimit, \* login_rate_limit
  Window,     \* login_rate_limit_window_seconds, in ticks
  MaxCount,   \* bound: where the attempts counter stops being told apart
  MaxTokens,  \* bound: refresh tokens ever issued
  Faults      \* subset of {"reply", "redis"}

(* What the constants may be: at least one login, one tick of time.          *)
PositiveLimits ==
  /\ LoginLimit \in Nat \ {0} /\ Window \in Nat \ {0} /\ MaxTokens \in Nat
  /\ MaxCount \in Nat /\ MaxCount > LoginLimit + 1

VARIABLES
  active,    \* users.is_active
  tokens,    \* refresh_tokens: [login, revoked, expired], by id
  cookie,    \* the browser's refresh cookie: an id, or 0
  access,    \* what sessionStorage of each tab holds: none, valid, expired
  request,   \* the request of each tab
  attempts,  \* the counter ratelimit:login:{ip}, 0 when there is no key
  ttl,       \* its time to live; -1 when the key has none
  checked,   \* passwords checked by the logins the key counted
  overlaps,  \* per login: requests that began while another held their token
  loggedOut, \* the last logout met no other request
  stuck      \* a login ended between the counter's first INCR and its EXPIRE

limit == <<attempts, ttl, checked, stuck>>
history == <<overlaps, loggedOut>>
vars == <<active, tokens, cookie, access, request, limit, history>>

Idle == [op |-> "idle"]
Logins == 1..MaxTokens

Init ==
  /\ active \in BOOLEAN
  /\ tokens = <<>>
  /\ cookie = 0
  /\ access = [b \in Tabs |-> "none"]
  /\ request = [b \in Tabs |-> Idle]
  /\ attempts = 0 /\ ttl = -1 /\ checked = 0
  /\ overlaps = [l \in Logins |-> 0]
  /\ loggedOut = FALSE /\ stuck = FALSE

Live(t) == t # 0 /\ ~tokens[t].revoked
Usable(t) == Live(t) /\ ~tokens[t].expired

Continue(b, next) == request' = [request EXCEPT ![b] = next]

(* A request begins; a logout in progress is no longer alone.                *)
Begin(b, new) ==
  request' = [o \in Tabs |->
    IF o = b THEN new
    ELSE IF request[o].op = "logout" THEN [request[o] EXCEPT !.alone = FALSE]
    ELSE request[o]]

OthersIdle(b) == \A o \in Tabs \ {b} : request[o] = Idle

NewToken(login) == [login |-> login, revoked |-> FALSE, expired |-> FALSE]

Revoked(t) == [tokens EXCEPT ![t].revoked = TRUE]

-----------------------------------------------------------------------------
(* check_rate_limit: INCR ...                                                *)
BeginLogin(b) ==
  /\ request[b] = Idle /\ access[b] = "none"
  /\ LET n == IF attempts < MaxCount THEN attempts + 1 ELSE attempts IN
     /\ attempts' = n
     /\ Begin(b, [op |-> "counted", n |-> n, late |-> FALSE])
  /\ UNCHANGED <<active, tokens, cookie, access, ttl, checked, stuck, history>>

(* ... then EXPIRE for the first attempt of a window, or an exception that   *)
(* leaves the key without one. The first form renews it at every attempt.    *)
SetExpiryAlways(b) ==
  /\ request[b].op = "counted"
  /\ ttl' = IF attempts = 0 THEN ttl ELSE Window
  /\ Continue(b, [request[b] EXCEPT !.op = "limited"])
  /\ UNCHANGED <<active, tokens, cookie, access, attempts, checked, stuck, history>>
SetExpiry(b) ==
  /\ request[b].op = "counted"
  /\ ttl' = IF request[b].n = 1 THEN Window ELSE ttl
  /\ Continue(b, [request[b] EXCEPT !.op = "limited"])
  /\ UNCHANGED <<active, tokens, cookie, access, attempts, checked, stuck, history>>

RedisFails(b) ==
  /\ "redis" \in Faults
  /\ request[b].op = "counted" /\ request[b].n = 1
  /\ Continue(b, Idle)
  /\ stuck' = TRUE
  /\ UNCHANGED <<active, tokens, cookie, access, attempts, ttl, checked, history>>

Counting(b) == request[b].op \in {"counted", "limited"}

(* Time passes; when the window ends Redis deletes the key, and a login that *)
(* was counted and is not done is late.                                      *)
Tick ==
  /\ ttl > 0
  /\ IF ttl = 1
     THEN /\ attempts' = 0 /\ ttl' = -1 /\ checked' = 0
          /\ request' = [b \in Tabs |-> IF Counting(b)
               THEN [request[b] EXCEPT !.late = TRUE] ELSE request[b]]
     ELSE ttl' = ttl - 1 /\ UNCHANGED <<attempts, checked, request>>
  /\ UNCHANGED <<active, tokens, cookie, access, stuck, history>>

(* Too many attempts: refused, whatever the password.                        *)
WithinLimit(b) == request[b].n <= LoginLimit

Login(b) ==
  /\ request[b].op = "limited"
  /\ IF ~WithinLimit(b)
     THEN Continue(b, Idle) /\ UNCHANGED <<tokens, checked, loggedOut>>
     ELSE /\ checked' = IF request[b].late THEN checked ELSE checked + 1
          /\ \/ Continue(b, Idle) /\ UNCHANGED <<tokens, loggedOut>>
             \/ /\ active /\ Len(tokens) < MaxTokens
                /\ tokens' = Append(tokens, NewToken(Len(tokens) + 1))
                /\ Continue(b, [op |-> "reply", token |-> Len(tokens) + 1])
                /\ loggedOut' = FALSE
  /\ UNCHANGED <<active, cookie, access, attempts, ttl, stuck, overlaps>>

-----------------------------------------------------------------------------
(* Another request of the browser holds token t.                             *)
Holding(b, t) ==
  \E o \in Tabs \ {b} : request[o].op \in {"refresh", "logout"} /\ request[o].token = t

Hold(b, op) ==
  /\ Begin(b, [op |-> op, token |-> cookie, alone |-> OthersIdle(b)])
  /\ overlaps' = [overlaps EXCEPT ![tokens[cookie].login] =
                    @ + (IF Holding(b, cookie) THEN 1 ELSE 0)]

(* bootstrap of a tab without an access token: POST /auth/refresh with the   *)
(* cookie, which a refusal leaves as it is: the HTTPException is answered    *)
(* with a response of its own.                                               *)
BeginRefresh(b) ==
  /\ request[b] = Idle /\ access[b] = "none"
  /\ active /\ Usable(cookie)
  /\ Hold(b, "refresh")
  /\ UNCHANGED <<active, tokens, cookie, access, limit, loggedOut>>

(* The successor of token t; the first form leaves t live as well.           *)
RotatedKept(t) == Append(tokens, NewToken(tokens[t].login))
Rotated(t) == Append(Revoked(t), NewToken(tokens[t].login))

CommitRefresh(b) ==
  /\ request[b].op = "refresh"
  /\ Len(tokens) < MaxTokens
  /\ tokens' = Rotated(request[b].token)
  /\ Continue(b, [op |-> "reply", token |-> Len(tokens) + 1])
  /\ UNCHANGED <<active, cookie, access, limit, history>>

(* The answer to a login or a refresh arrives, or does not.                  *)
Reply(b) ==
  /\ request[b].op = "reply"
  /\ cookie' = request[b].token
  /\ access' = [access EXCEPT ![b] = "valid"]
  /\ Continue(b, Idle)
  /\ UNCHANGED <<active, tokens, limit, history>>

ReplyLost(b) ==
  /\ "reply" \in Faults
  /\ request[b].op = "reply"
  /\ Continue(b, Idle)
  /\ UNCHANGED <<active, tokens, cookie, access, limit, history>>

-----------------------------------------------------------------------------
(* POST /auth/logout needs a valid access token; with one the cookie's token *)
(* is revoked, if it can be used. The tab forgets its own in any case, and   *)
(* the cookie stays: the route answers with a response of its own.           *)
BeginLogout(b) ==
  /\ request[b] = Idle /\ access[b] = "valid" /\ active
  /\ Usable(cookie)
  /\ Hold(b, "logout")
  /\ UNCHANGED <<active, tokens, cookie, access, limit, loggedOut>>

CommitLogout(b) ==
  /\ request[b].op = "logout"
  /\ tokens' = Revoked(request[b].token)
  /\ access' = [access EXCEPT ![b] = "none"]
  /\ Continue(b, Idle)
  /\ loggedOut' = request[b].alone
  /\ UNCHANGED <<active, cookie, limit, overlaps>>

LogoutOfNothing(b) ==
  /\ request[b] = Idle /\ access[b] = "valid" /\ active
  /\ ~Usable(cookie)
  /\ access' = [access EXCEPT ![b] = "none"]
  /\ loggedOut' = OthersIdle(b)
  /\ UNCHANGED <<active, tokens, cookie, request, limit, overlaps>>

(* The access token is refused: by logout, which then revokes nothing, or by *)
(* /auth/me when the tab is loaded again.                                    *)
AccessRefused(b) ==
  /\ request[b] = Idle /\ access[b] # "none"
  /\ access[b] = "expired" \/ ~active
  /\ access' = [access EXCEPT ![b] = "none"]
  /\ UNCHANGED <<active, tokens, cookie, request, limit, history>>

AccessExpires(b) ==
  /\ access[b] = "valid"
  /\ access' = [access EXCEPT ![b] = "expired"]
  /\ UNCHANGED <<active, tokens, cookie, request, limit, history>>

TokenExpires(t) ==
  /\ ~tokens[t].expired
  /\ tokens' = [tokens EXCEPT ![t].expired = TRUE]
  /\ UNCHANGED <<active, cookie, access, request, limit, history>>

Next ==
  \/ \E b \in Tabs :
       \/ BeginLogin(b) \/ SetExpiry(b) \/ RedisFails(b) \/ Login(b)
       \/ BeginRefresh(b) \/ CommitRefresh(b) \/ Reply(b) \/ ReplyLost(b)
       \/ BeginLogout(b) \/ CommitLogout(b) \/ LogoutOfNothing(b)
       \/ AccessRefused(b) \/ AccessExpires(b)
  \/ Tick
  \/ \E t \in DOMAIN tokens : TokenExpires(t)

Spec == Init /\ [][Next]_vars
-----------------------------------------------------------------------------
(* Every variable ranges over what the code can store in it.                 *)
TypeOK ==
  /\ active \in BOOLEAN
  /\ tokens \in Seq([login : Logins, revoked : BOOLEAN, expired : BOOLEAN])
  /\ cookie \in {0} \cup DOMAIN tokens
  /\ access \in [Tabs -> {"none", "valid", "expired"}]
  /\ \A b \in Tabs : request[b].op \in {"idle", "counted", "limited", "refresh", "logout", "reply"}
  /\ attempts \in 0..MaxCount /\ ttl \in -1..Window /\ checked \in Nat
  /\ overlaps \in [Logins -> Nat] /\ loggedOut \in BOOLEAN /\ stuck \in BOOLEAN

(* However many logins are in flight, of those a window counts no more than  *)
(* the limit get their password checked.                                     *)
WindowLimit == checked <= LoginLimit

(* A lockout runs out: a counter has a time to live, or the login that sets  *)
(* it is in progress; and attempts made meanwhile do not prolong it. But a   *)
(* login that fails right after the first INCR leaves one that never ends.   *)
LockoutRunsDown ==
  attempts' > 0 =>
    \/ ttl' > 0 /\ (ttl > 0 => ttl' <= ttl)
    \/ ttl' = -1 /\ \E b \in Tabs : request'[b].op = "counted" /\ request'[b].n = 1
    \/ stuck'

(* Rotation: a login has one live refresh token, and one more at most for    *)
(* each request that began while another was using the same token.           *)
RotationBounded ==
  \A l \in Logins :
    Cardinality({t \in DOMAIN tokens : tokens[t].login = l /\ Live(t)}) <= 1 + overlaps[l]

(* After a logout that no other request overlapped, no tab gets in again     *)
(* with what the browser holds.                                              *)
LogoutIsFinal == loggedOut => ~Usable(cookie)

SessionsAreBounded == WindowLimit /\ RotationBounded /\ LogoutIsFinal
=============================================================================
