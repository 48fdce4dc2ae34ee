-------------------------------- MODULE Tokens --------------------------------
(***************************************************************************)
(* Pairs of tokens: login, refresh, logout, the change of a password, and  *)
(* the check of a token by every other request: app/services/              *)
(* auth_service.py, core/security.py and _resolve_auth of                  *)
(* core/dependencies.py.                                                   *)
(*                                                                         *)
(* A token is valid until the second of its exp is over; what invalidates  *)
(* it earlier are keys in Redis that expire by themselves.  Time is        *)
(* counted in ticks, so that a moment may lie between two seconds.  A      *)
(* token is known by its jti, so that a forged one is none; which user is  *)
(* active is a matter of Roles, and a request of an inactive user, or with *)
(* a wrong password, is one that ends early.                               *)
(***************************************************************************)
EXTENDS Integers, FiniteSetsExt

CONSTANTS
    Users,           \* primary keys of the users table
    Pairs,           \* pairs of an access and a refresh token
    Requests,        \* requests that can be in progress at the same time
    NoToken,         \* the request has no such token
    NoPair,          \* the pair has not been issued
    Ticks,           \* moments in a second
    AccessLife,      \* ACCESS_TOKEN_EXPIRE_MINUTES, in seconds
    RefreshLife,     \* REFRESH_TOKEN_EXPIRE_DAYS, in seconds
    RevocationLife,  \* the TTL of a revocation, 604800 in the code
    MaxTime,         \* bound: the last moment
    MaxArrivals      \* bound: so many requests arrive

\* As configured: the TTL "matches refresh token expiration".
ASSUME TokensAssumption ==
    /\ Ticks \in Nat \ {0} /\ MaxTime \in Nat /\ MaxArrivals \in Nat
    /\ AccessLife \in Nat \ {0} /\ AccessLife <= RefreshLife
    /\ RefreshLife \in Nat \ {0} /\ RefreshLife <= RevocationLife
    /\ RevocationLife \in Nat

VARIABLES
    now,        \* the time
    issued,     \* pair: its user and time of issue
    password,   \* user: the number of the password that is committed
    blacklist,  \* Redis, token: when its key blacklist:jti goes, 0 for no key
    revoked,    \* Redis, user: user:revoked_before and when that key goes
    job,        \* request: what it does
    arrived,    \* the number of requests so far
    spent,      \* observed: the tokens that were put on the blacklist
    cutoff      \* observed: the revocation of each user's last committed change

vars == <<now, issued, password, blacklist, revoked, job, arrived, spent, cutoff>>

-----------------------------------------------------------------------------
(* Tokens and time.                                                        *)

Access(p) == [type |-> "access", pair |-> p]
Refresh(p) == [type |-> "refresh", pair |-> p]
Tokens == {Access(p) : p \in Pairs} \cup {Refresh(p) : p \in Pairs}

\* Claims and timestamps are whole seconds.
Second(moment) == moment \div Ticks

Issued(t) == issued[t.pair] # NoPair
Owner(t) == issued[t.pair].user
Iat(t) == issued[t.pair].iat
Exp(t) == Iat(t) + IF t.type = "access" THEN AccessLife ELSE RefreshLife

\* decode_token: the second of exp is still good.
Decodes(t) == Issued(t) /\ Second(now) <= Exp(t)

\* Seeded fault: a key lives for one second at least.
TtlAtLeastOne(t) == Max({1, (Exp(t) * Ticks - now) \div Ticks})

\* Seeded fault: one second less.
TtlShort(t) == Max({0, Exp(t) - Second(now) - 1})

\* The TTL of a blacklist key: the rest of the token's life, in whole seconds.
Ttl(t) == Max({0, (Exp(t) * Ticks - now) \div Ticks})

Blacklisted(t) == now < blacklist[t]

\* iat < revoked_before.
Outdated(t) == LET v == revoked[Owner(t)] IN now < v.gone /\ Iat(t) < v.before

-----------------------------------------------------------------------------
(* Requests.                                                               *)

\* token: the one the request is made with.  other: the token in the body of a logout.
\* password: the one that the row of the user had, or that the token descends from.
\* spent, revoked: whether the token had been put on the blacklist, or was of an older
\* password and from before the cutoff, when the request arrived.  skipped: whether Redis
\* failed during the check.  before: the revocation that the request has written.
NoJob == [op |-> "none", step |-> "done", token |-> NoToken, other |-> NoToken,
          user |-> NoToken, password |-> 0, spent |-> FALSE, revoked |-> FALSE,
          skipped |-> FALSE, before |-> 0]

Init ==
    /\ now = 0
    /\ issued = [p \in Pairs |-> NoPair]
    /\ password = [u \in Users |-> 0]
    /\ blacklist = [t \in Tokens |-> 0]
    /\ revoked = [u \in Users |-> [before |-> 0, gone |-> 0]]
    /\ job = [r \in Requests |-> NoJob]
    /\ arrived = 0
    /\ spent = {}
    /\ cutoff = [u \in Users |-> 0]

At(r, ops, step) == job[r].op \in ops /\ job[r].step = step

redis == <<blacklist, revoked, spent>>
database == <<issued, password, cutoff>>

Begin(r, new) ==
    /\ job[r].op = "none"
    /\ arrived < MaxArrivals
    /\ arrived' = arrived + 1
    /\ job' = [job EXCEPT ![r] = new]
    /\ UNCHANGED <<now, redis, database>>

\* login_user reads the row of the user and verifies the password with it.
LoginUser(r, u) ==
    Begin(r, [NoJob EXCEPT !.op = "login", !.step = "issue", !.user = u,
                           !.password = password[u]])

\* A request arrives with token t.
Arrive(r, op, t, other) ==
    /\ Decodes(t)
    /\ Begin(r, [NoJob EXCEPT !.op = op, !.step = "blacklist", !.token = t, !.other = other,
                              !.user = Owner(t), !.password = issued[t.pair].password,
                              !.spent = t \in spent,
                              !.revoked = /\ issued[t.pair].password < password[Owner(t)]
                                          /\ Iat(t) < cutoff[Owner(t)]])

\* refresh_tokens takes a refresh token.
PresentRefresh(r, t) ==
    /\ t.type = "refresh"
    /\ Arrive(r, "refresh", t, NoToken)

\* _resolve_auth, for every other endpoint, takes an access token.  The body of a logout
\* may have a token of either type.
PresentAccess(r, op, t, other) ==
    /\ op \in {"logout", "change", "use"}
    /\ t.type = "access"
    /\ other # NoToken => op = "logout" /\ Issued(other)
    /\ Arrive(r, op, t, other)

CheckBlacklist(r) ==
    /\ job[r].step = "blacklist"
    /\ ~Blacklisted(job[r].token)
    /\ job' = [job EXCEPT ![r].step = "revoked"]
    /\ UNCHANGED <<now, redis, database, arrived>>

CheckRevoked(r) ==
    /\ job[r].step = "revoked"
    /\ ~Outdated(job[r].token)
    /\ job' = [job EXCEPT ![r].step = "user"]
    /\ UNCHANGED <<now, redis, database, arrived>>

\* Redis is not to be reached: what is left of the check is passed over.
SkipChecks(r) ==
    /\ job[r].step \in {"blacklist", "revoked"}
    /\ job' = [job EXCEPT ![r].step = "user", ![r].skipped = TRUE]
    /\ UNCHANGED <<now, redis, database, arrived>>

\* The user is there and active: the handler begins.
LoadUser(r) ==
    /\ job[r].step = "user"
    /\ job' = [job EXCEPT ![r].step = "handler"]
    /\ UNCHANGED <<now, redis, database, arrived>>

-----------------------------------------------------------------------------
(* Handlers.                                                               *)

\* redis.set of the key of token t.  Redis refuses a TTL of 0.
SetKey(t) ==
    /\ Ttl(t) > 0
    /\ blacklist' = [blacklist EXCEPT ![t] = now + Ttl(t) * Ticks]
    /\ spent' = spent \cup {t}
    /\ UNCHANGED revoked

\* logout_user, and the rotation in refresh_tokens.  The TTL and the SET are of one
\* moment.  Without the key the request fails, see Leave.
Consume(r) ==
    /\ At(r, {"refresh", "logout"}, "handler")
    /\ SetKey(job[r].token)
    /\ job' = [job EXCEPT ![r].step = IF job[r].op = "refresh" THEN "issue" ELSE "other"]
    /\ UNCHANGED <<now, database, arrived>>

\* A refresh token in the body of a logout: what goes wrong with it is ignored.
ConsumeOther(r) ==
    LET t == job[r].other IN
    /\ At(r, {"logout"}, "other")
    /\ \/ t # NoToken /\ Decodes(t) /\ t.type = "refresh" /\ SetKey(t)
       \/ UNCHANGED redis
    /\ job' = [job EXCEPT ![r] = NoJob]
    /\ UNCHANGED <<now, database, arrived>>

\* create_token_pair, after a login or a rotation.
CreateTokenPair(r, p) ==
    /\ job[r].step = "issue"
    /\ issued[p] = NoPair
    /\ issued' = [issued EXCEPT ![p] = [user |-> job[r].user, iat |-> Second(now),
                                        password |-> job[r].password]]
    /\ job' = [job EXCEPT ![r] = NoJob]
    /\ UNCHANGED <<now, redis, password, cutoff, arrived>>

\* Seeded fault: only the tokens of earlier seconds than the last are revoked.
RevokeEarlier(r) ==
    LET u == job[r].user IN
    /\ At(r, {"change"}, "handler")
    /\ revoked' = [revoked EXCEPT ![u] = [before |-> Second(now) - 1,
                                          gone |-> now + RevocationLife * Ticks]]
    /\ job' = [job EXCEPT ![r].step = "commit", ![r].before = Second(now)]
    /\ UNCHANGED <<now, blacklist, spent, database, arrived>>

\* change_password_user: the sessions of the user are revoked before the new
\* password is committed.
Revoke(r) ==
    LET u == job[r].user IN
    /\ At(r, {"change"}, "handler")
    /\ revoked' = [revoked EXCEPT ![u] = [before |-> Second(now),
                                          gone |-> now + RevocationLife * Ticks]]
    /\ job' = [job EXCEPT ![r].step = "commit", ![r].before = Second(now)]
    /\ UNCHANGED <<now, blacklist, spent, database, arrived>>

\* Redis is not to be reached: the password is changed all the same.
RevokeFails(r) ==
    /\ At(r, {"change"}, "handler")
    /\ job' = [job EXCEPT ![r].step = "commit"]
    /\ UNCHANGED <<now, redis, database, arrived>>

CommitPassword(r) ==
    LET u == job[r].user IN
    /\ At(r, {"change"}, "commit")
    /\ password' = [password EXCEPT ![u] = @ + 1]
    /\ cutoff' = [cutoff EXCEPT ![u] = Max({@, job[r].before})]
    /\ job' = [job EXCEPT ![r] = NoJob]
    /\ UNCHANGED <<now, issued, redis, arrived>>

\* The request is refused, fails, or its client goes; any other handler ends.
Leave(r) ==
    /\ job[r].op # "none"
    /\ job' = [job EXCEPT ![r] = NoJob]
    /\ UNCHANGED <<now, redis, database, arrived>>

Tick ==
    /\ now < MaxTime
    /\ now' = now + 1
    /\ UNCHANGED <<redis, database, job, arrived>>

Next ==
    \/ \E r \in Requests :
         \/ \E u \in Users : LoginUser(r, u)
         \/ \E t \in Tokens :
              \/ PresentRefresh(r, t)
              \/ \E op \in {"logout", "change", "use"}, other \in Tokens \cup {NoToken} :
                    PresentAccess(r, op, t, other)
         \/ CheckBlacklist(r) \/ CheckRevoked(r) \/ SkipChecks(r) \/ LoadUser(r)
         \/ Consume(r) \/ ConsumeOther(r)
         \/ \E p \in Pairs : CreateTokenPair(r, p)
         \/ Revoke(r) \/ RevokeFails(r) \/ CommitPassword(r)
         \/ Leave(r)
    \/ Tick

Spec == Init /\ [][Next]_vars

-----------------------------------------------------------------------------
(* Properties.                                                             *)

Pair == [user : Users, iat : 0 .. Second(MaxTime), password : 0 .. MaxArrivals]

\* No key of the blacklist outlives its token.
TypeOK ==
    /\ now \in 0 .. MaxTime
    /\ \A p \in Pairs : issued[p] \in Pair \cup {NoPair}
    /\ \A u \in Users : /\ password[u] \in 0 .. MaxArrivals
                         /\ revoked[u].before \in 0 .. Second(MaxTime)
                         /\ cutoff[u] \in 0 .. revoked[u].before
    /\ \A t \in Tokens : blacklist[t] # 0 => Issued(t) /\ blacklist[t] <= Exp(t) * Ticks
    /\ \A r \in Requests : /\ job[r].token \in Tokens \cup {NoToken}
                            /\ job[r].other \in Tokens \cup {NoToken}
                            /\ job[r].user \in Users \cup {NoToken}
    /\ spent \subseteq Tokens

\* Session r passes from one step to the other.
Passes(r, from, to) == job[r].step = from /\ job'[r].step = to

\* "Blacklists the consumed refresh token (rotation - one-time use)": checked and
\* consumed in two calls, a refresh token is exchanged again only by a request
\* that had begun before, or while Redis fails; also in the last second of its
\* life, when its key is gone and it still decodes, because Redis then refuses
\* the key.
ExchangedOnce ==
    [][\A r \in Requests :
         job[r].op = "refresh" /\ Passes(r, "handler", "issue") =>
            ~job[r].spent \/ job[r].skipped]_vars

\* "Invalidate the current access token": after a logout no request is let in with
\* its token, except while Redis fails and in the last second before exp and after,
\* when the key, whose TTL is rounded down, may be gone.
LoggedOutStaysOut ==
    [][\A r \in Requests :
         job[r].op # "refresh" /\ Passes(r, "user", "handler") /\ job[r].spent =>
            job[r].skipped \/ now > (Exp(job[r].token) - 1) * Ticks]_vars

\* "Invalidate all active sessions globally": once a new password is committed, no
\* token of an older password is let in or exchanged that was issued before the
\* second of the revocation, unless Redis failed; the revocation lasts as long as
\* the oldest refresh token, to the second, so that only a token that has expired
\* since the request came can slip through.
RevokedStaysOut ==
    [][\A r \in Requests :
         Passes(r, "user", "handler") /\ job[r].revoked =>
            job[r].skipped \/ Second(now) > Exp(job[r].token)]_vars

\* "The old refresh token is immediately invalidated (token rotation - it cannot be
\* reused)": no request that finds Redis exchanges one that is spent by then.  The code
\* does not keep it: two requests look it up before either consumes it.
NeverReused ==
    [][\A r \in Requests :
         job[r].op = "refresh" /\ Passes(r, "handler", "issue") =>
            job[r].token \notin spent \/ job[r].skipped]_vars
=============================================================================
