----------------------------- MODULE TokensProofs -----------------------------
(***************************************************************************)
(* Theorems about Tokens, for every set of users, pairs and requests,      *)
(* every length of a second, of the lives of the tokens and of the         *)
(* revocation that is configured as TokensAssumption says.                 *)
(***************************************************************************)
EXTENDS Tokens, FiniteSetTheorems, TLAPS

PairRec == [user : Users, iat : Nat, password : Nat]

TokenOps == {"refresh", "logout", "change", "use"}

JobRec ==
    [op : TokenOps \cup {"none", "login"},
     step : {"done", "issue", "blacklist", "revoked", "user", "handler", "other", "commit"},
     token : Tokens \cup {NoToken}, other : Tokens \cup {NoToken},
     user : Users \cup {NoToken}, password : Nat, spent : BOOLEAN, revoked : BOOLEAN,
     skipped : BOOLEAN, before : Nat]

Types ==
    /\ now \in 0 .. MaxTime
    /\ issued \in [Pairs -> PairRec \cup {NoPair}]
    /\ password \in [Users -> Nat]
    /\ blacklist \in [Tokens -> Nat]
    /\ revoked \in [Users -> [before : Nat, gone : Nat]]
    /\ job \in [Requests -> JobRec]
    /\ arrived \in 0 .. MaxArrivals
    /\ spent \subseteq Tokens
    /\ cutoff \in [Users -> Nat]

\* The requests in progress.
Going == {r \in Requests : job[r].op # "none"}

\* Every change of a password is a request that has arrived and is over.
CountsOK ==
    /\ IsFiniteSet(Going)
    /\ \A u \in Users : password[u] + Cardinality(Going) <= arrived

\* A pair was issued earlier, of a password that there was.
PairOK(p) ==
    issued[p] # NoPair =>
        issued[p].iat <= Second(now) /\ issued[p].password <= password[issued[p].user]

\* The key of a token goes with the token or before it, but not a second before it.
KeyOK(t) ==
    /\ blacklist[t] # 0 => Issued(t) /\ blacklist[t] <= Exp(t) * Ticks
    /\ t \in spent => Issued(t) /\ blacklist[t] > (Exp(t) - 1) * Ticks

\* A revocation is kept for its whole life, to the second.
RevokedOK(u) ==
    /\ cutoff[u] <= revoked[u].before
    /\ revoked[u].before <= Second(now)
    /\ revoked[u].before > 0 =>
         revoked[u].gone >= (revoked[u].before + RevocationLife) * Ticks

\* The steps of the requests, and what they know.
StepsOK(r) ==
    /\ job[r].op = "login" => job[r].step = "issue"
    /\ job[r].step = "issue" => job[r].op \in {"login", "refresh"}
    /\ job[r].step \in {"blacklist", "revoked", "user", "handler", "other", "commit"} =>
         job[r].op \in TokenOps
    /\ job[r].op # "none" =>
         /\ job[r].user \in Users /\ job[r].password <= password[job[r].user]
         /\ job[r].before <= revoked[job[r].user].before
    /\ job[r].op \in TokenOps =>
         /\ job[r].token \in Tokens /\ Issued(job[r].token)
         /\ job[r].user = Owner(job[r].token)
         /\ job[r].spent => job[r].token \in spent
         /\ job[r].revoked => Iat(job[r].token) < cutoff[job[r].user]

\* Who has passed a check with a token that should not pass is late.
ChecksOK(r) ==
    /\ job[r].step \in {"revoked", "user", "handler"} /\ job[r].spent /\ ~job[r].skipped =>
         now > (Exp(job[r].token) - 1) * Ticks
    /\ job[r].step \in {"user", "handler"} /\ job[r].revoked /\ ~job[r].skipped =>
         Second(now) > Exp(job[r].token)

JobOK(r) == StepsOK(r) /\ ChecksOK(r)

IInv ==
    /\ Types
    /\ CountsOK
    /\ \A p \in Pairs : PairOK(p)
    /\ \A t \in Tokens : KeyOK(t)
    /\ \A u \in Users : RevokedOK(u)
    /\ \A r \in Requests : JobOK(r)

-----------------------------------------------------------------------------
(* Seconds and lives.                                                      *)

LEMMA DivFacts ==
    ASSUME NEW T \in Nat \ {0}, NEW m \in Int
    PROVE  m \div T \in Int /\ T * (m \div T) <= m /\ m < T * (m \div T) + T
  OBVIOUS

LEMMA Products ==
    ASSUME NEW T \in Nat \ {0}, NEW a \in Int, NEW b \in Int
    PROVE  /\ T * a \in Int /\ T * b \in Int
           /\ a <= b => T * a <= T * b
           /\ a < b => T * a + T <= T * b
  <1>1. a <= b => T * a <= T * b
    OBVIOUS
  <1>2. a < b => T * (b - a - 1) >= 0
    OBVIOUS
  <1>3. a < b => T * a + T <= T * b
    BY <1>2
  <1> QED
    BY <1>1, <1>3

LEMMA DivMonotone ==
    ASSUME NEW T \in Nat \ {0}, NEW m \in Int, NEW n \in Int, m <= n
    PROVE  m \div T <= n \div T
  BY DivFacts, Products

\* A moment is before a second or at its start, or in it.
LEMMA Moments ==
    ASSUME NEW T \in Nat \ {0}, NEW m \in Nat, NEW e \in Int
    PROVE  /\ m \div T \in Nat
           /\ m \div T >= e <=> m >= e * T
  <1>1. m \div T \in Int /\ T * (m \div T) <= m /\ m < T * (m \div T) + T
    BY DivFacts
  <1>2. m \div T >= e => m >= e * T
    BY <1>1, Products
  <1>3. m >= e * T => m \div T >= e
    <2> SUFFICES ASSUME m >= e * T, m \div T < e
                 PROVE  FALSE
      BY <1>1
    <2>1. T * (m \div T) + T <= T * e
      BY <1>1, Products
    <2>2. T * e = e * T /\ T * e \in Int
      OBVIOUS
    <2> QED
      BY <1>1, <2>1, <2>2
  <1>4. m \div T \in Nat
    OBVIOUS
  <1> QED
    BY <1>1, <1>2, <1>3, <1>4

LEMMA MaxOfTwo ==
    ASSUME NEW a \in Int, NEW b \in Int
    PROVE  Max({a, b}) = IF a >= b THEN a ELSE b
  <1> DEFINE x == IF a >= b THEN a ELSE b
             P(z) == \A y \in {a, b} : z >= y
  <1>1. x \in {a, b} /\ P(x) /\ \A z \in {a, b} : P(z) => z = x
    OBVIOUS
  <1>2. Max({a, b}) = CHOOSE z \in {a, b} : P(z)
    BY DEF Max
  <1> HIDE DEF x, P
  <1>3. (CHOOSE z \in {a, b} : P(z)) = x
    BY <1>1
  <1> QED
    BY <1>2, <1>3 DEF x

LEMMA TokenFacts ==
    ASSUME NEW t \in Tokens
    PROVE  t.pair \in Pairs /\ t.type \in {"access", "refresh"}
  BY DEF Tokens, Access, Refresh

LEMMA ExpFacts ==
    ASSUME Types, NEW t \in Tokens, Issued(t)
    PROVE  /\ Owner(t) \in Users /\ Iat(t) \in Nat /\ Exp(t) \in Nat
           /\ Iat(t) <= Exp(t) /\ Exp(t) <= Iat(t) + RefreshLife
           /\ issued[t.pair] \in PairRec /\ issued[t.pair].password \in Nat
  <1>1. issued[t.pair] \in PairRec
    BY TokenFacts DEF Types, Issued
  <1>2. Owner(t) \in Users /\ Iat(t) \in Nat /\ issued[t.pair].password \in Nat
    BY <1>1 DEF PairRec, Owner, Iat
  <1> QED
    BY <1>1, <1>2, TokensAssumption DEF Exp

\* A key that Redis takes goes within the last second of the token.
LEMMA TtlFacts ==
    ASSUME Types, NEW t \in Tokens, Issued(t), Ttl(t) > 0
    PROVE  /\ Ttl(t) \in Nat /\ now + Ttl(t) * Ticks \in Nat
           /\ now + Ttl(t) * Ticks <= Exp(t) * Ticks
           /\ now + Ttl(t) * Ticks > (Exp(t) - 1) * Ticks
           /\ now <= (Exp(t) - 1) * Ticks
  <1> DEFINE e == Exp(t)
             q == (e * Ticks - now) \div Ticks
  <1>1. e \in Nat /\ now \in Nat /\ Ticks \in Nat \ {0} /\ e * Ticks - now \in Int
    BY ExpFacts, TokensAssumption DEF Types
  <1>2. q \in Int /\ Ticks * q <= e * Ticks - now /\ e * Ticks - now < Ticks * q + Ticks
    BY <1>1, DivFacts
  <1>3. Ttl(t) = IF 0 >= q THEN 0 ELSE q
    BY <1>2, MaxOfTwo DEF Ttl
  <1> HIDE DEF q, e
  <1>4. Ttl(t) = q /\ q >= 1
    BY <1>2, <1>3
  <1>5. Ticks * q >= Ticks * 1 /\ q * Ticks = Ticks * q /\ Ticks * q \in Int
    BY <1>1, <1>2, <1>4, Products
  <1>6. (e - 1) * Ticks = e * Ticks - Ticks /\ e * Ticks \in Int
    BY <1>1
  <1> QED
    BY <1>1, <1>2, <1>4, <1>5, <1>6 DEF e

-----------------------------------------------------------------------------
(* What only grows.                                                        *)

Grows ==
    /\ now <= now'
    /\ \A p \in Pairs : issued[p] # NoPair => issued'[p] = issued[p]
    /\ \A u \in Users : /\ password[u] <= password'[u] /\ cutoff[u] <= cutoff'[u]
                        /\ revoked[u].before <= revoked'[u].before
    /\ spent \subseteq spent'

LEMMA SecondType ==
    ASSUME Types
    PROVE  /\ Second(now) \in Nat
           /\ \A e \in Int : Second(now) >= e <=> now >= e * Ticks
  <1>1. now \in Nat /\ Ticks \in Nat \ {0} /\ 0 \in Int
    BY TokensAssumption DEF Types
  <1> QED
    BY <1>1, Moments DEF Second

LEMMA SecondGrows ==
    ASSUME Types, Types', Grows
    PROVE  Second(now) \in Nat /\ Second(now)' \in Nat /\ Second(now) <= Second(now)'
  <1>1. now \in Nat /\ now' \in Nat /\ now <= now' /\ Ticks \in Nat \ {0}
    BY TokensAssumption DEF Types, Grows
  <1>2. PICK m \in Nat, n \in Nat, T \in Nat \ {0} : m = now /\ n = now' /\ T = Ticks
    BY <1>1
  <1>3. m \div T \in Nat /\ n \div T \in Nat
    OBVIOUS
  <1>4. m \in Int /\ n \in Int /\ m <= n
    BY <1>1, <1>2
  <1>5. m \div T <= n \div T
    BY <1>4, DivMonotone
  <1>6. Second(now) = m \div T /\ Second(now)' = n \div T
    BY <1>2 DEF Second
  <1> QED
    BY <1>3, <1>5, <1>6

LEMMA IssuedKept ==
    ASSUME Grows, NEW t \in Tokens, Issued(t)
    PROVE  Issued(t)' /\ Owner(t)' = Owner(t) /\ Iat(t)' = Iat(t) /\ Exp(t)' = Exp(t)
  <1>1. issued'[t.pair] = issued[t.pair]
    BY TokenFacts DEF Issued, Grows
  <1> QED
    BY <1>1 DEF Issued, Owner, Iat, Exp

LEMMA OwnerKept ==
    ASSUME IInv, Types', Grows, NEW r \in Requests, job[r].op # "none"
    PROVE  /\ job[r].user \in Users /\ job[r].password <= password'[job[r].user]
           /\ job[r].before <= revoked'[job[r].user].before
  <1>1. Types /\ StepsOK(r) /\ job[r] \in JobRec
    BY DEF IInv, JobOK, Types
  <1>2. /\ job[r].user \in Users /\ job[r].password <= password[job[r].user]
        /\ job[r].before <= revoked[job[r].user].before
    BY <1>1 DEF StepsOK
  <1>3. /\ password[job[r].user] \in Nat /\ password'[job[r].user] \in Nat
        /\ revoked[job[r].user].before \in Nat /\ revoked'[job[r].user].before \in Nat
        /\ job[r].password \in Nat /\ job[r].before \in Nat
    BY <1>1, <1>2 DEF Types, JobRec
  <1>4. /\ password[job[r].user] <= password'[job[r].user]
        /\ revoked[job[r].user].before <= revoked'[job[r].user].before
    BY <1>2 DEF Grows
  <1> QED
    BY <1>2, <1>3, <1>4

LEMMA TokenKept ==
    ASSUME IInv, Types', Grows, NEW r \in Requests, job[r].op \in TokenOps,
           NEW t, t = job[r].token
    PROVE  /\ t \in Tokens /\ Issued(t) /\ Issued(t)' /\ job[r].user = Owner(t)'
           /\ Exp(t)' = Exp(t) /\ Exp(t) \in Nat
           /\ job[r].spent => t \in spent'
           /\ job[r].revoked => Iat(t)' < cutoff'[job[r].user]
  <1>1. Types /\ StepsOK(r)
    BY DEF IInv, JobOK
  <1>2. /\ t \in Tokens /\ Issued(t) /\ job[r].user = Owner(t)
        /\ job[r].spent => t \in spent
        /\ job[r].revoked => Iat(t) < cutoff[job[r].user]
    BY <1>1 DEF StepsOK
  <1>3. Issued(t)' /\ Owner(t)' = Owner(t) /\ Iat(t)' = Iat(t) /\ Exp(t)' = Exp(t)
    BY <1>2, IssuedKept
  <1>4. Iat(t) \in Nat /\ Exp(t) \in Nat /\ Owner(t) \in Users
    BY <1>1, <1>2, ExpFacts
  <1>5. /\ cutoff[Owner(t)] <= cutoff'[Owner(t)]
        /\ cutoff[Owner(t)] \in Nat /\ cutoff'[Owner(t)] \in Nat
    BY <1>1, <1>4 DEF Grows, Types
  <1> QED
    BY <1>2, <1>3, <1>4, <1>5 DEF Grows

LEMMA JobKept ==
    ASSUME IInv, Types', Grows, NEW r \in Requests, job'[r] = job[r]
    PROVE  JobOK(r)'
  <1>1. Types /\ StepsOK(r) /\ ChecksOK(r) /\ job[r] \in JobRec
    BY DEF IInv, JobOK, Types
  <1>2. ASSUME job[r].op # "none"
        PROVE  /\ job[r].user \in Users /\ job[r].password <= password'[job[r].user]
               /\ job[r].before <= revoked'[job[r].user].before
    BY <1>2, OwnerKept
  <1>3. ASSUME job[r].op \in TokenOps, NEW t, t = job[r].token
        PROVE  /\ t \in Tokens /\ Issued(t) /\ Issued(t)' /\ job[r].user = Owner(t)'
               /\ Exp(t)' = Exp(t) /\ Exp(t) \in Nat
               /\ job[r].spent => t \in spent'
               /\ job[r].revoked => Iat(t)' < cutoff'[job[r].user]
    BY <1>3, TokenKept
  <1>4. PICK t : t = job[r].token
    OBVIOUS
  <1>5. StepsOK(r)'
    <2>1. /\ job[r].op = "login" => job[r].step = "issue"
          /\ job[r].step = "issue" => job[r].op \in {"login", "refresh"}
          /\ job[r].step \in {"blacklist", "revoked", "user", "handler", "other", "commit"} =>
               job[r].op \in TokenOps
      BY <1>1 DEF StepsOK
    <2>2. job[r].op \in TokenOps =>
             /\ t \in Tokens /\ Issued(t)' /\ job[r].user = Owner(t)'
             /\ job[r].spent => t \in spent'
             /\ job[r].revoked => Iat(t)' < cutoff'[job[r].user]
      BY <1>3, <1>4
    <2> QED
      BY <1>2, <1>4, <2>1, <2>2 DEF StepsOK, Issued, Owner, Iat
  <1>6. ASSUME job[r].op \in TokenOps
        PROVE  ChecksOK(r)'
    <2>1. Exp(t)' = Exp(t) /\ Exp(t) \in Nat
      BY <1>3, <1>4, <1>6
    <2>2. /\ now \in Nat /\ now' \in Nat /\ now <= now'
          /\ Second(now) \in Nat /\ Second(now)' \in Nat /\ Second(now) <= Second(now)'
      BY <1>1, SecondGrows DEF Types, Grows
    <2>3. (Exp(t) - 1) * Ticks \in Int
      BY <2>1, TokensAssumption
    <2>4. ASSUME job[r].step \in {"revoked", "user", "handler"}, job[r].spent, ~job[r].skipped
          PROVE  now' > (Exp(t)' - 1) * Ticks
      <3>1. now > (Exp(t) - 1) * Ticks
        BY <1>1, <1>4, <2>4 DEF ChecksOK
      <3> QED
        BY <2>1, <2>2, <2>3, <3>1
    <2>5. ASSUME job[r].step \in {"user", "handler"}, job[r].revoked, ~job[r].skipped
          PROVE  Second(now)' > Exp(t)'
      <3>1. Second(now) > Exp(t)
        BY <1>1, <1>4, <2>5 DEF ChecksOK
      <3> QED
        BY <2>1, <2>2, <3>1
    <2> QED
      BY <1>4, <2>4, <2>5 DEF ChecksOK, Exp, Iat
  <1>7. ASSUME job[r].op \notin TokenOps
        PROVE  ChecksOK(r)'
    BY <1>1, <1>7 DEF StepsOK, ChecksOK
  <1> QED
    BY <1>5, <1>6, <1>7 DEF JobOK

LEMMA PairKept ==
    ASSUME IInv, Types', Grows, NEW p \in Pairs, issued'[p] = issued[p]
    PROVE  PairOK(p)'
  <1> SUFFICES ASSUME issued[p] # NoPair
               PROVE  /\ issued[p].iat <= Second(now)'
                      /\ issued[p].password <= password'[issued[p].user]
    BY DEF PairOK
  <1>1. issued[p] \in PairRec /\ PairOK(p) /\ Types
    BY DEF IInv, Types
  <1>2. /\ issued[p].iat \in Nat /\ issued[p].password \in Nat /\ issued[p].user \in Users
        /\ issued[p].iat <= Second(now) /\ issued[p].password <= password[issued[p].user]
    BY <1>1 DEF PairRec, PairOK
  <1>3. /\ password[issued[p].user] \in Nat /\ password'[issued[p].user] \in Nat
        /\ password[issued[p].user] <= password'[issued[p].user]
    BY <1>2 DEF IInv, Types, Grows
  <1> QED
    BY <1>1, <1>2, <1>3, SecondGrows

LEMMA KeyKept ==
    ASSUME IInv, Grows, NEW t \in Tokens, blacklist'[t] = blacklist[t],
           t \in spent' => t \in spent
    PROVE  KeyOK(t)'
  <1>1. KeyOK(t)
    BY DEF IInv
  <1>2. Issued(t) => Issued(t)' /\ Exp(t)' = Exp(t)
    BY IssuedKept
  <1> QED
    BY <1>1, <1>2 DEF KeyOK

LEMMA RevokedKept ==
    ASSUME IInv, Types', Grows, NEW u \in Users, revoked'[u] = revoked[u],
           cutoff'[u] = cutoff[u]
    PROVE  RevokedOK(u)'
  <1>1. RevokedOK(u) /\ Types /\ revoked[u].before \in Nat
    BY DEF IInv, Types
  <1>2. revoked[u].before <= Second(now)'
    BY <1>1, SecondGrows DEF RevokedOK
  <1> QED
    BY <1>1, <1>2 DEF RevokedOK

-----------------------------------------------------------------------------
(* The requests in progress.                                               *)

LEMMA GoesOn ==
    ASSUME IInv, NEW r \in Requests, NEW j \in JobRec, job' = [job EXCEPT ![r] = j],
           job[r].op # "none", j.op # "none", UNCHANGED <<arrived, password>>
    PROVE  CountsOK'
  <1>1. Going' = Going
    BY DEF Going, IInv, Types
  <1> QED
    BY <1>1 DEF IInv, CountsOK

LEMMA Begins ==
    ASSUME IInv, NEW r \in Requests, NEW j \in JobRec, job' = [job EXCEPT ![r] = j],
           job[r].op = "none", j.op # "none", arrived' = arrived + 1, password' = password
    PROVE  CountsOK'
  <1>1. Going' = Going \cup {r} /\ r \notin Going
    BY DEF Going, IInv, Types
  <1>2. /\ IsFiniteSet(Going) /\ arrived \in Nat
        /\ \A u \in Users : password[u] \in Nat /\ password[u] + Cardinality(Going) <= arrived
    BY DEF IInv, CountsOK, Types
  <1>3. /\ IsFiniteSet(Going \cup {r}) /\ Cardinality(Going) \in Nat
        /\ Cardinality(Going \cup {r}) = Cardinality(Going) + 1
    BY <1>1, <1>2, FS_AddElement, FS_CardinalityType
  <1>4. ASSUME NEW u \in Users
        PROVE  password'[u] + Cardinality(Going') <= arrived'
    <2>1. password[u] \in Nat /\ password[u] + Cardinality(Going) <= arrived
      BY <1>2
    <2>2. Cardinality(Going') = Cardinality(Going) + 1
      BY <1>1, <1>3
    <2> QED
      BY <1>2, <1>3, <2>1, <2>2
  <1>5. IsFiniteSet(Going')
    BY <1>1, <1>3
  <1> QED
    BY <1>4, <1>5 DEF CountsOK

LEMMA Ends ==
    ASSUME IInv, NEW r \in Requests, job' = [job EXCEPT ![r] = NoJob], job[r].op # "none",
           arrived' = arrived
    PROVE  /\ IsFiniteSet(Going') /\ Cardinality(Going') = Cardinality(Going) - 1
           /\ Cardinality(Going) \in Nat
  <1>1. Going' = Going \ {r} /\ r \in Going
    BY DEF Going, IInv, Types, NoJob
  <1>2. IsFiniteSet(Going)
    BY DEF IInv, CountsOK
  <1> QED
    BY <1>1, <1>2, FS_RemoveElement, FS_CardinalityType

LEMMA EndsOK ==
    ASSUME IInv, NEW r \in Requests, job' = [job EXCEPT ![r] = NoJob], job[r].op # "none",
           UNCHANGED <<arrived, password>>
    PROVE  CountsOK'
  <1>1. /\ IsFiniteSet(Going') /\ Cardinality(Going') = Cardinality(Going) - 1
        /\ Cardinality(Going) \in Nat
    BY Ends
  <1>2. /\ arrived \in Nat
        /\ \A u \in Users : password[u] \in Nat /\ password[u] + Cardinality(Going) <= arrived
    BY DEF IInv, CountsOK, Types
  <1> QED
    BY <1>1, <1>2 DEF CountsOK

LEMMA Idle ==
    ASSUME NEW r, job'[r] = NoJob
    PROVE  JobOK(r)'
  <1>1. job'[r].op = "none" /\ job'[r].step = "done"
    BY DEF NoJob
  <1> QED
    BY <1>1 DEF JobOK, StepsOK, ChecksOK, TokenOps

LEMMA NoJobType == NoJob \in JobRec
  BY DEF NoJob, JobRec

\* A step of request r, that leaves the others alone.
LEMMA JobStep ==
    ASSUME IInv, NEW r \in Requests, NEW j \in JobRec, job' = [job EXCEPT ![r] = j],
           Types', Grows, CountsOK', \A p \in Pairs : PairOK(p)',
           \A t \in Tokens : KeyOK(t)', \A u \in Users : RevokedOK(u)', JobOK(r)'
    PROVE  IInv'
  <1>1. \A s \in Requests \ {r} : job'[s] = job[s]
    BY DEF IInv, Types
  <1>2. \A s \in Requests \ {r} : JobOK(s)'
    BY <1>1, JobKept
  <1> QED
    BY <1>2 DEF IInv

\* A step of request r that only changes what it knows.
LEMMA QuietStep ==
    ASSUME IInv, NEW r \in Requests, NEW j \in JobRec, job' = [job EXCEPT ![r] = j],
           UNCHANGED <<now, redis, database>>, arrived' \in 0 .. MaxArrivals, CountsOK',
           JobOK(r)'
    PROVE  IInv' /\ Grows
  <1>1. /\ now' = now /\ blacklist' = blacklist /\ revoked' = revoked /\ spent' = spent
        /\ issued' = issued /\ password' = password /\ cutoff' = cutoff
    BY DEF redis, database
  <1>2. Types'
    BY <1>1 DEF IInv, Types
  <1>3. Grows
    <2>1. /\ now \in Nat
          /\ \A u \in Users : password[u] \in Nat /\ cutoff[u] \in Nat /\ revoked[u].before \in Nat
      BY DEF IInv, Types
    <2> QED
      BY <1>1, <2>1 DEF Grows
  <1>4. /\ \A p \in Pairs : PairOK(p)'
        /\ \A t \in Tokens : KeyOK(t)'
        /\ \A u \in Users : RevokedOK(u)'
    BY <1>1, <1>2, <1>3, PairKept, KeyKept, RevokedKept
  <1> QED
    BY <1>2, <1>3, <1>4, JobStep

\* Request r goes on with the token it has.
LEMMA CarriesOn ==
    ASSUME IInv, Types', Grows, now' = now, NEW r \in Requests, NEW j \in JobRec,
           job'[r] = j, job[r].op \in TokenOps,
           j.op = job[r].op, j.user = job[r].user, j.password = job[r].password,
           j.token = job[r].token, j.spent = job[r].spent, j.revoked = job[r].revoked,
           j.before <= revoked'[j.user].before, j.step = "issue" => j.op = "refresh",
           j.step \in {"revoked", "user", "handler"} /\ j.spent /\ ~j.skipped =>
              now > (Exp(j.token) - 1) * Ticks,
           j.step \in {"user", "handler"} /\ j.revoked /\ ~j.skipped =>
              Second(now) > Exp(j.token)
    PROVE  JobOK(r)'
  <1>1. job[r].op # "none" /\ job[r].op # "login"
    BY DEF TokenOps
  <1>2. PICK t : t = job[r].token
    OBVIOUS
  <1>3. /\ t \in Tokens /\ Issued(t)' /\ job[r].user = Owner(t)'
        /\ Exp(t)' = Exp(t)
        /\ job[r].spent => t \in spent'
        /\ job[r].revoked => Iat(t)' < cutoff'[job[r].user]
    BY <1>2, TokenKept
  <1>4. job[r].user \in Users /\ job[r].password <= password'[job[r].user]
    BY <1>1, OwnerKept
  <1>5. StepsOK(r)'
    BY <1>1, <1>2, <1>3, <1>4 DEF StepsOK, Issued, Owner, Iat
  <1>6. Second(now)' = Second(now)
    BY DEF Second
  <1>7. /\ j.step \in {"revoked", "user", "handler"} /\ j.spent /\ ~j.skipped =>
             now' > (Exp(t)' - 1) * Ticks
        /\ j.step \in {"user", "handler"} /\ j.revoked /\ ~j.skipped =>
             Second(now)' > Exp(t)'
    BY <1>2, <1>3, <1>6
  <1>8. ChecksOK(r)'
    BY <1>2, <1>7 DEF ChecksOK, Exp, Iat
  <1> QED
    BY <1>5, <1>8 DEF JobOK

LEMMA Checking ==
    ASSUME IInv, NEW r \in Requests,
           job[r].step \in {"blacklist", "revoked", "user", "handler", "other", "commit"}
    PROVE  /\ job[r].op \in TokenOps /\ job[r].op # "none" /\ job[r] \in JobRec
           /\ job[r].token \in Tokens /\ Issued(job[r].token)
           /\ job[r].user = Owner(job[r].token) /\ job[r].user \in Users
           /\ job[r].spent => job[r].token \in spent
           /\ job[r].revoked => Iat(job[r].token) < cutoff[job[r].user]
           /\ job[r].before <= revoked[job[r].user].before
  <1>1. StepsOK(r) /\ job[r] \in JobRec
    BY DEF IInv, JobOK, Types
  <1>2. job[r].op \in TokenOps /\ job[r].op # "none"
    BY <1>1 DEF StepsOK, TokenOps
  <1> QED
    BY <1>1, <1>2 DEF StepsOK

\* A step of request r that only changes how far it is.
LEMMA OneStep ==
    ASSUME IInv, NEW r \in Requests, NEW j \in JobRec, job' = [job EXCEPT ![r] = j],
           UNCHANGED <<now, redis, database, arrived>>, job[r].op \in TokenOps,
           j.op = job[r].op, j.user = job[r].user, j.password = job[r].password,
           j.token = job[r].token, j.spent = job[r].spent, j.revoked = job[r].revoked,
           j.before = job[r].before, j.step # "issue",
           j.step \in {"revoked", "user", "handler"} /\ j.spent /\ ~j.skipped =>
              now > (Exp(j.token) - 1) * Ticks,
           j.step \in {"user", "handler"} /\ j.revoked /\ ~j.skipped =>
              Second(now) > Exp(j.token)
    PROVE  IInv' /\ Grows
  <1>1. /\ now' = now /\ blacklist' = blacklist /\ revoked' = revoked /\ spent' = spent
        /\ issued' = issued /\ password' = password /\ cutoff' = cutoff /\ arrived' = arrived
    BY DEF redis, database
  <1>2. Types'
    BY <1>1 DEF IInv, Types
  <1>3. Grows
    <2>1. /\ now \in Nat
          /\ \A u \in Users : password[u] \in Nat /\ cutoff[u] \in Nat /\ revoked[u].before \in Nat
      BY DEF IInv, Types
    <2> QED
      BY <1>1, <2>1 DEF Grows
  <1>4. job[r].op # "none" /\ j.op # "none"
    BY DEF TokenOps
  <1>5. CountsOK'
    BY <1>1, <1>4, GoesOn
  <1>6. job'[r] = j
    BY DEF IInv, Types
  <1>7. j.before <= revoked'[j.user].before
    BY <1>1, <1>2, <1>3, <1>4, OwnerKept
  <1>8. JobOK(r)'
    BY <1>1, <1>2, <1>3, <1>6, <1>7, CarriesOn
  <1>9. arrived' \in 0 .. MaxArrivals
    BY <1>1 DEF IInv, Types
  <1> QED
    BY <1>1, <1>5, <1>8, <1>9, QuietStep

LEMMA CheckBlacklistStep ==
    ASSUME IInv, NEW r \in Requests, CheckBlacklist(r)
    PROVE  IInv'
  <1> DEFINE j == [job[r] EXCEPT !.step = "revoked"]
  <1>1. /\ job[r].step = "blacklist" /\ ~Blacklisted(job[r].token)
        /\ job' = [job EXCEPT ![r] = j] /\ UNCHANGED <<now, redis, database, arrived>>
    BY DEF CheckBlacklist
  <1>2. /\ job[r].op \in TokenOps /\ job[r] \in JobRec
        /\ job[r].token \in Tokens /\ Issued(job[r].token)
        /\ job[r].spent => job[r].token \in spent
    BY <1>1, Checking
  <1>3. /\ j \in JobRec /\ j.step = "revoked" /\ j.op = job[r].op /\ j.user = job[r].user
        /\ j.password = job[r].password /\ j.token = job[r].token /\ j.spent = job[r].spent
        /\ j.revoked = job[r].revoked /\ j.before = job[r].before
    BY <1>2 DEF JobRec
  <1> HIDE DEF j
  <1>4. ASSUME job[r].spent
        PROVE  now > (Exp(job[r].token) - 1) * Ticks
    <2> DEFINE t == job[r].token
    <2>1. t \in Tokens /\ t \in spent /\ Issued(t) /\ Types /\ KeyOK(t)
      BY <1>2, <1>4 DEF IInv
    <2>2. blacklist[t] > (Exp(t) - 1) * Ticks /\ ~(now < blacklist[t])
      BY <1>1, <2>1 DEF KeyOK, Blacklisted
    <2>3. now \in Nat /\ blacklist[t] \in Nat /\ (Exp(t) - 1) * Ticks \in Int
      BY <2>1, ExpFacts, TokensAssumption DEF Types
    <2> QED
      BY <2>2, <2>3
  <1> QED
    BY <1>1, <1>2, <1>3, <1>4, OneStep

LEMMA CheckRevokedStep ==
    ASSUME IInv, NEW r \in Requests, CheckRevoked(r)
    PROVE  IInv'
  <1> DEFINE j == [job[r] EXCEPT !.step = "user"]
  <1>1. /\ job[r].step = "revoked" /\ ~Outdated(job[r].token)
        /\ job' = [job EXCEPT ![r] = j] /\ UNCHANGED <<now, redis, database, arrived>>
    BY DEF CheckRevoked
  <1>2. /\ job[r].op \in TokenOps /\ job[r] \in JobRec
        /\ job[r].token \in Tokens /\ Issued(job[r].token)
        /\ job[r].user = Owner(job[r].token) /\ job[r].user \in Users
        /\ job[r].revoked => Iat(job[r].token) < cutoff[job[r].user]
    BY <1>1, Checking
  <1>3. /\ j \in JobRec /\ j.step = "user" /\ j.op = job[r].op /\ j.user = job[r].user
        /\ j.password = job[r].password /\ j.token = job[r].token /\ j.spent = job[r].spent
        /\ j.revoked = job[r].revoked /\ j.before = job[r].before /\ j.skipped = job[r].skipped
    BY <1>2 DEF JobRec
  <1> HIDE DEF j
  <1>4. job[r].spent /\ ~job[r].skipped => now > (Exp(job[r].token) - 1) * Ticks
    BY <1>1 DEF IInv, JobOK, ChecksOK
  <1>5. ASSUME job[r].revoked
        PROVE  Second(now) > Exp(job[r].token)
    <2>1. PICK t : t = job[r].token
      OBVIOUS
    <2>2. PICK u : u = Owner(t)
      OBVIOUS
    <2>3. t \in Tokens /\ Issued(t) /\ u \in Users /\ Types /\ RevokedOK(u)
      BY <1>2, <2>1, <2>2 DEF IInv
    <2>4. Iat(t) \in Nat /\ Exp(t) \in Nat /\ Exp(t) <= Iat(t) + RefreshLife
      BY <2>3, ExpFacts
    <2>5. Iat(t) < cutoff[u] /\ cutoff[u] <= revoked[u].before
      BY <1>2, <1>5, <2>1, <2>2, <2>3 DEF RevokedOK
    <2>6. /\ cutoff[u] \in Nat /\ revoked[u].before \in Nat /\ revoked[u].gone \in Nat
          /\ now \in Nat /\ Ticks \in Nat \ {0} /\ RevocationLife \in Nat
          /\ RefreshLife \in Nat /\ RefreshLife <= RevocationLife
      BY <2>3, TokensAssumption DEF Types
    <2>7. ~(now < revoked[u].gone /\ Iat(t) < revoked[u].before)
      BY <1>1, <2>1, <2>2 DEF Outdated
    <2>8. now >= revoked[u].gone /\ revoked[u].before > 0
      BY <2>4, <2>5, <2>6, <2>7
    <2>9. revoked[u].gone >= (revoked[u].before + RevocationLife) * Ticks
      BY <2>3, <2>8 DEF RevokedOK
    <2>10. PICK e \in Nat : e = revoked[u].before + RevocationLife
      BY <2>6
    <2>11. e * Ticks \in Nat /\ now >= e * Ticks
      BY <2>6, <2>8, <2>9, <2>10
    <2>12. now \div Ticks \in Nat /\ now \div Ticks >= e
      BY <2>6, <2>11, Moments
    <2>13. e > Exp(t)
      BY <2>4, <2>5, <2>6, <2>10
    <2> QED
      BY <2>1, <2>4, <2>12, <2>13 DEF Second
  <1> QED
    BY <1>1, <1>2, <1>3, <1>4, <1>5, OneStep

LEMMA SkipChecksStep ==
    ASSUME IInv, NEW r \in Requests, SkipChecks(r)
    PROVE  IInv'
  <1> DEFINE j == [job[r] EXCEPT !.step = "user", !.skipped = TRUE]
  <1>1. /\ job[r].step \in {"blacklist", "revoked"}
        /\ job' = [job EXCEPT ![r].step = "user", ![r].skipped = TRUE]
        /\ UNCHANGED <<now, redis, database, arrived>>
    BY DEF SkipChecks
  <1>2. job[r].op \in TokenOps /\ job[r] \in JobRec /\ job \in [Requests -> JobRec]
    BY <1>1, Checking DEF IInv, Types
  <1>3. job' = [job EXCEPT ![r] = j]
    BY <1>1, <1>2 DEF JobRec
  <1>4. /\ j \in JobRec /\ j.step = "user" /\ j.op = job[r].op /\ j.user = job[r].user
        /\ j.password = job[r].password /\ j.token = job[r].token /\ j.spent = job[r].spent
        /\ j.revoked = job[r].revoked /\ j.before = job[r].before /\ j.skipped
    BY <1>2 DEF JobRec
  <1> HIDE DEF j
  <1> QED
    BY <1>1, <1>2, <1>3, <1>4, OneStep

LEMMA LoadUserStep ==
    ASSUME IInv, NEW r \in Requests, LoadUser(r)
    PROVE  IInv'
  <1> DEFINE j == [job[r] EXCEPT !.step = "handler"]
  <1>1. /\ job[r].step = "user"
        /\ job' = [job EXCEPT ![r] = j] /\ UNCHANGED <<now, redis, database, arrived>>
    BY DEF LoadUser
  <1>2. job[r].op \in TokenOps /\ job[r] \in JobRec
    BY <1>1, Checking
  <1>3. /\ j \in JobRec /\ j.step = "handler" /\ j.op = job[r].op /\ j.user = job[r].user
        /\ j.password = job[r].password /\ j.token = job[r].token /\ j.spent = job[r].spent
        /\ j.revoked = job[r].revoked /\ j.before = job[r].before /\ j.skipped = job[r].skipped
    BY <1>2 DEF JobRec
  <1> HIDE DEF j
  <1>4. /\ job[r].spent /\ ~job[r].skipped => now > (Exp(job[r].token) - 1) * Ticks
        /\ job[r].revoked /\ ~job[r].skipped => Second(now) > Exp(job[r].token)
    BY <1>1 DEF IInv, JobOK, ChecksOK
  <1> QED
    BY <1>1, <1>2, <1>3, <1>4, OneStep

LEMMA RevokeFailsStep ==
    ASSUME IInv, NEW r \in Requests, RevokeFails(r)
    PROVE  IInv'
  <1> DEFINE j == [job[r] EXCEPT !.step = "commit"]
  <1>1. /\ job[r].step = "handler"
        /\ job' = [job EXCEPT ![r] = j] /\ UNCHANGED <<now, redis, database, arrived>>
    BY DEF RevokeFails, At
  <1>2. job[r].op \in TokenOps /\ job[r] \in JobRec
    BY <1>1, Checking
  <1>3. /\ j \in JobRec /\ j.step = "commit" /\ j.op = job[r].op /\ j.user = job[r].user
        /\ j.password = job[r].password /\ j.token = job[r].token /\ j.spent = job[r].spent
        /\ j.revoked = job[r].revoked /\ j.before = job[r].before
    BY <1>2 DEF JobRec
  <1> HIDE DEF j
  <1> QED
    BY <1>1, <1>2, <1>3, OneStep

LEMMA LeaveStep ==
    ASSUME IInv, NEW r \in Requests, Leave(r)
    PROVE  IInv'
  <1>1. /\ job[r].op # "none" /\ job' = [job EXCEPT ![r] = NoJob]
        /\ UNCHANGED <<now, redis, database, arrived>>
    BY DEF Leave
  <1>2. job'[r] = NoJob /\ arrived' \in 0 .. MaxArrivals
    BY <1>1 DEF IInv, Types
  <1>3. CountsOK' /\ JobOK(r)'
    BY <1>1, <1>2, EndsOK, Idle DEF database
  <1> QED
    BY <1>1, <1>2, <1>3, NoJobType, QuietStep

-----------------------------------------------------------------------------
(* Requests that arrive.                                                   *)

LEMMA LoginStep ==
    ASSUME IInv, NEW r \in Requests, NEW u \in Users, LoginUser(r, u)
    PROVE  IInv'
  <1> DEFINE j == [NoJob EXCEPT !.op = "login", !.step = "issue", !.user = u,
                                !.password = password[u]]
  <1>1. /\ job[r].op = "none" /\ arrived < MaxArrivals /\ arrived' = arrived + 1
        /\ job' = [job EXCEPT ![r] = j] /\ UNCHANGED <<now, redis, database>>
    BY DEF LoginUser, Begin
  <1>2. password[u] \in Nat /\ revoked[u].before \in Nat
    BY DEF IInv, Types
  <1>3. /\ j \in JobRec /\ j.op = "login" /\ j.step = "issue" /\ j.user = u
        /\ j.password = password[u] /\ j.before = 0
    BY <1>2 DEF JobRec, NoJob
  <1> HIDE DEF j
  <1>4. /\ password' = password /\ revoked' = revoked /\ arrived' \in 0 .. MaxArrivals
        /\ job'[r] = j
    BY <1>1, TokensAssumption DEF redis, database, IInv, Types
  <1>5. CountsOK'
    BY <1>1, <1>3, <1>4, Begins
  <1>6. JobOK(r)'
    BY <1>2, <1>3, <1>4 DEF JobOK, StepsOK, ChecksOK, TokenOps
  <1> QED
    BY <1>1, <1>3, <1>4, <1>5, <1>6, QuietStep

LEMMA ArriveStep ==
    ASSUME IInv, NEW r \in Requests, NEW op \in TokenOps, NEW t \in Tokens,
           NEW other \in Tokens \cup {NoToken}, Arrive(r, op, t, other)
    PROVE  IInv'
  <1> DEFINE p == issued[t.pair].password
             out == p < password[Owner(t)] /\ Iat(t) < cutoff[Owner(t)]
             used == t \in spent
             j == [NoJob EXCEPT !.op = op, !.step = "blacklist", !.token = t, !.other = other,
                                !.user = Owner(t), !.password = p, !.spent = used,
                                !.revoked = out]
  <1>1. /\ job[r].op = "none" /\ arrived < MaxArrivals /\ arrived' = arrived + 1
        /\ job' = [job EXCEPT ![r] = j] /\ UNCHANGED <<now, redis, database>> /\ Issued(t)
    BY DEF Arrive, Begin, Decodes
  <1>2. /\ Owner(t) \in Users /\ p \in Nat /\ out \in BOOLEAN /\ used \in BOOLEAN
    BY <1>1, ExpFacts DEF IInv
  <1>3. p <= password[Owner(t)]
    BY <1>1, TokenFacts DEF IInv, PairOK, Issued, Owner
  <1>4. revoked[Owner(t)].before \in Nat
    BY <1>2 DEF IInv, Types
  <1> HIDE DEF out, used, p
  <1>5. /\ j \in JobRec /\ j.op = op /\ j.step = "blacklist" /\ j.token = t
        /\ j.user = Owner(t) /\ j.password = p /\ j.spent = used
        /\ j.revoked = out /\ j.before = 0
    BY <1>2 DEF JobRec, NoJob
  <1> HIDE DEF j
  <1>6. /\ password' = password /\ revoked' = revoked /\ arrived' \in 0 .. MaxArrivals
        /\ job'[r] = j /\ spent' = spent /\ cutoff' = cutoff /\ issued' = issued
    BY <1>1, TokensAssumption DEF redis, database, IInv, Types
  <1>7. j.op # "none" /\ j.op # "login"
    BY <1>5 DEF TokenOps
  <1>8. CountsOK'
    BY <1>1, <1>5, <1>6, <1>7, Begins
  <1>9. (j.revoked => Iat(t) < cutoff[Owner(t)]) /\ (j.spent => t \in spent)
    BY <1>5 DEF out, used
  <1>10. Issued(t)' /\ Owner(t)' = Owner(t) /\ Iat(t)' = Iat(t)
    BY <1>1, <1>6 DEF Issued, Owner, Iat
  <1>11. StepsOK(r)'
    <2>1. j.user \in Users /\ j.password <= password'[j.user] /\ j.before <= revoked'[j.user].before
      BY <1>2, <1>3, <1>4, <1>5, <1>6
    <2>2. /\ j.token \in Tokens /\ Issued(t)' /\ j.user = Owner(t)'
          /\ j.spent => t \in spent'
          /\ j.revoked => Iat(t)' < cutoff'[j.user]
      BY <1>5, <1>6, <1>9, <1>10
    <2> QED
      BY <1>5, <1>6, <1>7, <2>1, <2>2 DEF StepsOK, Issued, Owner, Iat
  <1>12. ChecksOK(r)'
    BY <1>5, <1>6 DEF ChecksOK
  <1> QED
    BY <1>1, <1>5, <1>6, <1>8, <1>11, <1>12, QuietStep DEF JobOK

-----------------------------------------------------------------------------
(* Handlers.                                                               *)

LEMMA KeySet ==
    ASSUME IInv, NEW t \in Tokens, Issued(t), SetKey(t), UNCHANGED <<now, database, arrived>>,
           NEW r \in Requests, NEW j \in JobRec, job' = [job EXCEPT ![r] = j]
    PROVE  /\ Types' /\ Grows
           /\ \A p \in Pairs : PairOK(p)'
           /\ \A s \in Tokens : KeyOK(s)'
           /\ \A u \in Users : RevokedOK(u)'
  <1> DEFINE k == now + Ttl(t) * Ticks
  <1>1. /\ now' = now /\ issued' = issued /\ password' = password /\ cutoff' = cutoff
        /\ arrived' = arrived /\ revoked' = revoked /\ spent' = spent \cup {t}
        /\ blacklist' = [blacklist EXCEPT ![t] = k] /\ Ttl(t) > 0 /\ Types
    BY DEF database, SetKey, IInv
  <1>2. k \in Nat /\ k <= Exp(t) * Ticks /\ k > (Exp(t) - 1) * Ticks
    BY <1>1, TtlFacts
  <1> HIDE DEF k
  <1>3. Types'
    BY <1>1, <1>2 DEF Types
  <1>4. Grows
    <2>1. /\ now \in Nat
          /\ \A u \in Users : password[u] \in Nat /\ cutoff[u] \in Nat /\ revoked[u].before \in Nat
      BY <1>1 DEF Types
    <2> QED
      BY <1>1, <2>1 DEF Grows
  <1>5. KeyOK(t)'
    <2>1. Issued(t)' /\ Exp(t)' = Exp(t) /\ blacklist'[t] = k
      BY <1>1, <1>4, IssuedKept DEF Types
    <2> QED
      BY <1>2, <2>1 DEF KeyOK
  <1>6. \A s \in Tokens \ {t} : KeyOK(s)'
    BY <1>1, <1>4, KeyKept DEF Types
  <1> QED
    BY <1>1, <1>3, <1>4, <1>5, <1>6, PairKept, RevokedKept

LEMMA ConsumeStep ==
    ASSUME IInv, NEW r \in Requests, Consume(r)
    PROVE  IInv'
  <1> DEFINE j == [job[r] EXCEPT !.step = IF job[r].op = "refresh" THEN "issue" ELSE "other"]
  <1>1. /\ job[r].op \in {"refresh", "logout"} /\ job[r].step = "handler"
        /\ SetKey(job[r].token) /\ job' = [job EXCEPT ![r] = j]
        /\ UNCHANGED <<now, database, arrived>>
    BY DEF Consume, At
  <1>2. /\ job[r].op \in TokenOps /\ job[r].op # "none" /\ job[r] \in JobRec
        /\ job[r].token \in Tokens /\ Issued(job[r].token)
        /\ job[r].before <= revoked[job[r].user].before
    BY <1>1, Checking
  <1>3. /\ j \in JobRec /\ j.step \in {"issue", "other"} /\ j.op = job[r].op
        /\ j.user = job[r].user /\ j.password = job[r].password /\ j.token = job[r].token
        /\ j.spent = job[r].spent /\ j.revoked = job[r].revoked /\ j.before = job[r].before
        /\ j.step = "issue" => j.op = "refresh"
    BY <1>2 DEF JobRec
  <1> HIDE DEF j
  <1>4. /\ Types' /\ Grows
        /\ \A p \in Pairs : PairOK(p)'
        /\ \A s \in Tokens : KeyOK(s)'
        /\ \A u \in Users : RevokedOK(u)'
    BY <1>1, <1>2, <1>3, KeySet
  <1>5. job'[r] = j /\ now' = now /\ revoked' = revoked
    BY <1>1 DEF IInv, Types, SetKey
  <1>6. CountsOK'
    BY <1>1, <1>2, <1>3, GoesOn DEF database
  <1>7. JobOK(r)'
    BY <1>2, <1>3, <1>4, <1>5, CarriesOn
  <1> QED
    BY <1>1, <1>3, <1>4, <1>6, <1>7, JobStep

LEMMA ConsumeOtherStep ==
    ASSUME IInv, NEW r \in Requests, ConsumeOther(r)
    PROVE  IInv'
  <1>1. /\ job[r].op = "logout" /\ job' = [job EXCEPT ![r] = NoJob]
        /\ UNCHANGED <<now, database, arrived>>
    BY DEF ConsumeOther, At
  <1>2. job'[r] = NoJob /\ job[r].other \in Tokens \cup {NoToken}
    BY <1>1 DEF IInv, Types, JobRec
  <1>3. CountsOK' /\ JobOK(r)'
    BY <1>1, <1>2, EndsOK, Idle DEF database
  <1>4. CASE UNCHANGED redis
    <2>1. arrived' \in 0 .. MaxArrivals
      BY <1>1 DEF IInv, Types
    <2> QED
      BY <1>1, <1>3, <1>4, <2>1, NoJobType, QuietStep
  <1>5. CASE job[r].other # NoToken /\ Decodes(job[r].other) /\ SetKey(job[r].other)
    <2>1. job[r].other \in Tokens /\ Issued(job[r].other)
      BY <1>2, <1>5 DEF Decodes
    <2>2. /\ Types' /\ Grows
          /\ \A p \in Pairs : PairOK(p)'
          /\ \A s \in Tokens : KeyOK(s)'
          /\ \A u \in Users : RevokedOK(u)'
      BY <1>1, <1>5, <2>1, NoJobType, KeySet
    <2> QED
      BY <1>1, <1>3, <2>2, NoJobType, JobStep
  <1> QED
    BY <1>4, <1>5 DEF ConsumeOther

LEMMA CreateStep ==
    ASSUME IInv, NEW r \in Requests, NEW p \in Pairs, CreateTokenPair(r, p)
    PROVE  IInv'
  <1> DEFINE n == [user |-> job[r].user, iat |-> Second(now), password |-> job[r].password]
  <1>1. /\ job[r].step = "issue" /\ issued[p] = NoPair /\ issued' = [issued EXCEPT ![p] = n]
        /\ job' = [job EXCEPT ![r] = NoJob] /\ now' = now /\ blacklist' = blacklist
        /\ revoked' = revoked /\ spent' = spent /\ password' = password /\ cutoff' = cutoff
        /\ arrived' = arrived
    BY DEF CreateTokenPair, redis
  <1>2. Types /\ StepsOK(r) /\ job[r] \in JobRec /\ now \in Nat
    BY DEF IInv, JobOK, Types
  <1>3. job[r].op # "none" /\ job[r].user \in Users /\ job[r].password <= password[job[r].user]
    BY <1>1, <1>2 DEF StepsOK
  <1>4. Second(now) \in Nat /\ job[r].password \in Nat /\ password[job[r].user] \in Nat
    BY <1>2, <1>3, SecondType DEF JobRec, Types
  <1>5. /\ n \in PairRec /\ n.user = job[r].user /\ n.iat = Second(now)
        /\ n.password = job[r].password
    BY <1>3, <1>4 DEF PairRec
  <1> HIDE DEF n
  <1>6. Types'
    BY <1>1, <1>2, <1>5, NoJobType DEF Types
  <1>7. Grows
    <2>1. /\ now \in Nat
          /\ \A u \in Users : password[u] \in Nat /\ cutoff[u] \in Nat /\ revoked[u].before \in Nat
      BY <1>2 DEF Types
    <2> QED
      BY <1>1, <1>2, <2>1 DEF Grows, Types
  <1>8. PairOK(p)'
    <2>1. issued'[p] = n /\ Second(now)' = Second(now)
      BY <1>1, <1>2 DEF Types, Second
    <2> QED
      BY <1>1, <1>3, <1>4, <1>5, <2>1 DEF PairOK
  <1>9. \A q \in Pairs \ {p} : PairOK(q)'
    BY <1>1, <1>2, <1>6, <1>7, PairKept DEF Types
  <1>10. /\ \A t \in Tokens : KeyOK(t)'
         /\ \A u \in Users : RevokedOK(u)'
    BY <1>1, <1>6, <1>7, KeyKept, RevokedKept
  <1>11. CountsOK' /\ JobOK(r)'
    BY <1>1, <1>2, <1>3, EndsOK, Idle DEF Types
  <1> QED
    BY <1>1, <1>6, <1>7, <1>8, <1>9, <1>10, <1>11, NoJobType, JobStep

LEMMA RevokeStep ==
    ASSUME IInv, NEW r \in Requests, Revoke(r)
    PROVE  IInv'
  <1> DEFINE n == [before |-> Second(now), gone |-> now + RevocationLife * Ticks]
             j == [job[r] EXCEPT !.step = "commit", !.before = Second(now)]
  <1>1. PICK u : u = job[r].user
    OBVIOUS
  <1>2. /\ job[r].step = "handler"
        /\ revoked' = [revoked EXCEPT ![u] = n]
        /\ job' = [job EXCEPT ![r].step = "commit", ![r].before = Second(now)]
        /\ now' = now /\ blacklist' = blacklist /\ spent' = spent /\ issued' = issued
        /\ password' = password /\ cutoff' = cutoff /\ arrived' = arrived
    BY <1>1 DEF Revoke, At, database
  <1>3. /\ job[r].op \in TokenOps /\ job[r].op # "none" /\ job[r] \in JobRec /\ u \in Users
        /\ Types /\ job \in [Requests -> JobRec] /\ RevokedOK(u)
    BY <1>1, <1>2, Checking DEF IInv, Types
  <1>4. PICK s \in Nat : s = Second(now)
    BY <1>3, SecondType
  <1>5. s * Ticks <= now
    BY <1>3, <1>4, SecondType
  <1>6. now \in Nat /\ Ticks \in Nat \ {0} /\ RevocationLife \in Nat
    BY <1>3, TokensAssumption DEF Types
  <1>7. now + RevocationLife * Ticks \in Nat
    BY <1>6
  <1>8. (s + RevocationLife) * Ticks <= now + RevocationLife * Ticks
    <2>1. (s + RevocationLife) * Ticks = s * Ticks + RevocationLife * Ticks
      BY <1>6
    <2>2. s * Ticks \in Nat /\ RevocationLife * Ticks \in Nat
      BY <1>6
    <2> QED
      BY <1>5, <1>6, <2>1, <2>2
  <1>9. /\ n \in [before : Nat, gone : Nat] /\ n.before = s
        /\ n.gone >= (s + RevocationLife) * Ticks
    BY <1>4, <1>7, <1>8
  <1>10. job' = [job EXCEPT ![r] = j]
    BY <1>2, <1>3 DEF JobRec
  <1>11. /\ j \in JobRec /\ j.step = "commit" /\ j.op = job[r].op /\ j.user = u
         /\ j.password = job[r].password /\ j.token = job[r].token /\ j.spent = job[r].spent
         /\ j.revoked = job[r].revoked /\ j.before = s
    BY <1>1, <1>3, <1>4 DEF JobRec
  <1> HIDE DEF n, j
  <1>12. Types'
    BY <1>2, <1>3, <1>9, <1>10, <1>11 DEF Types
  <1>13. job'[r] = j /\ revoked'[u] = n /\ \A v \in Users \ {u} : revoked'[v] = revoked[v]
    BY <1>2, <1>3, <1>10 DEF Types
  <1>14. revoked[u].before <= s /\ cutoff[u] <= s
    <2>1. revoked[u].before \in Nat /\ cutoff[u] \in Nat
      BY <1>3 DEF Types
    <2> QED
      BY <1>3, <1>4, <2>1 DEF RevokedOK
  <1>15. Grows
    <2>1. \A v \in Users : /\ password[v] <= password'[v] /\ cutoff[v] <= cutoff'[v]
                           /\ revoked[v].before <= revoked'[v].before
      <3> TAKE v \in Users
      <3>1. password[v] \in Nat /\ cutoff[v] \in Nat /\ revoked[v].before \in Nat
        BY <1>3 DEF Types
      <3> QED
        BY <1>2, <1>9, <1>13, <1>14, <3>1
    <2> QED
      BY <1>2, <1>6, <2>1 DEF Grows
  <1>16. RevokedOK(u)'
    <2>1. Second(now)' = s
      BY <1>2, <1>4 DEF Second
    <2> QED
      BY <1>2, <1>9, <1>13, <1>14, <2>1 DEF RevokedOK
  <1>17. \A v \in Users \ {u} : RevokedOK(v)'
    BY <1>2, <1>12, <1>13, <1>15, RevokedKept
  <1>18. /\ \A p \in Pairs : PairOK(p)'
         /\ \A t \in Tokens : KeyOK(t)'
    BY <1>2, <1>12, <1>15, PairKept, KeyKept
  <1>19. CountsOK'
    BY <1>2, <1>3, <1>10, <1>11, GoesOn
  <1>20. JobOK(r)'
    <2>1. j.before <= revoked'[j.user].before
      BY <1>9, <1>11, <1>13
    <2> QED
      BY <1>1, <1>2, <1>3, <1>11, <1>12, <1>13, <1>15, <2>1, CarriesOn
  <1> QED
    BY <1>10, <1>11, <1>12, <1>15, <1>16, <1>17, <1>18, <1>19, <1>20, JobStep

LEMMA CommitStep ==
    ASSUME IInv, NEW r \in Requests, CommitPassword(r)
    PROVE  IInv'
  <1>1. PICK u : u = job[r].user
    OBVIOUS
  <1>2. PICK c : c = Max({cutoff[u], job[r].before})
    OBVIOUS
  <1>3. /\ job[r].step = "commit" /\ password' = [password EXCEPT ![u] = password[u] + 1]
        /\ cutoff' = [cutoff EXCEPT ![u] = c] /\ job' = [job EXCEPT ![r] = NoJob]
        /\ now' = now /\ blacklist' = blacklist /\ spent' = spent /\ issued' = issued
        /\ revoked' = revoked /\ arrived' = arrived
    BY <1>1, <1>2 DEF CommitPassword, At, redis
  <1>4. /\ job[r].op # "none" /\ job[r] \in JobRec /\ u \in Users
        /\ job[r].before <= revoked[u].before /\ Types /\ RevokedOK(u)
    BY <1>1, <1>3, Checking DEF IInv
  <1>5. /\ job[r].before \in Nat /\ cutoff[u] \in Nat /\ revoked[u].before \in Nat
        /\ password[u] \in Nat /\ now \in Nat
    BY <1>4 DEF JobRec, Types
  <1>6. c \in Nat /\ cutoff[u] <= c /\ c <= revoked[u].before
    <2>1. c = IF cutoff[u] >= job[r].before THEN cutoff[u] ELSE job[r].before
      BY <1>2, <1>5, MaxOfTwo
    <2> QED
      BY <1>4, <1>5, <2>1 DEF RevokedOK
  <1>7. Types'
    BY <1>3, <1>4, <1>5, <1>6, NoJobType DEF Types
  <1>8. Grows
    <2>1. \A v \in Users : /\ password[v] <= password'[v] /\ cutoff[v] <= cutoff'[v]
                           /\ revoked[v].before <= revoked'[v].before
      <3> TAKE v \in Users
      <3>1. /\ password[v] \in Nat /\ cutoff[v] \in Nat /\ revoked[v].before \in Nat
            /\ password'[v] = IF v = u THEN password[u] + 1 ELSE password[v]
            /\ cutoff'[v] = IF v = u THEN c ELSE cutoff[v]
        BY <1>3, <1>4 DEF Types
      <3> QED
        BY <1>3, <1>5, <1>6, <3>1
    <2> QED
      BY <1>3, <1>5, <2>1 DEF Grows
  <1>9. RevokedOK(u)'
    <2>1. Second(now)' = Second(now) /\ cutoff'[u] = c
      BY <1>3, <1>4 DEF Second, Types
    <2> QED
      BY <1>3, <1>4, <1>6, <2>1 DEF RevokedOK
  <1>10. \A v \in Users \ {u} : RevokedOK(v)'
    <2>1. \A v \in Users \ {u} : cutoff'[v] = cutoff[v]
      BY <1>3, <1>4 DEF Types
    <2> QED
      BY <1>3, <1>7, <1>8, <2>1, RevokedKept
  <1>11. /\ \A p \in Pairs : PairOK(p)'
         /\ \A t \in Tokens : KeyOK(t)'
    BY <1>3, <1>7, <1>8, PairKept, KeyKept
  <1>12. CountsOK'
    <2>1. /\ IsFiniteSet(Going') /\ Cardinality(Going') = Cardinality(Going) - 1
          /\ Cardinality(Going) \in Nat
      BY <1>3, <1>4, Ends
    <2>2. ASSUME NEW v \in Users
          PROVE  password'[v] + Cardinality(Going') <= arrived'
      <3>1. /\ password[v] \in Nat /\ password[v] + Cardinality(Going) <= arrived
            /\ arrived \in Nat
        BY <1>4 DEF IInv, CountsOK, Types
      <3>2. password'[v] = IF v = u THEN password[u] + 1 ELSE password[v]
        BY <1>3, <1>4 DEF Types
      <3> QED
        BY <1>3, <2>1, <3>1, <3>2
    <2> QED
      BY <2>1, <2>2 DEF CountsOK
  <1>13. JobOK(r)'
    <2>1. job'[r] = NoJob
      BY <1>3, <1>4 DEF Types
    <2> QED
      BY <2>1, Idle
  <1> QED
    BY <1>3, <1>7, <1>8, <1>9, <1>10, <1>11, <1>12, <1>13, NoJobType, JobStep

LEMMA TickStep ==
    ASSUME IInv, Tick
    PROVE  IInv'
  <1>1. /\ now < MaxTime /\ now' = now + 1 /\ blacklist' = blacklist /\ revoked' = revoked
        /\ spent' = spent /\ issued' = issued /\ password' = password /\ cutoff' = cutoff
        /\ job' = job /\ arrived' = arrived /\ Types
    BY DEF Tick, redis, database, IInv
  <1>2. now \in 0 .. MaxTime /\ MaxTime \in Nat
    BY <1>1, TokensAssumption DEF Types
  <1>3. now' \in 0 .. MaxTime /\ now \in Nat
    BY <1>1, <1>2
  <1>4. Types'
    BY <1>1, <1>3 DEF Types
  <1>5. Grows
    <2>1. \A u \in Users : password[u] \in Nat /\ cutoff[u] \in Nat /\ revoked[u].before \in Nat
      BY <1>1 DEF Types
    <2> QED
      BY <1>1, <1>3, <2>1 DEF Grows
  <1>6. CountsOK'
    <2>1. Going' = Going
      BY <1>1 DEF Going
    <2> QED
      BY <1>1, <2>1 DEF IInv, CountsOK
  <1>7. /\ \A p \in Pairs : PairOK(p)'
        /\ \A t \in Tokens : KeyOK(t)'
        /\ \A u \in Users : RevokedOK(u)'
        /\ \A r \in Requests : JobOK(r)'
    BY <1>1, <1>4, <1>5, PairKept, KeyKept, RevokedKept, JobKept
  <1> QED
    BY <1>4, <1>6, <1>7 DEF IInv

-----------------------------------------------------------------------------
(* The invariant.                                                          *)

LEMMA InitIInv == Init => IInv
  <1> SUFFICES ASSUME Init
               PROVE  IInv
    OBVIOUS
  <1>1. Types
    <2>1. 0 \in 0 .. MaxTime /\ 0 \in 0 .. MaxArrivals
      BY TokensAssumption
    <2> QED
      BY <2>1, NoJobType DEF Init, Types
  <1>2. CountsOK
    <2>1. Going = {}
      BY DEF Going, Init, NoJob
    <2> QED
      BY <2>1, FS_EmptySet DEF CountsOK, Init
  <1>3. Second(now) \in Nat
    BY <1>1, SecondType
  <1>4. /\ \A p \in Pairs : PairOK(p)
        /\ \A t \in Tokens : KeyOK(t)
    BY DEF Init, PairOK, KeyOK
  <1>5. \A u \in Users : RevokedOK(u)
    BY <1>3 DEF Init, RevokedOK
  <1>6. \A r \in Requests : JobOK(r)
    <2> SUFFICES ASSUME NEW r \in Requests
                 PROVE  JobOK(r)
      OBVIOUS
    <2>1. job[r].op = "none" /\ job[r].step = "done"
      BY DEF Init, NoJob
    <2> QED
      BY <2>1 DEF JobOK, StepsOK, ChecksOK, TokenOps
  <1> QED
    BY <1>1, <1>2, <1>4, <1>5, <1>6 DEF IInv

LEMMA IInvStep ==
    ASSUME IInv, [Next]_vars
    PROVE  IInv'
  <1>1. CASE UNCHANGED vars
    <2>1. /\ now' = now /\ blacklist' = blacklist /\ revoked' = revoked /\ spent' = spent
          /\ issued' = issued /\ password' = password /\ cutoff' = cutoff /\ job' = job
          /\ arrived' = arrived
      BY <1>1 DEF vars
    <2> QED
      BY <2>1 DEF IInv, Types, CountsOK, Going, PairOK, KeyOK, RevokedOK, JobOK, StepsOK,
                  ChecksOK, Issued, Owner, Iat, Exp, Second
  <1>2. CASE Next
    <2>1. ASSUME NEW r \in Requests, NEW u \in Users, LoginUser(r, u)
          PROVE  IInv'
      BY <2>1, LoginStep
    <2>2. ASSUME NEW r \in Requests, NEW t \in Tokens, PresentRefresh(r, t)
          PROVE  IInv'
      <3>1. Arrive(r, "refresh", t, NoToken) /\ "refresh" \in TokenOps
        BY <2>2 DEF PresentRefresh, TokenOps
      <3> QED
        BY <3>1, ArriveStep
    <2>3. ASSUME NEW r \in Requests, NEW t \in Tokens, NEW op \in {"logout", "change", "use"},
                 NEW other \in Tokens \cup {NoToken}, PresentAccess(r, op, t, other)
          PROVE  IInv'
      <3>1. Arrive(r, op, t, other) /\ op \in TokenOps
        BY <2>3 DEF PresentAccess, TokenOps
      <3> QED
        BY <3>1, ArriveStep
    <2>4. ASSUME NEW r \in Requests,
                 \/ CheckBlacklist(r) \/ CheckRevoked(r) \/ SkipChecks(r) \/ LoadUser(r)
                 \/ Consume(r) \/ ConsumeOther(r) \/ Revoke(r) \/ RevokeFails(r)
                 \/ CommitPassword(r) \/ Leave(r)
          PROVE  IInv'
      BY <2>4, CheckBlacklistStep, CheckRevokedStep, SkipChecksStep, LoadUserStep, ConsumeStep,
         ConsumeOtherStep, RevokeStep, RevokeFailsStep, CommitStep, LeaveStep
    <2>5. ASSUME NEW r \in Requests, NEW p \in Pairs, CreateTokenPair(r, p)
          PROVE  IInv'
      BY <2>5, CreateStep
    <2> QED
      BY <1>2, <2>1, <2>2, <2>3, <2>4, <2>5, TickStep DEF Next
  <1> QED
    BY <1>1, <1>2

LEMMA Invariance == Spec => []IInv
  BY InitIInv, IInvStep, PTL DEF Spec

\* The steps of request r.
Steps(r) ==
    \/ \E u \in Users : LoginUser(r, u)
    \/ \E t \in Tokens :
         \/ PresentRefresh(r, t)
         \/ \E op \in {"logout", "change", "use"}, other \in Tokens \cup {NoToken} :
               PresentAccess(r, op, t, other)
    \/ CheckBlacklist(r) \/ CheckRevoked(r) \/ SkipChecks(r) \/ LoadUser(r)
    \/ Consume(r) \/ ConsumeOther(r)
    \/ \E p \in Pairs : CreateTokenPair(r, p)
    \/ Revoke(r) \/ RevokeFails(r) \/ CommitPassword(r)
    \/ Leave(r)

\* A request passes from its handler to the issue of tokens by the rotation alone.
LEMMA OnlyConsumes ==
    ASSUME IInv, [Next]_vars, NEW r \in Requests, job[r].step = "handler",
           job'[r].step = "issue"
    PROVE  Consume(r)
  <1>1. job[r].op # "none" /\ job[r].op # "login" /\ job \in [Requests -> JobRec]
    BY Checking DEF IInv, Types, TokenOps
  <1>2. job'[r] # job[r]
    OBVIOUS
  <1>3. PICK s \in Requests : Steps(s)
    BY <1>2 DEF Next, Steps, Tick, vars
  <1>4. ASSUME NEW new, job' = [job EXCEPT ![s] = new]
        PROVE  s = r /\ new.step = "issue"
    BY <1>1, <1>2, <1>4
  <1>5. ASSUME NEW new, Begin(s, new)
        PROVE  FALSE
    BY <1>1, <1>4, <1>5 DEF Begin
  <1>6. ~(job' = [job EXCEPT ![s] = NoJob])
    <2> SUFFICES ASSUME job' = [job EXCEPT ![s] = NoJob]
                 PROVE  FALSE
      OBVIOUS
    <2>1. NoJob.step = "done"
      BY DEF NoJob
    <2> QED
      BY <1>4, <2>1
  <1>7. ASSUME NEW step \in {"revoked", "user", "handler", "commit"},
               job' = [job EXCEPT ![s].step = step]
        PROVE  FALSE
    <2>1. s = r /\ [job[s] EXCEPT !.step = step].step = "issue"
      BY <1>4, <1>7
    <2>2. [job[s] EXCEPT !.step = step].step = step
      BY <1>1 DEF JobRec
    <2> QED
      BY <2>1, <2>2
  <1>8. ASSUME job' = [job EXCEPT ![s].step = "user", ![s].skipped = TRUE]
        PROVE  FALSE
    <2>1. job'[s].step = "user" /\ \A q \in Requests \ {s} : job'[q] = job[q]
      BY <1>1, <1>8 DEF JobRec
    <2> QED
      BY <1>2, <2>1
  <1>9. ASSUME job' = [job EXCEPT ![s].step = "commit", ![s].before = Second(now)]
        PROVE  FALSE
    <2>1. job'[s].step = "commit" /\ \A q \in Requests \ {s} : job'[q] = job[q]
      BY <1>1, <1>9 DEF JobRec
    <2> QED
      BY <1>2, <2>1
  <1>10. ~\E u \in Users : LoginUser(s, u)
    BY <1>5 DEF LoginUser
  <1>11. ASSUME NEW op, NEW t, NEW other, Arrive(s, op, t, other)
         PROVE  FALSE
    BY <1>5, <1>11 DEF Arrive
  <1>12. ~CheckBlacklist(s) /\ ~CheckRevoked(s) /\ ~LoadUser(s) /\ ~RevokeFails(s)
    BY <1>7 DEF CheckBlacklist, CheckRevoked, LoadUser, RevokeFails
  <1>13. ~SkipChecks(s) /\ ~Revoke(s)
    BY <1>8, <1>9 DEF SkipChecks, Revoke
  <1>14. /\ ~ConsumeOther(s) /\ ~CommitPassword(s) /\ ~Leave(s)
         /\ ~\E p \in Pairs : CreateTokenPair(s, p)
    BY <1>6 DEF ConsumeOther, CommitPassword, Leave, CreateTokenPair
  <1>15. Consume(s)
    BY <1>3, <1>10, <1>11, <1>12, <1>13, <1>14 DEF Steps, PresentRefresh, PresentAccess
  <1>16. s = r
    BY <1>1, <1>2, <1>15 DEF Consume
  <1> QED
    BY <1>15, <1>16

-----------------------------------------------------------------------------
(* The theorems.                                                           *)

\* The state has its types, and no key of the blacklist outlives its token: the
\* TTL of Redis is never more than what is left of the token's life.
THEOREM TypeCorrect == Spec => []TypeOK
  <1>1. IInv => TypeOK
    <2> SUFFICES ASSUME IInv
                 PROVE  TypeOK
      OBVIOUS
    <2>1. Types
      BY DEF IInv
    <2>2. /\ now \in Nat /\ MaxTime \in Nat /\ now <= MaxTime /\ Ticks \in Nat \ {0}
          /\ Second(now) \in Nat
      BY <2>1, SecondType, TokensAssumption DEF Types
    <2>3. Second(now) <= Second(MaxTime) /\ Second(MaxTime) \in Int
      <3>1. PICK m \in Int, n \in Int, T \in Nat \ {0} : m = now /\ n = MaxTime /\ T = Ticks
        BY <2>2
      <3>2. m <= n
        BY <2>2, <3>1
      <3>3. m \div T <= n \div T /\ n \div T \in Int
        BY <3>2, DivMonotone, DivFacts
      <3> QED
        BY <3>1, <3>3 DEF Second
    <2>4. ASSUME NEW u \in Users
          PROVE  /\ password[u] \in 0 .. MaxArrivals
                 /\ revoked[u].before \in 0 .. Second(MaxTime)
                 /\ cutoff[u] \in 0 .. revoked[u].before
      <3>1. /\ password[u] \in Nat /\ revoked[u].before \in Nat /\ cutoff[u] \in Nat
            /\ arrived \in Nat /\ arrived <= MaxArrivals /\ MaxArrivals \in Nat
        BY <2>1, TokensAssumption DEF Types
      <3>2. Cardinality(Going) \in Nat /\ password[u] + Cardinality(Going) <= arrived
        BY FS_CardinalityType DEF IInv, CountsOK
      <3>3. cutoff[u] <= revoked[u].before /\ revoked[u].before <= Second(now)
        BY DEF IInv, RevokedOK
      <3> QED
        BY <2>2, <2>3, <3>1, <3>2, <3>3
    <2>5. ASSUME NEW p \in Pairs
          PROVE  issued[p] \in Pair \cup {NoPair}
      <3> SUFFICES ASSUME issued[p] # NoPair
                   PROVE  issued[p] \in Pair
        OBVIOUS
      <3>1. issued[p] \in PairRec /\ PairOK(p)
        BY <2>1 DEF IInv, Types
      <3>2. /\ issued[p].user \in Users /\ issued[p].iat \in Nat /\ issued[p].password \in Nat
            /\ issued[p].iat <= Second(now)
            /\ issued[p].password <= password[issued[p].user]
        BY <3>1 DEF PairRec, PairOK
      <3>3. password[issued[p].user] \in 0 .. MaxArrivals /\ MaxArrivals \in Nat
        BY <2>4, <3>2, TokensAssumption
      <3>4. issued[p].iat \in 0 .. Second(MaxTime) /\ issued[p].password \in 0 .. MaxArrivals
        BY <2>2, <2>3, <3>2, <3>3
      <3> QED
        BY <3>1, <3>2, <3>4 DEF Pair, PairRec
    <2>6. \A t \in Tokens : blacklist[t] # 0 => Issued(t) /\ blacklist[t] <= Exp(t) * Ticks
      BY DEF IInv, KeyOK
    <2>7. \A r \in Requests : /\ job[r].token \in Tokens \cup {NoToken}
                              /\ job[r].other \in Tokens \cup {NoToken}
                              /\ job[r].user \in Users \cup {NoToken}
      BY <2>1 DEF Types, JobRec
    <2>8. now \in 0 .. MaxTime /\ spent \subseteq Tokens
      BY <2>1 DEF Types
    <2> QED
      BY <2>4, <2>5, <2>6, <2>7, <2>8 DEF TypeOK
  <1> QED
    BY Invariance, <1>1, PTL

\* A refresh token that was put on the blacklist before a request arrived is not
\* exchanged by that request, except while Redis fails: not even in the last second
\* of the token's life, when its key may be gone.
THEOREM TokensExchangedOnce == Spec => ExchangedOnce
  <1>1. ASSUME IInv, [Next]_vars, NEW r \in Requests,
               job[r].op = "refresh", Passes(r, "handler", "issue")
        PROVE  ~job[r].spent \/ job[r].skipped
    <2> SUFFICES ASSUME job[r].spent, ~job[r].skipped
                 PROVE  FALSE
      OBVIOUS
    <2>1. job[r].step = "handler" /\ job'[r].step = "issue" /\ Types
      BY <1>1 DEF Passes, IInv
    <2>2. job[r].token \in Tokens /\ Issued(job[r].token)
      BY <1>1, <2>1, Checking
    <2>3. PICK t : t = job[r].token
      OBVIOUS
    <2>4. now > (Exp(t) - 1) * Ticks
      BY <1>1, <2>1, <2>3 DEF IInv, JobOK, ChecksOK
    <2>5. now \in Nat /\ (Exp(t) - 1) * Ticks \in Int
      BY <2>1, <2>2, <2>3, ExpFacts, TokensAssumption DEF Types
    <2>6. ~SetKey(t)
      BY <2>1, <2>2, <2>3, <2>4, <2>5, TtlFacts DEF SetKey
    <2>7. Consume(r)
      BY <1>1, <2>1, OnlyConsumes
    <2> QED
      BY <2>3, <2>6, <2>7 DEF Consume
  <1>2. IInv /\ [Next]_vars =>
          [\A r \in Requests :
             job[r].op = "refresh" /\ Passes(r, "handler", "issue") =>
                ~job[r].spent \/ job[r].skipped]_vars
    BY <1>1
  <1> QED
    BY Invariance, <1>2, PTL DEF Spec, ExchangedOnce

\* After a logout no request that arrives with its token is let in, except while
\* Redis fails and from the second before exp on.
THEOREM LogoutsHold == Spec => LoggedOutStaysOut
  <1>1. ASSUME IInv, NEW r \in Requests, Passes(r, "user", "handler"), job[r].spent
        PROVE  job[r].skipped \/ now > (Exp(job[r].token) - 1) * Ticks
    BY <1>1 DEF IInv, JobOK, ChecksOK, Passes
  <1>2. IInv /\ [Next]_vars =>
          [\A r \in Requests :
             job[r].op # "refresh" /\ Passes(r, "user", "handler") /\ job[r].spent =>
                job[r].skipped \/ now > (Exp(job[r].token) - 1) * Ticks]_vars
    BY <1>1
  <1> QED
    BY Invariance, <1>2, PTL DEF Spec, LoggedOutStaysOut

\* Once a new password is committed no token of an older one, issued before the second
\* of the revocation, is let in or exchanged before it expires, unless Redis failed:
\* whatever the lives of the tokens, as long as a revocation is kept as long as a
\* refresh token lives.
THEOREM RevocationsHold == Spec => RevokedStaysOut
  <1>1. ASSUME IInv, NEW r \in Requests, Passes(r, "user", "handler"), job[r].revoked
        PROVE  job[r].skipped \/ Second(now) > Exp(job[r].token)
    BY <1>1 DEF IInv, JobOK, ChecksOK, Passes
  <1>2. IInv /\ [Next]_vars =>
          [\A r \in Requests :
             Passes(r, "user", "handler") /\ job[r].revoked =>
                job[r].skipped \/ Second(now) > Exp(job[r].token)]_vars
    BY <1>1
  <1> QED
    BY Invariance, <1>2, PTL DEF Spec, RevokedStaysOut
=============================================================================
