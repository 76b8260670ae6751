-------------------------- MODULE NodeConfig_proofs --------------------------
(***************************************************************************)
(* What the operators of NodeConfig make of a configuration, for every set *)
(* of users, secrets, outbounds and inbounds.                              *)
(***************************************************************************)
EXTENDS NodeConfig, Integers, TLAPS, WellFoundedInduction

-----------------------------------------------------------------------------
(* Induction, and functions defined by recursion over an interval.         *)

\* A set of naturals has a least element, which First finds.
LEMMA FirstIsLeast ==
    ASSUME NEW T, T \subseteq Nat, T # {}
    PROVE  First(T) \in T /\ \A j \in T : First(T) <= j
<1> DEFINE less == OpToRel(<, Nat)
<1>1. IsWellFoundedOn(less, Nat)
  BY NatLessThanWellFounded
<1>2. \A x, y \in Nat : <<y, x>> \in less <=> y < x
  BY DEF OpToRel
<1> HIDE DEF less
<1>3. PICK x \in T : \A y \in T : ~ (<<y, x>> \in less)
  BY <1>1, WFMin, Zenon
<1>4. ASSUME NEW y \in T
      PROVE  x <= y
  <2>1. x \in Nat /\ y \in Nat /\ ~ (<<y, x>> \in less)
    BY <1>3
  <2>2. ~ (y < x)
    BY <1>2, <2>1
  <2> QED BY <2>1, <2>2
<1> QED BY <1>3, <1>4 DEF First

\* Induction over a set, where the provers cannot induct over a predicate.
LEMMA Induction ==
    ASSUME NEW S, 0 \in S, \A n \in Nat : n \in S => n + 1 \in S
    PROVE  Nat \subseteq S
<1> SUFFICES ASSUME Nat \ S # {}
             PROVE  FALSE
  OBVIOUS
<1> DEFINE x == First(Nat \ S)
<1>1. x \in Nat \ S /\ \A y \in Nat \ S : x <= y
  BY FirstIsLeast
<1>2. x # 0 /\ x - 1 \in Nat /\ x - 1 \notin Nat \ S
  BY <1>1
<1> QED BY <1>1, <1>2

\* f starts at a and takes the N steps of G.
Steps(f, A, a, N, G) ==
    f \in [0 .. N -> A] /\ f[0] = a /\ \A n \in 1 .. N : f[n] = G[n][f[n - 1]]

\* There is a function with a given first value and given steps.
LEMMA Recursion ==
    ASSUME NEW A, NEW a \in A, NEW N \in Nat, NEW G \in [1 .. N -> [A -> A]]
    PROVE  \E f : Steps(f, A, a, N, G)
<1> DEFINE Upto(n) == {f \in [0 .. n -> A] :
                          f[0] = a /\ \A m \in 1 .. n : f[m] = G[m][f[m - 1]]}
           S == {n \in Nat : n <= N => Upto(n) # {}}
<1>1. 0 \in S
  <2>1. [m \in 0 .. 0 |-> a] \in Upto(0)
    OBVIOUS
  <2> QED BY <2>1
<1>2. ASSUME NEW n \in Nat, n \in S
      PROVE  n + 1 \in S
  <2> SUFFICES ASSUME n + 1 <= N
               PROVE  Upto(n + 1) # {}
    OBVIOUS
  <2>1. PICK f \in [0 .. n -> A] : f[0] = a /\ \A m \in 1 .. n : f[m] = G[m][f[m - 1]]
    BY <1>2
  <2> DEFINE g == [m \in 0 .. (n + 1) |-> IF m = n + 1 THEN G[n + 1][f[n]] ELSE f[m]]
  <2>2. G[n + 1][f[n]] \in A
    OBVIOUS
  <2>3. g \in [0 .. (n + 1) -> A]
    BY <2>1, <2>2
  <2>4. g[0] = a /\ \A m \in 0 .. n : g[m] = f[m]
    BY <2>1
  <2>5. g[n + 1] = G[n + 1][g[n]]
    BY <2>1
  <2>6. ASSUME NEW m \in 1 .. (n + 1)
        PROVE  g[m] = G[m][g[m - 1]]
    <3>1. CASE m = n + 1
      BY <2>5, <3>1
    <3>2. CASE m \in 1 .. n
      BY <2>1, <2>4, <3>2
    <3> QED BY <3>1, <3>2
  <2> HIDE DEF g
  <2>7. g \in Upto(n + 1)
    BY <2>3, <2>4, <2>6
  <2> QED BY <2>7
<1> HIDE DEF S
<1>3. N \in S
  BY <1>1, <1>2, Induction
<1> QED BY <1>3 DEF S, Steps

-----------------------------------------------------------------------------
(* Filtering rules.                                                        *)

\* f is what Without has kept after each of the rules.
Filters(f, s, dropped, E) ==
    /\ f \in [0 .. Len(s) -> Seq(E)]
    /\ f[0] = <<>>
    /\ \A n \in 1 .. Len(s) :
          f[n] = IF s[n] \in dropped THEN f[n - 1] ELSE Append(f[n - 1], s[n])
    /\ Without(s, dropped) = f[Len(s)]

LEMMA WithoutFilters ==
    ASSUME NEW E, NEW s \in Seq(E), NEW dropped
    PROVE  \E f : Filters(f, s, dropped, E)
<1> DEFINE A == Seq(E)
           nil == <<>>
           N == Len(s)
           step(f, n) == IF s[n] \in dropped THEN f[n - 1] ELSE Append(f[n - 1], s[n])
           body(f) == [n \in 0 .. N |-> IF n = 0 THEN <<>>
                                        ELSE IF s[n] \in dropped THEN f[n - 1]
                                        ELSE Append(f[n - 1], s[n])]
           G == [n \in 1 .. N |-> [k \in Seq(E) |-> IF s[n] \in dropped THEN k
                                                   ELSE Append(k, s[n])]]
           kept == CHOOSE f : f = body(f)
<1>1. N \in Nat /\ \A n \in 1 .. N : s[n] \in E /\ n \in 0 .. N /\ n # 0 /\ n - 1 \in 0 .. N
  OBVIOUS
<1>2. N \in Nat /\ G \in [1 .. N -> [A -> A]] /\ nil \in A
  BY <1>1
<1> HIDE DEF A, nil, N, G
<1>3. \E f : Steps(f, A, nil, N, G)
  BY <1>2, Recursion
<1>4. PICK f : f \in [0 .. N -> A] /\ f[0] = nil /\ \A n \in 1 .. N : f[n] = G[n][f[n - 1]]
  BY <1>3 DEF Steps
<1>5. ASSUME NEW n \in 1 .. N
      PROVE  f[n] = step(f, n)
  <2>1. f[n - 1] \in Seq(E)
    BY <1>1, <1>4 DEF A
  <2> QED BY <1>4, <2>1 DEF G
<1>6. f = body(f)
  <2>1. DOMAIN f = 0 .. N /\ f = [n \in 0 .. N |-> f[n]]
    BY <1>4
  <2>2. ASSUME NEW n \in 0 .. N
        PROVE  f[n] = body(f)[n]
    <3>1. CASE n = 0
      BY <3>1, <1>4 DEF nil
    <3>2. CASE n \in 1 .. N
      BY <3>2, <1>1, <1>5
    <3> QED BY <3>1, <3>2, <1>1
  <2> QED BY <2>1, <2>2
<1>7. kept = body(kept)
  BY <1>6
<1> HIDE DEF kept
<1>8. kept[0] = <<>> /\ \A n \in 1 .. N : kept[n] = step(kept, n)
  <2>1. ASSUME NEW n \in 0 .. N
        PROVE  kept[n] = IF n = 0 THEN <<>> ELSE step(kept, n)
    BY <1>7
  <2>2. 0 \in 0 .. N
    BY <1>1
  <2> QED BY <1>1, <2>1, <2>2
<1> DEFINE S == {n \in Nat : n <= N => kept[n] = f[n]}
<1>9. 0 \in S
  BY <1>8, <1>4 DEF nil
<1>10. ASSUME NEW n \in Nat, n \in S
      PROVE  n + 1 \in S
  <2> SUFFICES ASSUME n + 1 <= N
               PROVE  kept[n + 1] = f[n + 1]
    OBVIOUS
  <2>1. n + 1 \in 1 .. N /\ kept[n] = f[n] /\ (n + 1) - 1 = n
    BY <1>10, <1>1
  <2> QED BY <2>1, <1>8, <1>5
<1> HIDE DEF S
<1>11. N \in S
  BY <1>9, <1>10, Induction, <1>1
<1>12. kept[N] = f[N]
  BY <1>11, <1>1 DEF S
<1>13. Without(s, dropped) = kept[N]
  BY DEF Without, kept, N
<1> QED BY <1>4, <1>5, <1>12, <1>13 DEF A, nil, N, Filters

\* b is what is left of a when rules are dropped: h says which.
Embeds(b, a, h) ==
    /\ h \in [1 .. Len(b) -> 1 .. Len(a)]
    /\ \A i, j \in 1 .. Len(b) : i < j => h[i] < h[j]
    /\ \A i \in 1 .. Len(b) : b[i] = a[h[i]]

\* Filtering drops the rules it is told to and keeps the others in their order.
LEMMA WithoutEmbeds ==
    ASSUME NEW E, NEW s \in Seq(E), NEW dropped
    PROVE  /\ Without(s, dropped) \in Seq(E)
           /\ \E h : /\ Embeds(Without(s, dropped), s, h)
                     /\ \A j \in 1 .. Len(s) :
                           s[j] \notin dropped
                              <=> \E i \in 1 .. Len(Without(s, dropped)) : h[i] = j
<1>0. PICK f : Filters(f, s, dropped, E)
  BY WithoutFilters
<1>1. /\ f \in [0 .. Len(s) -> Seq(E)]
      /\ f[0] = <<>>
      /\ \A n \in 1 .. Len(s) :
            f[n] = IF s[n] \in dropped THEN f[n - 1] ELSE Append(f[n - 1], s[n])
      /\ Without(s, dropped) = f[Len(s)]
  BY <1>0 DEF Filters
<1> DEFINE Kept(n, h) ==
              /\ Embeds(f[n], s, h)
              /\ \A j \in 1 .. Len(s) :
                    (j <= n /\ s[j] \notin dropped) <=> \E i \in 1 .. Len(f[n]) : h[i] = j
           S == {n \in Nat : n <= Len(s) => \E h : Kept(n, h)}
<1>2. 0 \in S
  <2>1. Kept(0, [i \in 1 .. 0 |-> 0])
    BY <1>1 DEF Embeds
  <2> QED BY <2>1
<1>3. ASSUME NEW n \in Nat, n \in S
      PROVE  n + 1 \in S
  <2> SUFFICES ASSUME n + 1 <= Len(s)
               PROVE  \E h : Kept(n + 1, h)
    OBVIOUS
  <2>1. PICK h : Kept(n, h)
    BY <1>3
  <2>2. n + 1 \in 1 .. Len(s) /\ (n + 1) - 1 = n /\ f[n] \in Seq(E) /\ s[n + 1] \in E
    BY <1>1
  <2>3. CASE s[n + 1] \in dropped
    <3>1. f[n + 1] = f[n]
      BY <1>1, <2>2, <2>3
    <3>2. Kept(n + 1, h)
      BY <2>1, <2>2, <2>3, <3>1
    <3> QED BY <3>2
  <2>4. CASE s[n + 1] \notin dropped
    <3> DEFINE m == Len(f[n])
               g == [i \in 1 .. (m + 1) |-> IF i = m + 1 THEN n + 1 ELSE h[i]]
    <3>1. f[n + 1] = Append(f[n], s[n + 1])
      BY <1>1, <2>2, <2>4
    <3>2. /\ m \in Nat /\ Len(f[n + 1]) = m + 1 /\ f[n + 1][m + 1] = s[n + 1]
          /\ \A i \in 1 .. m : f[n + 1][i] = f[n][i]
      BY <2>2, <3>1
    <3>3. /\ h \in [1 .. m -> 1 .. Len(s)]
          /\ \A i, j \in 1 .. m : i < j => h[i] < h[j]
          /\ \A i \in 1 .. m : f[n][i] = s[h[i]]
      BY <2>1 DEF Embeds
    <3>4. \A i \in 1 .. m : h[i] <= n
      <4> SUFFICES ASSUME NEW i \in 1 .. m
                   PROVE  h[i] <= n
        OBVIOUS
      <4>1. h[i] \in 1 .. Len(s)
        BY <3>3
      <4> QED BY <2>1, <4>1
    <3>5. /\ g[m + 1] = n + 1 /\ \A i \in 1 .. m : g[i] = h[i]
          /\ g \in [1 .. (m + 1) -> 1 .. Len(s)]
      BY <2>2, <3>2, <3>3
    <3> HIDE DEF m, g
    <3>6. ASSUME NEW i \in 1 .. (m + 1), NEW j \in 1 .. (m + 1), i < j
          PROVE  g[i] < g[j]
      <4>1. i \in 1 .. m
        BY <3>2, <3>6
      <4>2. CASE j = m + 1
        <5>1. h[i] \in 1 .. Len(s) /\ h[i] <= n
          BY <3>3, <3>4, <4>1
        <5> QED BY <3>5, <4>1, <4>2, <5>1
      <4>3. CASE j \in 1 .. m
        BY <3>3, <3>5, <3>6, <4>1, <4>3
      <4> QED BY <3>2, <4>2, <4>3
    <3>7. \A i \in 1 .. (m + 1) : f[n + 1][i] = s[g[i]]
      BY <3>2, <3>3, <3>5
    <3>8. ASSUME NEW j \in 1 .. Len(s)
          PROVE  (j <= n + 1 /\ s[j] \notin dropped) <=> \E i \in 1 .. (m + 1) : g[i] = j
      <4>1. (j <= n /\ s[j] \notin dropped) <=> \E i \in 1 .. m : h[i] = j
        BY <2>1 DEF m
      <4>2. (\E i \in 1 .. m : h[i] = j) <=> \E i \in 1 .. m : g[i] = j
        BY <3>5
      <4>3. (\E i \in 1 .. (m + 1) : g[i] = j) <=> (j = n + 1 \/ \E i \in 1 .. m : g[i] = j)
        BY <3>2, <3>5
      <4>4. j <= n + 1 <=> (j = n + 1 \/ j <= n)
        BY <2>2
      <4> QED BY <2>4, <4>1, <4>2, <4>3, <4>4
    <3>9. Kept(n + 1, g)
      BY <3>2, <3>5, <3>6, <3>7, <3>8 DEF Embeds
    <3> QED BY <3>9
  <2> QED BY <2>3, <2>4
<1> HIDE DEF S
<1>4. Len(s) \in Nat
  OBVIOUS
<1>5. Len(s) \in S
  BY <1>2, <1>3, <1>4, Induction
<1>6. \E h : Kept(Len(s), h)
  BY <1>4, <1>5 DEF S
<1>7. f[Len(s)] \in Seq(E)
  BY <1>1, <1>4
<1> QED BY <1>1, <1>6, <1>7

-----------------------------------------------------------------------------
(* The fields of a configuration.                                          *)

Credentials == [Users -> Secrets \union {Absent}]

LEMMA Fields ==
    ASSUME NEW c \in Configurations
    PROVE  /\ c.users \in [Inbounds(c) -> Credentials] /\ Inbounds(c) \in SUBSET Tags
           /\ c.outbounds \in SUBSET Outbounds
           /\ c.rules \in Seq(Rules)
           /\ c.stats \in SUBSET Users
BY DEF Configurations, Inbounds, Credentials

LEMMA FieldsMake ==
    ASSUME NEW tags \in SUBSET Tags, NEW us \in [tags -> Credentials],
           NEW os \in SUBSET Outbounds, NEW rs \in Seq(Rules), NEW st \in SUBSET Users
    PROVE  [users |-> us, outbounds |-> os, rules |-> rs, stats |-> st] \in Configurations
BY DEF Configurations, Credentials

\* Replacing one field.
LEMMA WithUsers ==
    ASSUME NEW c \in Configurations, NEW us \in [Inbounds(c) -> Credentials]
    PROVE  LET d == [c EXCEPT !.users = us]
           IN  /\ d \in Configurations /\ d.users = us /\ Inbounds(d) = Inbounds(c)
               /\ d.outbounds = c.outbounds /\ d.rules = c.rules /\ d.stats = c.stats
<1> DEFINE d == [users |-> us, outbounds |-> c.outbounds, rules |-> c.rules,
                 stats |-> c.stats]
<1>1. [c EXCEPT !.users = us] = d
  BY DEF Configurations
<1>2. d \in Configurations
  BY Fields, FieldsMake
<1>3. DOMAIN us = Inbounds(c)
  OBVIOUS
<1> QED BY <1>1, <1>2, <1>3 DEF Inbounds

LEMMA WithStats ==
    ASSUME NEW c \in Configurations, NEW st \in SUBSET Users
    PROVE  LET d == [c EXCEPT !.stats = st]
           IN  /\ d \in Configurations /\ d.stats = st /\ Inbounds(d) = Inbounds(c)
               /\ d.outbounds = c.outbounds /\ d.rules = c.rules /\ d.users = c.users
BY DEF Configurations, Inbounds

\* d is c with other outbounds and rules.
Reroutes(d, c, os, rs) ==
    /\ d \in Configurations /\ d.users = c.users /\ Inbounds(d) = Inbounds(c)
    /\ d.outbounds = os /\ d.rules = rs /\ d.stats = c.stats

LEMMA WithRules ==
    ASSUME NEW c \in Configurations, NEW os \in SUBSET Outbounds, NEW rs \in Seq(Rules)
    PROVE  /\ Reroutes([c EXCEPT !.outbounds = os, !.rules = rs], c, os, rs)
           /\ Reroutes([c EXCEPT !.rules = rs], c, c.outbounds, rs)
BY DEF Configurations, Inbounds, Reroutes

\* d is a configuration that differs from c in its users and its rules.
Relists(d, c, us, rs) ==
    /\ d \in Configurations /\ d.users = us /\ Inbounds(d) = Inbounds(c)
    /\ d.outbounds = c.outbounds /\ d.rules = rs /\ d.stats = c.stats

LEMMA WithUsersAndRules ==
    ASSUME NEW c \in Configurations, NEW us \in [Inbounds(c) -> Credentials],
           NEW rs \in Seq(Rules)
    PROVE  Relists([c EXCEPT !.users = us, !.rules = rs], c, us, rs)
<1> DEFINE k == [c EXCEPT !.users = us]
<1>1. /\ k \in Configurations /\ k.users = us /\ Inbounds(k) = Inbounds(c)
      /\ k.outbounds = c.outbounds /\ k.stats = c.stats
  BY WithUsers
<1>2. [c EXCEPT !.users = us, !.rules = rs] = [k EXCEPT !.rules = rs]
  OBVIOUS
<1> HIDE DEF k
<1> DEFINE d == [k EXCEPT !.rules = rs]
<1>3. /\ d \in Configurations /\ d.users = k.users /\ d.rules = rs
      /\ d.outbounds = k.outbounds /\ d.stats = k.stats
  BY <1>1 DEF Configurations
<1> QED BY <1>1, <1>2, <1>3 DEF Inbounds, Relists

\* The installed users are a matter of the credentials.
LEMMA SameUsersInstalled ==
    ASSUME NEW c, NEW d, d.users = c.users
    PROVE  /\ InstalledUsers(d) = InstalledUsers(c)
           /\ \A u : InboundsOf(d, u) = InboundsOf(c, u)
           /\ \A u, kind : KnownSecret(d, u, kind) = KnownSecret(c, u, kind)
BY DEF InstalledUsers, InboundsOf, Inbounds, KnownSecret

LEMMA SyncStatsCounts ==
    ASSUME NEW c \in Configurations
    PROVE  LET d == SyncStats(c)
           IN  /\ d \in Configurations /\ d.users = c.users
               /\ d.outbounds = c.outbounds /\ d.rules = c.rules
               /\ d.stats = InstalledUsers(d)
<1>1. InstalledUsers(c) \in SUBSET Users
  BY DEF InstalledUsers
<1>2. SyncStats(c) \in Configurations /\ SyncStats(c).users = c.users
      /\ SyncStats(c).outbounds = c.outbounds /\ SyncStats(c).rules = c.rules
      /\ SyncStats(c).stats = InstalledUsers(c)
  BY <1>1, WithStats DEF SyncStats
<1> QED BY <1>2, SameUsersInstalled

-----------------------------------------------------------------------------
(* Creating users.                                                         *)

\* A known secret is that of an inbound of the kind the user has.
LEMMA KnownSecretHeld ==
    ASSUME NEW c, NEW u, NEW kind, KnownSecret(c, u, kind) # Absent
    PROVE  \E t \in InboundsOf(c, u) :
              Kind(t) = kind /\ KnownSecret(c, u, kind) = c.users[t][u]
<1> DEFINE holders == {i \in DOMAIN ProtocolTags : /\ ProtocolTags[i] \in InboundsOf(c, u)
                                                   /\ Kind(ProtocolTags[i]) = kind}
<1>1. holders # {} /\ KnownSecret(c, u, kind) = c.users[ProtocolTags[First(holders)]][u]
  BY DEF KnownSecret
<1>2. First(holders) \in holders
  BY <1>1, FirstIsLeast, NodeAssumption
<1> QED BY <1>1, <1>2

\* A user who has an inbound of a kind has a known secret of the kind.
LEMMA HeldIsKnown ==
    ASSUME NEW c \in Configurations, NEW u \in Users, NEW t \in InboundsOf(c, u)
    PROVE  \E s \in InboundsOf(c, u) :
              Kind(s) = Kind(t) /\ KnownSecret(c, u, Kind(t)) = c.users[s][u]
<1> DEFINE holders == {i \in DOMAIN ProtocolTags : /\ ProtocolTags[i] \in InboundsOf(c, u)
                                                   /\ Kind(ProtocolTags[i]) = Kind(t)}
<1>1. t \in Tags
  BY Fields DEF InboundsOf
<1>2. holders # {}
  BY <1>1 DEF Tags
<1>3. First(holders) \in holders
  BY <1>2, FirstIsLeast, NodeAssumption
<1>4. KnownSecret(c, u, Kind(t)) = c.users[ProtocolTags[First(holders)]][u]
  BY <1>2 DEF KnownSecret
<1> QED BY <1>3, <1>4

LEMMA ChosenIsSecret ==
    ASSUME NEW c \in Configurations, NEW r \in Requests, NEW kind
    PROVE  ChosenSecret(c, r, kind) \in Secrets
<1>1. KnownSecret(c, r.user, kind) # Absent => KnownSecret(c, r.user, kind) \in Secrets
  <2> SUFFICES ASSUME KnownSecret(c, r.user, kind) # Absent
               PROVE  KnownSecret(c, r.user, kind) \in Secrets
    OBVIOUS
  <2>1. PICK t \in InboundsOf(c, r.user) : KnownSecret(c, r.user, kind) = c.users[t][r.user]
    BY KnownSecretHeld
  <2>2. c.users[t] \in Credentials /\ r.user \in Users
    BY Fields DEF InboundsOf, Requests
  <2>3. c.users[t][r.user] \in Secrets \union {Absent}
    BY <2>2 DEF Credentials
  <2> QED BY <2>1, <2>3
<1>2. /\ r.uuid \in Secrets \union {Absent} /\ r.password \in Secrets \union {Absent}
      /\ r.newUuid \in Secrets /\ r.newPassword \in Secrets
  BY DEF Requests
<1> QED BY <1>1, <1>2 DEF ChosenSecret

\* Installing a user fills what is missing and touches nothing else.
LEMMA Installs ==
    ASSUME NEW c \in Configurations, NEW r \in Requests
    PROVE  LET d == InstallUser(c, r)
           IN  /\ d \in Configurations /\ Inbounds(d) = Inbounds(c)
               /\ d.outbounds = c.outbounds /\ d.rules = c.rules /\ d.stats = c.stats
               /\ \A t \in Inbounds(c) : \A v \in Users :
                     d.users[t][v] = IF v = r.user /\ c.users[t][v] = Absent
                                     THEN ChosenSecret(c, r, Kind(t)) ELSE c.users[t][v]
<1> DEFINE us == [t \in Inbounds(c) |->
                     IF t \in MissingInbounds(c, r.user)
                     THEN [c.users[t] EXCEPT ![r.user] = ChosenSecret(c, r, Kind(t))]
                     ELSE c.users[t]]
<1>1. \A t \in Inbounds(c) : c.users[t] \in Credentials
  BY Fields
<1>2. \A kind : ChosenSecret(c, r, kind) \in Secrets
  BY ChosenIsSecret
<1>3. ASSUME NEW t \in Inbounds(c)
      PROVE  /\ us[t] \in Credentials
             /\ \A v \in Users :
                   us[t][v] = IF v = r.user /\ c.users[t][v] = Absent
                              THEN ChosenSecret(c, r, Kind(t)) ELSE c.users[t][v]
  <2>1. CASE c.users[t][r.user] = Absent
    <3>1. us[t] = [c.users[t] EXCEPT ![r.user] = ChosenSecret(c, r, Kind(t))]
      BY <2>1 DEF MissingInbounds, InboundsOf
    <3> QED BY <1>1, <1>2, <2>1, <3>1 DEF Credentials
  <2>2. CASE c.users[t][r.user] # Absent
    <3>1. us[t] = c.users[t]
      BY <2>2 DEF MissingInbounds, InboundsOf
    <3> QED BY <1>1, <2>2, <3>1
  <2> QED BY <2>1, <2>2
<1>4. us \in [Inbounds(c) -> Credentials]
  BY <1>3
<1>5. InstallUser(c, r) = [c EXCEPT !.users = us]
  BY DEF InstallUser
<1> HIDE DEF us
<1> QED BY <1>3, <1>4, <1>5, WithUsers

\* f is the configuration after each user of a batch.
InstallsBatch(f, c, batch) ==
    /\ f \in [0 .. Len(batch) -> Configurations]
    /\ f[0] = c
    /\ \A n \in 1 .. Len(batch) : f[n] = InstallUser(f[n - 1], batch[n])
    /\ CreateUsers(c, batch) = SyncStats(f[Len(batch)])

LEMMA CreateInstallsBatch ==
    ASSUME NEW c \in Configurations, NEW batch \in Seq(Requests)
    PROVE  \E f : InstallsBatch(f, c, batch)
<1> DEFINE N == Len(batch)
           body(f) == [n \in 0 .. N |-> IF n = 0 THEN c ELSE InstallUser(f[n - 1], batch[n])]
           G == [n \in 1 .. N |-> [k \in Configurations |-> InstallUser(k, batch[n])]]
           after == CHOOSE f : f = body(f)
<1>1. N \in Nat /\ \A n \in 1 .. N : /\ batch[n] \in Requests
                                     /\ n \in 0 .. N /\ n # 0 /\ n - 1 \in 0 .. N
  OBVIOUS
<1>2. N \in Nat /\ G \in [1 .. N -> [Configurations -> Configurations]]
  BY <1>1, Installs
<1> HIDE DEF N, G
<1>3. \E f : Steps(f, Configurations, c, N, G)
  BY <1>2, Recursion
<1>4. PICK f : /\ f \in [0 .. N -> Configurations] /\ f[0] = c
               /\ \A n \in 1 .. N : f[n] = G[n][f[n - 1]]
  BY <1>3 DEF Steps
<1>5. ASSUME NEW n \in 1 .. N
      PROVE  f[n] = InstallUser(f[n - 1], batch[n])
  <2>1. f[n - 1] \in Configurations
    BY <1>1, <1>4
  <2> QED BY <1>4, <2>1 DEF G
<1>6. f = body(f)
  <2>1. DOMAIN f = 0 .. N /\ f = [n \in 0 .. N |-> f[n]]
    BY <1>4
  <2>2. ASSUME NEW n \in 0 .. N
        PROVE  f[n] = body(f)[n]
    <3>1. CASE n = 0
      BY <3>1, <1>4
    <3>2. CASE n \in 1 .. N
      BY <3>2, <1>1, <1>5
    <3> QED BY <3>1, <3>2, <1>1
  <2> QED BY <2>1, <2>2
<1>7. after = body(after)
  BY <1>6
<1> HIDE DEF after
<1>8. after[0] = c /\ \A n \in 1 .. N : after[n] = InstallUser(after[n - 1], batch[n])
  <2>1. ASSUME NEW n \in 0 .. N
        PROVE  after[n] = IF n = 0 THEN c ELSE InstallUser(after[n - 1], batch[n])
    BY <1>7
  <2>2. 0 \in 0 .. N
    BY <1>1
  <2> QED BY <1>1, <2>1, <2>2
<1> DEFINE S == {n \in Nat : n <= N => after[n] = f[n]}
<1>9. 0 \in S
  BY <1>8, <1>4
<1>10. ASSUME NEW n \in Nat, n \in S
      PROVE  n + 1 \in S
  <2> SUFFICES ASSUME n + 1 <= N
               PROVE  after[n + 1] = f[n + 1]
    OBVIOUS
  <2>1. n + 1 \in 1 .. N /\ after[n] = f[n] /\ (n + 1) - 1 = n
    BY <1>10, <1>1
  <2> QED BY <2>1, <1>8, <1>5
<1> HIDE DEF S
<1>11. N \in S
  BY <1>9, <1>10, Induction, <1>1
<1>12. after[N] = f[N]
  BY <1>11, <1>1 DEF S
<1>13. CreateUsers(c, batch) = SyncStats(after[N])
  BY DEF CreateUsers, after, N
<1> QED BY <1>4, <1>5, <1>12, <1>13 DEF N, InstallsBatch

\* What a batch of created users makes of c: every credential there was stays,
\* nobody else gets one, the users of the batch have one everywhere, and that
\* of a new user is the same in all inbounds of a kind.
Creates(c, d, made) ==
    /\ d \in Configurations /\ Inbounds(d) = Inbounds(c)
    /\ d.outbounds = c.outbounds /\ d.rules = c.rules
    /\ \A t \in Inbounds(c), v \in Users :
          /\ c.users[t][v] # Absent \/ v \notin made => d.users[t][v] = c.users[t][v]
          /\ v \in made => d.users[t][v] # Absent
    /\ \A s \in Inbounds(c), t \in Inbounds(c), v \in Users :
          InboundsOf(c, v) = {} /\ Kind(s) = Kind(t) => d.users[s][v] = d.users[t][v]

LEMMA CreatesMore ==
    ASSUME NEW c \in Configurations, NEW d, NEW made, Creates(c, d, made),
           NEW r \in Requests
    PROVE  Creates(c, InstallUser(d, r), made \union {r.user})
<1> DEFINE e == InstallUser(d, r)
<1>1. /\ d \in Configurations /\ Inbounds(d) = Inbounds(c)
      /\ d.outbounds = c.outbounds /\ d.rules = c.rules
  BY DEF Creates
<1>2. /\ e \in Configurations /\ Inbounds(e) = Inbounds(c)
      /\ e.outbounds = c.outbounds /\ e.rules = c.rules
      /\ \A t \in Inbounds(c) : \A v \in Users :
            e.users[t][v] = IF v = r.user /\ d.users[t][v] = Absent
                            THEN ChosenSecret(d, r, Kind(t)) ELSE d.users[t][v]
  BY <1>1, Installs
<1>3. \A kind : ChosenSecret(d, r, kind) # Absent
  BY <1>1, ChosenIsSecret, NodeAssumption
<1> HIDE DEF e
<1>4. ASSUME NEW t \in Inbounds(c), NEW v \in Users
      PROVE  /\ c.users[t][v] # Absent \/ v \notin made \union {r.user}
                   => e.users[t][v] = c.users[t][v]
             /\ v \in made \union {r.user} => e.users[t][v] # Absent
  <2>1. /\ c.users[t][v] # Absent \/ v \notin made => d.users[t][v] = c.users[t][v]
        /\ v \in made => d.users[t][v] # Absent
    BY DEF Creates
  <2> QED BY <1>2, <1>3, <2>1
<1>5. ASSUME NEW s \in Inbounds(c), NEW t \in Inbounds(c), NEW v \in Users,
             InboundsOf(c, v) = {}, Kind(s) = Kind(t)
      PROVE  e.users[s][v] = e.users[t][v]
  <2>1. d.users[s][v] = d.users[t][v]
    BY <1>5 DEF Creates
  <2> QED BY <1>2, <1>5, <2>1
<1> QED BY <1>2, <1>4, <1>5 DEF Creates, e

LEMMA BatchCreates ==
    ASSUME NEW c \in Configurations, NEW batch \in Seq(Requests)
    PROVE  /\ Creates(c, CreateUsers(c, batch), BatchUsers(batch))
           /\ CreateUsers(c, batch).stats = InstalledUsers(CreateUsers(c, batch))
<1>1. PICK f : InstallsBatch(f, c, batch)
  BY CreateInstallsBatch
<1> DEFINE N == Len(batch)
           made(n) == {batch[i].user : i \in 1 .. n}
           S == {n \in Nat : n <= N => Creates(c, f[n], made(n))}
<1>2. N \in Nat /\ \A n \in 1 .. N : batch[n] \in Requests
  OBVIOUS
<1>3. 0 \in S
  <2>1. f[0] = c /\ made(0) = {}
    BY <1>1 DEF InstallsBatch
  <2>2. Creates(c, c, {})
    BY Fields DEF Creates, InboundsOf, Credentials
  <2> QED BY <2>1, <2>2
<1>4. ASSUME NEW n \in Nat, n \in S
      PROVE  n + 1 \in S
  <2> SUFFICES ASSUME n + 1 <= N
               PROVE  Creates(c, f[n + 1], made(n + 1))
    OBVIOUS
  <2>1. f[n + 1] = InstallUser(f[n], batch[n + 1])
    BY <1>1, <1>2 DEF InstallsBatch
  <2>2. made(n + 1) = made(n) \union {batch[n + 1].user}
    OBVIOUS
  <2>3. Creates(c, f[n], made(n)) /\ batch[n + 1] \in Requests
    BY <1>2, <1>4
  <2> QED BY <2>1, <2>2, <2>3, CreatesMore
<1> HIDE DEF S
<1>5. N \in S
  BY <1>2, <1>3, <1>4, Induction
<1>6. Creates(c, f[N], made(N))
  BY <1>2, <1>5 DEF S
<1>7. made(N) = BatchUsers(batch)
  BY DEF BatchUsers
<1>8. CreateUsers(c, batch) = SyncStats(f[N])
  BY <1>1 DEF InstallsBatch
<1> HIDE DEF made, N
<1>9. LET d == SyncStats(f[N])
      IN  /\ d \in Configurations /\ d.users = f[N].users
          /\ d.outbounds = f[N].outbounds /\ d.rules = f[N].rules
          /\ d.stats = InstalledUsers(d)
  BY <1>6, SyncStatsCounts DEF Creates
<1> QED BY <1>6, <1>7, <1>8, <1>9 DEF Creates, Inbounds

-----------------------------------------------------------------------------
(* Lists of rules.                                                         *)

OutsIn(rules, outs) ==
    \A i \in 1 .. Len(rules) : IsManaged(rules[i]) => rules[i].out \in outs
NoneEmpty(rules) == \A i \in 1 .. Len(rules) : IsManaged(rules[i]) => rules[i].users # {}
UsersIn(rules, us) == \A i \in 1 .. Len(rules) : rules[i].users \subseteq us
OnePerOut(rules) ==
    \A i, j \in 1 .. Len(rules) :
        IsManaged(rules[i]) /\ rules[i].out = rules[j].out => i = j

\* b is a with fewer users in its rules.
Trims(b, a) ==
    /\ Len(b) = Len(a)
    /\ \A i \in 1 .. Len(b) : b[i].out = a[i].out /\ b[i].users \subseteq a[i].users

\* Dropping rules spoils nothing of the others ...
LEMMA EmbeddedRules ==
    ASSUME NEW a \in Seq(Rules), NEW b \in Seq(Rules), NEW h, Embeds(b, a, h)
    PROVE  /\ \A outs : OutsIn(a, outs) => OutsIn(b, outs)
           /\ NoneEmpty(a) => NoneEmpty(b)
           /\ \A us : UsersIn(a, us) => UsersIn(b, us)
           /\ OnePerOut(a) => OnePerOut(b)
<1>1. \A i \in 1 .. Len(b) : h[i] \in 1 .. Len(a) /\ b[i] = a[h[i]]
  BY DEF Embeds
<1>2. \A i, j \in 1 .. Len(b) : h[i] = h[j] => i = j
  <2> SUFFICES ASSUME NEW i \in 1 .. Len(b), NEW j \in 1 .. Len(b), h[i] = h[j]
               PROVE  i = j
    OBVIOUS
  <2>1. ~ (i < j) /\ ~ (j < i)
    BY DEF Embeds
  <2> QED BY <2>1
<1>3. ASSUME NEW outs, OutsIn(a, outs)
      PROVE  OutsIn(b, outs)
  BY <1>1, <1>3 DEF OutsIn
<1>4. NoneEmpty(a) => NoneEmpty(b)
  BY <1>1 DEF NoneEmpty
<1>5. ASSUME NEW us, UsersIn(a, us)
      PROVE  UsersIn(b, us)
  BY <1>1, <1>5 DEF UsersIn
<1>6. ASSUME OnePerOut(a), NEW i \in 1 .. Len(b), NEW j \in 1 .. Len(b),
             IsManaged(b[i]), b[i].out = b[j].out
      PROVE  i = j
  <2>1. /\ h[i] \in 1 .. Len(a) /\ h[j] \in 1 .. Len(a)
        /\ IsManaged(a[h[i]]) /\ a[h[i]].out = a[h[j]].out
    BY <1>1, <1>6
  <2>2. h[i] = h[j]
    BY <1>6, <2>1 DEF OnePerOut
  <2> QED BY <1>2, <2>2
<1>7. OnePerOut(a) => OnePerOut(b)
  BY <1>6 DEF OnePerOut
<1> QED BY <1>3, <1>4, <1>5, <1>7

\* ... nor does taking users from them, except that a rule may lose its last.
LEMMA TrimmedRules ==
    ASSUME NEW a \in Seq(Rules), NEW b \in Seq(Rules), Trims(b, a)
    PROVE  /\ \A outs : OutsIn(a, outs) => OutsIn(b, outs)
           /\ \A us : UsersIn(a, us) => UsersIn(b, us)
           /\ OnePerOut(a) => OnePerOut(b)
<1>1. ASSUME NEW outs, OutsIn(a, outs)
      PROVE  OutsIn(b, outs)
  BY <1>1 DEF OutsIn, Trims, IsManaged
<1>2. ASSUME NEW us, UsersIn(a, us)
      PROVE  UsersIn(b, us)
  BY <1>2 DEF UsersIn, Trims
<1>3. OnePerOut(a) => OnePerOut(b)
  BY DEF OnePerOut, Trims, IsManaged
<1> QED BY <1>1, <1>2, <1>3

LEMMA AppendedRule ==
    ASSUME NEW a \in Seq(Rules), NEW r \in Rules
    PROVE  LET b == Append(a, r)
           IN  /\ b \in Seq(Rules) /\ Len(b) = Len(a) + 1 /\ b[Len(a) + 1] = r
               /\ \A i \in 1 .. Len(a) : i \in 1 .. Len(b) /\ b[i] = a[i]
               /\ \A i \in 1 .. Len(b) : i \in 1 .. Len(a) \/ i = Len(a) + 1
OBVIOUS

LEMMA AppendedRules ==
    ASSUME NEW a \in Seq(Rules), NEW r \in Rules
    PROVE  LET b == Append(a, r)
           IN  /\ \A outs : OutsIn(a, outs) /\ r.out \in outs => OutsIn(b, outs)
               /\ NoneEmpty(a) /\ r.users # {} => NoneEmpty(b)
               /\ \A us : UsersIn(a, us) /\ r.users \subseteq us => UsersIn(b, us)
               /\ OnePerOut(a) /\ (\A i \in 1 .. Len(a) : a[i].out # r.out) => OnePerOut(b)
<1> DEFINE b == Append(a, r)
           n == Len(a) + 1
<1>1. /\ Len(a) \in Nat /\ Len(b) = n /\ b[n] = r
      /\ \A i \in 1 .. Len(a) : b[i] = a[i]
      /\ \A i \in 1 .. n : i \in 1 .. Len(a) \/ i = n
  BY AppendedRule
<1> HIDE DEF b, n
<1>2. ASSUME NEW outs, OutsIn(a, outs), r.out \in outs
      PROVE  OutsIn(b, outs)
  BY <1>1, <1>2 DEF OutsIn
<1>3. NoneEmpty(a) /\ r.users # {} => NoneEmpty(b)
  BY <1>1 DEF NoneEmpty
<1>4. ASSUME NEW us, UsersIn(a, us), r.users \subseteq us
      PROVE  UsersIn(b, us)
  BY <1>1, <1>4 DEF UsersIn
<1>5. OnePerOut(a) /\ (\A i \in 1 .. Len(a) : a[i].out # r.out) => OnePerOut(b)
  BY <1>1 DEF OnePerOut
<1> QED BY <1>2, <1>3, <1>4, <1>5 DEF b

-----------------------------------------------------------------------------
(* Routes.                                                                 *)

\* b routes a user as a does if its rules are, in their order, rules of a that
\* match at most whom they matched, and those that decided are among them.
Routes(b, a, h, u) ==
    /\ h \in [1 .. Len(b) -> 1 .. Len(a)]
    /\ \A i, j \in 1 .. Len(b) : i < j => h[i] < h[j]
    /\ \A i \in 1 .. Len(b) :
          b[i].out = a[h[i]].out /\ (Matches(b[i], u) => Matches(a[h[i]], u))
    /\ \A j \in 1 .. Len(a) :
          Matches(a[j], u) /\ a[j].out = Target(a, u)
              => \E i \in 1 .. Len(b) : h[i] = j /\ Matches(b[i], u)

LEMMA SameTarget ==
    ASSUME NEW a \in Seq(Rules), NEW b \in Seq(Rules), NEW u, NEW h, Routes(b, a, h, u)
    PROVE  Target(b, u) = Target(a, u)
<1>1. /\ Matching(a, u) = {j \in 1 .. Len(a) : Matches(a[j], u)}
      /\ Matching(b, u) = {i \in 1 .. Len(b) : Matches(b[i], u)}
  BY DEF Matching
<1>2. /\ \A i \in 1 .. Len(b) : h[i] \in 1 .. Len(a)
      /\ \A i, j \in 1 .. Len(b) : i < j => h[i] < h[j]
      /\ \A i \in 1 .. Len(b) :
            b[i].out = a[h[i]].out /\ (Matches(b[i], u) => Matches(a[h[i]], u))
      /\ \A j \in 1 .. Len(a) :
            Matches(a[j], u) /\ a[j].out = Target(a, u)
                => \E i \in 1 .. Len(b) : h[i] = j /\ Matches(b[i], u)
  BY DEF Routes
<1>3. Matching(a, u) \subseteq Nat /\ Matching(b, u) \subseteq Nat
  BY <1>1
<1>4. CASE Matching(a, u) = {}
  <2>1. Matching(b, u) = {}
    BY <1>1, <1>2, <1>4
  <2> QED BY <1>4, <2>1 DEF Target
<1>5. CASE Matching(a, u) # {}
  <2> DEFINE x == First(Matching(b, u))
             y == First(Matching(a, u))
  <2>1. y \in Matching(a, u) /\ \A j \in Matching(a, u) : y <= j
    BY <1>3, <1>5, FirstIsLeast
  <2>2. Target(a, u) = a[y].out
    BY <1>5 DEF Target
  <2> HIDE DEF y
  <2>3. PICK z \in 1 .. Len(b) : h[z] = y /\ Matches(b[z], u)
    BY <1>1, <1>2, <2>1, <2>2
  <2>4. z \in Matching(b, u)
    BY <1>1, <2>3
  <2>5. x \in Matching(b, u) /\ \A i \in Matching(b, u) : x <= i
    BY <1>3, <2>4, FirstIsLeast
  <2>6. Target(b, u) = b[x].out
    BY <2>4 DEF Target
  <2> HIDE DEF x
  <2>7. x \in 1 .. Len(b) /\ h[x] \in Matching(a, u) /\ b[x].out = a[h[x]].out
    BY <1>1, <1>2, <2>5
  <2>8. x = z \/ h[x] < h[z]
    BY <1>2, <1>3, <2>3, <2>4, <2>5, <2>7
  <2>9. h[x] = y
    BY <1>3, <2>1, <2>3, <2>7, <2>8
  <2> QED BY <2>2, <2>6, <2>7, <2>9
<1> QED BY <1>4, <1>5

\* A last rule that does not match a user does not move the user, and one that
\* does catches whoever no managed rule matches.
LEMMA AppendedTarget ==
    ASSUME NEW a \in Seq(Rules), NEW r \in Rules, NEW u
    PROVE  /\ ~Matches(r, u) => Target(Append(a, r), u) = Target(a, u)
           /\ Matches(r, u) /\ Matching(a, u) = {} => Target(Append(a, r), u) = r.out
<1> DEFINE b == Append(a, r)
           n == Len(a) + 1
<1>1. /\ Len(a) \in Nat /\ Len(b) = n /\ b[n] = r /\ b \in Seq(Rules)
      /\ \A i \in 1 .. Len(a) : b[i] = a[i] /\ i \in 1 .. Len(b)
      /\ \A i \in 1 .. n : i \in 1 .. Len(a) \/ i = n
  BY AppendedRule
<1>2. /\ Matching(a, u) = {j \in 1 .. Len(a) : Matches(a[j], u)}
      /\ Matching(b, u) = {i \in 1 .. n : Matches(b[i], u)}
  BY <1>1 DEF Matching
<1> HIDE DEF b
<1>3. ASSUME ~Matches(r, u)
      PROVE  Target(b, u) = Target(a, u)
  <2>1. Matching(b, u) = Matching(a, u)
    BY <1>1, <1>2, <1>3
  <2>2. Matching(a, u) \subseteq Nat
    BY <1>2
  <2>3. Matching(a, u) # {} => First(Matching(a, u)) \in Matching(a, u)
    BY <2>2, FirstIsLeast
  <2>4. Matching(a, u) # {} => b[First(Matching(a, u))] = a[First(Matching(a, u))]
    BY <1>1, <1>2, <2>3
  <2> QED BY <2>1, <2>4 DEF Target
<1>4. ASSUME Matches(r, u), Matching(a, u) = {}
      PROVE  Target(b, u) = r.out
  <2>1. Matching(b, u) = {n}
    BY <1>1, <1>2, <1>4
  <2>2. n \in Nat
    BY <1>1 DEF n
  <2>3. Matching(b, u) \subseteq Nat /\ Matching(b, u) # {}
    BY <2>1, <2>2
  <2>4. First(Matching(b, u)) \in Matching(b, u)
    BY <2>3, FirstIsLeast
  <2> QED BY <1>1, <2>1, <2>4 DEF Target
<1> QED BY <1>3, <1>4 DEF b

\* A user is routed through an outbound by a rule of that outbound.
LEMMA TargetHasRule ==
    ASSUME NEW a \in Seq(Rules), NEW u, Target(a, u) # Plain
    PROVE  \E i \in 1 .. Len(a) : Matches(a[i], u) /\ a[i].out = Target(a, u)
<1>1. Matching(a, u) # {} /\ Target(a, u) = a[First(Matching(a, u))].out
  BY DEF Target
<1>2. Matching(a, u) = {i \in 1 .. Len(a) : Matches(a[i], u)}
  BY DEF Matching
<1>3. Matching(a, u) \subseteq Nat
  BY <1>2
<1>4. First(Matching(a, u)) \in Matching(a, u)
  BY <1>1, <1>3, FirstIsLeast
<1> QED BY <1>1, <1>2, <1>4

-----------------------------------------------------------------------------
(* What the operations make of the rules.                                  *)

LEMMA ChangedRule ==
    ASSUME NEW r \in Rules, NEW us \in SUBSET Users
    PROVE  LET q == [r EXCEPT !.users = us]
           IN  q \in Rules /\ q.out = r.out /\ q.users = us
BY DEF Rules

LEMMA RulesMade ==
    ASSUME NEW n \in Nat, NEW f \in [1 .. n -> Rules]
    PROVE  f \in Seq(Rules) /\ Len(f) = n
OBVIOUS

\* What is left when managed rules that name nobody are dropped, whatever
\* else is.
LEMMA WithoutEmptied ==
    ASSUME NEW a \in Seq(Rules), NEW dropped, EmptiedRules \subseteq dropped
    PROVE  NoneEmpty(Without(a, dropped))
<1> DEFINE b == Without(a, dropped)
<1>1. PICK h : /\ Embeds(b, a, h)
               /\ \A j \in 1 .. Len(a) :
                     a[j] \notin dropped <=> \E i \in 1 .. Len(b) : h[i] = j
  BY WithoutEmbeds
<1>2. b \in Seq(Rules)
  BY WithoutEmbeds
<1> HIDE DEF b
<1>3. ASSUME NEW i \in 1 .. Len(b), IsManaged(b[i]), b[i].users = {}
      PROVE  FALSE
  <2>1. h[i] \in 1 .. Len(a) /\ b[i] = a[h[i]] /\ b[i] \in Rules
    BY <1>1, <1>2 DEF Embeds
  <2>2. b[i] \notin dropped
    BY <1>1, <2>1
  <2> QED BY <1>3, <2>1, <2>2 DEF EmptiedRules
<1> QED BY <1>3 DEF NoneEmpty, b

\* The rules of an outbound: its first one, if any.
LEMMA FirstRuleOf ==
    ASSUME NEW c \in Configurations, NEW o
    PROVE  /\ FirstRule(c, o) = 0 => /\ \A i \in 1 .. Len(c.rules) : c.rules[i].out # o
                                     /\ RuleUsers(c, o) = {}
           /\ FirstRule(c, o) # 0 => /\ FirstRule(c, o) \in 1 .. Len(c.rules)
                                     /\ c.rules[FirstRule(c, o)].out = o
                                     /\ RuleUsers(c, o) = c.rules[FirstRule(c, o)].users
<1>1. RulesFor(c, o) = {i \in 1 .. Len(c.rules) : c.rules[i].out = o}
  BY Fields DEF RulesFor
<1>2. RulesFor(c, o) \subseteq Nat /\ 0 \notin RulesFor(c, o)
  BY <1>1
<1>3. RulesFor(c, o) # {} => First(RulesFor(c, o)) \in RulesFor(c, o)
  BY <1>2, FirstIsLeast
<1> QED BY <1>1, <1>2, <1>3 DEF FirstRule, RuleUsers

LEMMA OnlyRule ==
    ASSUME NEW c \in Configurations, NEW o \in Outbounds, OnePerOut(c.rules),
           NEW j \in 1 .. Len(c.rules), c.rules[j].out = o
    PROVE  j = FirstRule(c, o)
<1>1. FirstRule(c, o) \in 1 .. Len(c.rules) /\ c.rules[FirstRule(c, o)].out = o
  BY FirstRuleOf
<1>2. IsManaged(c.rules[j])
  BY NodeAssumption DEF IsManaged
<1> QED BY <1>1, <1>2 DEF OnePerOut

\* A deleted user leaves every inbound and every rule; nothing else changes
\* but that rules that named only this user go.
LEMMA DeletedUser ==
    ASSUME NEW c \in Configurations, NEW u \in Users
    PROVE  LET d == DeleteUser(c, u)
           IN  /\ d \in Configurations /\ Inbounds(d) = Inbounds(c)
               /\ d.outbounds = c.outbounds
               /\ \A t \in Inbounds(c) : \A v \in Users :
                     d.users[t][v] = IF v = u THEN Absent ELSE c.users[t][v]
               /\ InstalledUsers(d) = InstalledUsers(c) \ {u}
               /\ d.stats = InstalledUsers(d)
               /\ \A outs : OutsIn(c.rules, outs) => OutsIn(d.rules, outs)
               /\ NoneEmpty(d.rules)
               /\ \A us : UsersIn(c.rules, us) => UsersIn(d.rules, us \ {u})
               /\ OnePerOut(c.rules) => OnePerOut(d.rules)
<1> DEFINE a == c.rules
           n == Len(a)
           us == [t \in Inbounds(c) |-> [c.users[t] EXCEPT ![u] = Absent]]
           m == [i \in DOMAIN c.rules |-> [c.rules[i] EXCEPT !.users = @ \ {u}]]
           b == Without(m, EmptiedRules)
           e == [c EXCEPT !.users = us, !.rules = b]
           d == SyncStats(e)
<1>1. a \in Seq(Rules) /\ n \in Nat /\ DOMAIN c.rules = 1 .. n
      /\ \A i \in 1 .. n : a[i] \in Rules
  BY Fields
<1>2. ASSUME NEW i \in 1 .. n
      PROVE  m[i] \in Rules /\ m[i].out = a[i].out /\ m[i].users = a[i].users \ {u}
  <2>1. a[i].users \ {u} \in SUBSET Users
    BY <1>1 DEF Rules
  <2>2. m[i] = [a[i] EXCEPT !.users = a[i].users \ {u}]
    BY <1>1
  <2> QED BY <1>1, <2>1, <2>2, ChangedRule
<1>3. m \in Seq(Rules) /\ Len(m) = n
  <2>1. m \in [1 .. n -> Rules]
    BY <1>1, <1>2
  <2> QED BY <1>1, <2>1, RulesMade
<1>4. us \in [Inbounds(c) -> Credentials]
      /\ \A t \in Inbounds(c) : \A v \in Users :
            us[t][v] = IF v = u THEN Absent ELSE c.users[t][v]
  BY Fields DEF Credentials
<1>5. DeleteUser(c, u) = d
  BY DEF DeleteUser
<1>6. Trims(m, a)
  BY <1>2, <1>3 DEF Trims
<1> HIDE DEF us, m
<1>7. PICK h : Embeds(b, m, h)
  BY <1>3, WithoutEmbeds
<1>8. b \in Seq(Rules)
  BY <1>3, WithoutEmbeds
<1>9. NoneEmpty(b)
  BY <1>3, WithoutEmptied
<1>10. \A outs : OutsIn(a, outs) => OutsIn(b, outs)
  BY <1>1, <1>3, <1>6, <1>7, <1>8, TrimmedRules, EmbeddedRules
<1>11. OnePerOut(a) => OnePerOut(b)
  BY <1>1, <1>3, <1>6, <1>7, <1>8, TrimmedRules, EmbeddedRules
<1>12. ASSUME NEW vs, UsersIn(a, vs)
       PROVE  UsersIn(b, vs \ {u})
  <2>1. UsersIn(m, vs \ {u})
    BY <1>2, <1>3, <1>12 DEF UsersIn
  <2> QED BY <1>3, <1>7, <1>8, <2>1, EmbeddedRules
<1> HIDE DEF b
<1>13. /\ e \in Configurations /\ e.users = us /\ Inbounds(e) = Inbounds(c)
       /\ e.outbounds = c.outbounds /\ e.rules = b /\ e.stats = c.stats
  <2>1. Relists([c EXCEPT !.users = us, !.rules = b], c, us, b)
    BY <1>4, <1>8, WithUsersAndRules
  <2> QED BY <2>1 DEF Relists
<1> HIDE DEF e
<1>14. /\ d \in Configurations /\ d.users = us /\ Inbounds(d) = Inbounds(c)
       /\ d.outbounds = c.outbounds /\ d.rules = b /\ d.stats = InstalledUsers(d)
  BY <1>13, SyncStatsCounts DEF Inbounds
<1> HIDE DEF d
<1>15. InstalledUsers(d) = InstalledUsers(c) \ {u}
  <2>1. \A v \in Users : InboundsOf(d, v) = IF v = u THEN {} ELSE InboundsOf(c, v)
    BY <1>4, <1>14 DEF InboundsOf
  <2> QED BY <2>1 DEF InstalledUsers
<1> QED BY <1>4, <1>5, <1>9, <1>10, <1>11, <1>12, <1>14, <1>15

\* The two steps of ReplaceRule before the new rule.
Released(c, o, users) ==
    [i \in DOMAIN c.rules |->
        IF IsManaged(c.rules[i]) /\ c.rules[i].out # o
        THEN [c.rules[i] EXCEPT !.users = @ \ users]
        ELSE c.rules[i]]
Kept(c, o, users) == Without(Released(c, o, users), RulesOf(o) \union EmptiedRules)

Releases(m, c, o, users) ==
    /\ m \in Seq(Rules) /\ Len(m) = Len(c.rules)
    /\ \A i \in 1 .. Len(c.rules) :
          /\ m[i] \in Rules /\ m[i].out = c.rules[i].out
          /\ m[i].users = IF IsManaged(c.rules[i]) /\ c.rules[i].out # o
                          THEN c.rules[i].users \ users ELSE c.rules[i].users

LEMMA ReleasedRules ==
    ASSUME NEW c \in Configurations, NEW o, NEW users \in SUBSET Users
    PROVE  Releases(Released(c, o, users), c, o, users)
<1> DEFINE a == c.rules
           n == Len(a)
           m == Released(c, o, users)
<1>1. a \in Seq(Rules) /\ n \in Nat /\ DOMAIN c.rules = 1 .. n
      /\ \A i \in 1 .. n : a[i] \in Rules
  BY Fields
<1>2. ASSUME NEW i \in 1 .. n
      PROVE  /\ m[i] \in Rules /\ m[i].out = a[i].out
             /\ m[i].users = IF IsManaged(a[i]) /\ a[i].out # o
                             THEN a[i].users \ users ELSE a[i].users
  <2>1. m[i] = IF IsManaged(a[i]) /\ a[i].out # o
               THEN [a[i] EXCEPT !.users = a[i].users \ users] ELSE a[i]
    BY <1>1 DEF Released
  <2>2. a[i].users \ users \in SUBSET Users
    BY <1>1 DEF Rules
  <2>3. LET q == [a[i] EXCEPT !.users = a[i].users \ users]
        IN  q \in Rules /\ q.out = a[i].out /\ q.users = a[i].users \ users
    BY <1>1, <2>2, ChangedRule
  <2> QED BY <1>1, <2>1, <2>3
<1>3. m \in [1 .. n -> Rules]
  BY <1>1, <1>2 DEF Released
<1>4. m \in Seq(Rules) /\ Len(m) = n
  BY <1>1, <1>3, RulesMade
<1> QED BY <1>2, <1>4 DEF Releases

\* Before its new rule goes last an outbound has none, the users it is to
\* route are in none, and nobody else was moved but from the outbound.
LEMMA KeptRules ==
    ASSUME NEW c \in Configurations, NEW o, NEW users \in SUBSET Users
    PROVE  LET b == Kept(c, o, users)
           IN  /\ b \in Seq(Rules)
               /\ \A outs : OutsIn(c.rules, outs) => OutsIn(b, outs)
               /\ NoneEmpty(b)
               /\ \A us : UsersIn(c.rules, us) => UsersIn(b, us)
               /\ OnePerOut(c.rules) => OnePerOut(b)
               /\ \A i \in 1 .. Len(b) :
                     /\ b[i].out # o
                     /\ IsManaged(b[i]) => b[i].users \intersect users = {}
               /\ NoneEmpty(c.rules) =>
                     \A u \in Users \ users :
                         Target(c.rules, u) # o => Target(b, u) = Target(c.rules, u)
<1> DEFINE a == c.rules
           n == Len(a)
           m == Released(c, o, users)
           dropped == RulesOf(o) \union EmptiedRules
           b == Without(m, dropped)
<1>1. a \in Seq(Rules) /\ n \in Nat /\ \A i \in 1 .. n : a[i] \in Rules
  BY Fields
<1>2. /\ m \in Seq(Rules) /\ Len(m) = n
      /\ \A i \in 1 .. n :
            /\ m[i] \in Rules /\ m[i].out = a[i].out
            /\ m[i].users = IF IsManaged(a[i]) /\ a[i].out # o
                            THEN a[i].users \ users ELSE a[i].users
  <2>1. Releases(Released(c, o, users), c, o, users)
    BY ReleasedRules
  <2> QED BY <2>1 DEF Releases
<1>3. Trims(m, a)
  BY <1>2 DEF Trims
<1> HIDE DEF m
<1>4. PICK h : /\ Embeds(b, m, h)
               /\ \A j \in 1 .. Len(m) :
                     m[j] \notin dropped <=> \E i \in 1 .. Len(b) : h[i] = j
  <2>1. m \in Seq(Rules)
    BY <1>2
  <2> HIDE DEF dropped
  <2> QED BY <2>1, WithoutEmbeds
<1>5. b \in Seq(Rules)
  BY <1>2, WithoutEmbeds
<1>6. NoneEmpty(b)
  BY <1>2, WithoutEmptied
<1>7. Kept(c, o, users) = b
  BY DEF Kept, m
<1> HIDE DEF b
<1>8. \A outs : OutsIn(a, outs) => OutsIn(b, outs)
  BY <1>1, <1>2, <1>3, <1>4, <1>5, TrimmedRules, EmbeddedRules
<1>9. OnePerOut(a) => OnePerOut(b)
  BY <1>1, <1>2, <1>3, <1>4, <1>5, TrimmedRules, EmbeddedRules
<1>10. \A us : UsersIn(a, us) => UsersIn(b, us)
  BY <1>1, <1>2, <1>3, <1>4, <1>5, TrimmedRules, EmbeddedRules
<1>11. /\ h \in [1 .. Len(b) -> 1 .. n]
       /\ \A i, j \in 1 .. Len(b) : i < j => h[i] < h[j]
       /\ \A i \in 1 .. Len(b) : h[i] \in 1 .. n /\ b[i] = m[h[i]]
  BY <1>2, <1>4 DEF Embeds
<1>12. ASSUME NEW i \in 1 .. Len(b)
       PROVE  /\ b[i] \in Rules /\ b[i].out # o
              /\ b[i].out = a[h[i]].out
              /\ IsManaged(b[i]) => b[i].users = a[h[i]].users \ users
  <2>1. h[i] \in 1 .. n /\ b[i] = m[h[i]] /\ m[h[i]] \in Rules
    BY <1>2, <1>11
  <2>2. m[h[i]] \notin dropped
    BY <1>2, <1>4, <2>1
  <2>3. b[i].out # o
    BY <2>1, <2>2 DEF RulesOf
  <2>4. b[i].out = a[h[i]].out
    BY <1>2, <2>1
  <2> QED BY <1>2, <2>1, <2>3, <2>4 DEF IsManaged
<1>13. ASSUME NoneEmpty(a), NEW u \in Users \ users, Target(a, u) # o
       PROVE  Target(b, u) = Target(a, u)
  <2>1. ASSUME NEW i \in 1 .. Len(b), Matches(b[i], u)
        PROVE  Matches(a[h[i]], u)
    <3>1. IsManaged(b[i]) /\ b[i].users # {}
      BY <1>6, <2>1 DEF NoneEmpty, Matches
    <3>2. u \in a[h[i]].users /\ IsManaged(a[h[i]])
      BY <1>12, <2>1, <3>1 DEF Matches, IsManaged
    <3> QED BY <3>2 DEF Matches
  <2>2. ASSUME NEW j \in 1 .. n, Matches(a[j], u), a[j].out = Target(a, u)
        PROVE  \E i \in 1 .. Len(b) : h[i] = j /\ Matches(b[i], u)
    <3>1. IsManaged(a[j]) /\ a[j].out # o /\ u \in a[j].users
      BY <1>13, <2>2 DEF NoneEmpty, Matches
    <3>2. m[j].out = a[j].out /\ u \in m[j].users
      BY <1>2, <1>13, <3>1
    <3>3. m[j] \notin dropped
      BY <3>1, <3>2 DEF RulesOf, EmptiedRules
    <3>4. PICK i \in 1 .. Len(b) : h[i] = j
      BY <1>2, <1>4, <3>3
    <3>5. b[i] = m[j]
      BY <1>11, <3>4
    <3>6. Matches(b[i], u)
      BY <3>1, <3>2, <3>5 DEF Matches, IsManaged
    <3> QED BY <3>4, <3>6
  <2>3. Routes(b, a, h, u)
    BY <1>11, <1>12, <2>1, <2>2 DEF Routes
  <2> QED BY <1>1, <1>5, <2>3, SameTarget
<1> QED BY <1>5, <1>6, <1>7, <1>8, <1>9, <1>10, <1>12, <1>13

\* PUT /outbound: the users of the outbound are those it names, and nobody
\* else is moved but from the outbound.
LEMMA ReplacedRules ==
    ASSUME NEW c \in Configurations, NEW o \in Outbounds, NEW users \in SUBSET Users
    PROVE  LET b == ReplaceRule(c, o, users)
           IN  /\ b \in Seq(Rules)
               /\ \A outs : OutsIn(c.rules, outs) => OutsIn(b, outs \union {o})
               /\ NoneEmpty(b)
               /\ \A us : UsersIn(c.rules, us) /\ users \subseteq us => UsersIn(b, us)
               /\ OnePerOut(c.rules) => OnePerOut(b)
               /\ NoneEmpty(c.rules) =>
                     \A u \in Users :
                         /\ Target(b, u) = o <=> u \in users
                         /\ u \notin users /\ Target(c.rules, u) # o
                               => Target(b, u) = Target(c.rules, u)
<1> DEFINE k == Kept(c, o, users)
           r == [out |-> o, users |-> users]
           b == ReplaceRule(c, o, users)
<1>1. /\ k \in Seq(Rules)
      /\ \A outs : OutsIn(c.rules, outs) => OutsIn(k, outs)
      /\ NoneEmpty(k)
      /\ \A us : UsersIn(c.rules, us) => UsersIn(k, us)
      /\ OnePerOut(c.rules) => OnePerOut(k)
      /\ \A i \in 1 .. Len(k) :
            /\ k[i].out # o
            /\ IsManaged(k[i]) => k[i].users \intersect users = {}
      /\ NoneEmpty(c.rules) =>
            \A u \in Users \ users :
                Target(c.rules, u) # o => Target(k, u) = Target(c.rules, u)
  BY KeptRules
<1>2. b = IF users = {} THEN k ELSE Append(k, r)
  BY DEF ReplaceRule, Kept, Released
<1>3. r \in Rules /\ r.out = o /\ r.users = users /\ o # Plain
  BY NodeAssumption DEF Rules
<1> HIDE DEF k, r, b
<1>4. \A outs : OutsIn(k, outs) => OutsIn(k, outs \union {o})
  BY DEF OutsIn
<1>5. ASSUME NEW u, Target(k, u) = o
      PROVE  FALSE
  <2>1. PICK i \in 1 .. Len(k) : k[i].out = o
    BY <1>1, <1>3, <1>5, TargetHasRule
  <2> QED BY <1>1, <2>1
<1>6. CASE users = {}
  <2>1. b = k
    BY <1>2, <1>6
  <2> QED BY <1>1, <1>4, <1>5, <1>6, <2>1 DEF b
<1>7. CASE users # {}
  <2>1. b = Append(k, r)
    BY <1>2, <1>7
  <2>2. b \in Seq(Rules)
    BY <1>1, <1>3, <2>1
  <2>3. \A outs : OutsIn(c.rules, outs) => OutsIn(b, outs \union {o})
    BY <1>1, <1>3, <1>4, <2>1, AppendedRules
  <2>4. NoneEmpty(b)
    BY <1>1, <1>3, <1>7, <2>1, AppendedRules
  <2>5. \A us : UsersIn(c.rules, us) /\ users \subseteq us => UsersIn(b, us)
    BY <1>1, <1>3, <2>1, AppendedRules
  <2>6. OnePerOut(c.rules) => OnePerOut(b)
    BY <1>1, <1>3, <2>1, AppendedRules
  <2>7. ASSUME NoneEmpty(c.rules), NEW u \in Users
        PROVE  /\ Target(b, u) = o <=> u \in users
               /\ u \notin users /\ Target(c.rules, u) # o
                     => Target(b, u) = Target(c.rules, u)
    <3>1. Matches(r, u) <=> u \in users
      BY <1>3, <1>7 DEF Matches, IsManaged
    <3>2. CASE u \in users
      <4>1. Matching(k, u) = {}
        BY <1>1, <3>2 DEF Matching, Matches, NoneEmpty
      <4>2. Target(b, u) = o
        BY <1>1, <1>3, <2>1, <3>1, <3>2, <4>1, AppendedTarget
      <4> QED BY <3>2, <4>2
    <3>3. CASE u \notin users
      <4>1. Target(b, u) = Target(k, u)
        BY <1>1, <1>3, <2>1, <3>1, <3>3, AppendedTarget
      <4> QED BY <1>1, <1>5, <2>7, <3>3, <4>1
    <3> QED BY <3>2, <3>3
  <2> QED BY <2>2, <2>3, <2>4, <2>5, <2>6, <2>7 DEF b
<1> QED BY <1>6, <1>7

\* Dropping the rules of an outbound, or the template's.
LEMMA WithoutRulesOf ==
    ASSUME NEW a \in Seq(Rules), NEW o
    PROVE  LET b == Without(a, RulesOf(o))
           IN  /\ b \in Seq(Rules)
               /\ \A outs : OutsIn(a, outs) => OutsIn(b, outs)
               /\ NoneEmpty(a) => NoneEmpty(b)
               /\ \A us : UsersIn(a, us) => UsersIn(b, us)
               /\ OnePerOut(a) => OnePerOut(b)
               /\ \A i \in 1 .. Len(b) :
                     b[i].out # o /\ \E j \in 1 .. Len(a) : b[i] = a[j]
               /\ \A u : Target(a, u) # o => Target(b, u) = Target(a, u)
<1> DEFINE b == Without(a, RulesOf(o))
<1>1. PICK h : /\ Embeds(b, a, h)
               /\ \A j \in 1 .. Len(a) :
                     a[j] \notin RulesOf(o) <=> \E i \in 1 .. Len(b) : h[i] = j
  BY WithoutEmbeds
<1>2. b \in Seq(Rules)
  BY WithoutEmbeds
<1> HIDE DEF b
<1>3. /\ \A outs : OutsIn(a, outs) => OutsIn(b, outs)
      /\ NoneEmpty(a) => NoneEmpty(b)
      /\ \A us : UsersIn(a, us) => UsersIn(b, us)
      /\ OnePerOut(a) => OnePerOut(b)
  BY <1>1, <1>2, EmbeddedRules
<1>4. /\ h \in [1 .. Len(b) -> 1 .. Len(a)]
      /\ \A i, j \in 1 .. Len(b) : i < j => h[i] < h[j]
      /\ \A i \in 1 .. Len(b) : h[i] \in 1 .. Len(a) /\ b[i] = a[h[i]]
  BY <1>1 DEF Embeds
<1>5. \A i \in 1 .. Len(b) : b[i].out # o /\ \E j \in 1 .. Len(a) : b[i] = a[j]
  <2> SUFFICES ASSUME NEW i \in 1 .. Len(b)
               PROVE  b[i].out # o /\ \E j \in 1 .. Len(a) : b[i] = a[j]
    OBVIOUS
  <2>1. h[i] \in 1 .. Len(a) /\ b[i] = a[h[i]] /\ b[i] \in Rules
    BY <1>2, <1>4
  <2>2. b[i] \notin RulesOf(o)
    BY <1>1, <2>1
  <2> QED BY <2>1, <2>2 DEF RulesOf
<1>6. ASSUME NEW u, Target(a, u) # o
      PROVE  Target(b, u) = Target(a, u)
  <2>1. ASSUME NEW j \in 1 .. Len(a), Matches(a[j], u), a[j].out = Target(a, u)
        PROVE  \E i \in 1 .. Len(b) : h[i] = j /\ Matches(b[i], u)
    <3>1. a[j] \notin RulesOf(o)
      BY <1>6, <2>1 DEF RulesOf
    <3>2. PICK i \in 1 .. Len(b) : h[i] = j
      BY <1>1, <3>1
    <3> QED BY <1>4, <2>1, <3>2
  <2>2. Routes(b, a, h, u)
    BY <1>4, <2>1 DEF Routes
  <2> QED BY <1>2, <2>2, SameTarget
<1> QED BY <1>2, <1>3, <1>5, <1>6 DEF b

\* Replacing a rule of a list by one of the same outbound.
Alters(b, a, i, us) ==
    /\ b \in Seq(Rules) /\ Len(b) = Len(a)
    /\ \A j \in 1 .. Len(a) :
          /\ b[j].out = a[j].out
          /\ b[j].users = IF j = i THEN us ELSE a[j].users

LEMMA AlteredRule ==
    ASSUME NEW a \in Seq(Rules), NEW i \in 1 .. Len(a), NEW us \in SUBSET Users
    PROVE  Alters([a EXCEPT ![i].users = us], a, i, us)
<1> DEFINE b == [a EXCEPT ![i].users = us]
<1>1. Len(a) \in Nat /\ \A j \in 1 .. Len(a) : a[j] \in Rules
  OBVIOUS
<1>2. \A j \in 1 .. Len(a) : b[j] = IF j = i THEN [a[i] EXCEPT !.users = us] ELSE a[j]
  OBVIOUS
<1>3. LET q == [a[i] EXCEPT !.users = us]
      IN  q \in Rules /\ q.out = a[i].out /\ q.users = us
  BY <1>1, ChangedRule
<1>4. b \in [1 .. Len(a) -> Rules]
  BY <1>1, <1>2, <1>3
<1>5. b \in Seq(Rules) /\ Len(b) = Len(a)
  BY <1>1, <1>4, RulesMade
<1> QED BY <1>2, <1>3, <1>5 DEF Alters

\* The rules of AddUsers and RemoveUsers.
Added(c, o, users) ==
    IF FirstRule(c, o) = 0 THEN Append(c.rules, [out |-> o, users |-> users])
    ELSE [c.rules EXCEPT ![FirstRule(c, o)].users =
                            c.rules[FirstRule(c, o)].users \union users]

Removed(c, o, users) ==
    LET i    == FirstRule(c, o)
        left == c.rules[i].users \ users
    IN  IF left = {} THEN SubSeq(c.rules, 1, i - 1) \o SubSeq(c.rules, i + 1, Len(c.rules))
        ELSE [c.rules EXCEPT ![i].users = left]

\* PUT /outbound/{id}/user/{user} adds no second rule of an outbound.
LEMMA AddedRules ==
    ASSUME NEW c \in Configurations, NEW o \in Outbounds,
           NEW users \in SUBSET Users, users # {}
    PROVE  LET b == Added(c, o, users)
           IN  /\ b \in Seq(Rules)
               /\ \A outs : OutsIn(c.rules, outs) /\ o \in outs => OutsIn(b, outs)
               /\ NoneEmpty(c.rules) => NoneEmpty(b)
               /\ \A us : UsersIn(c.rules, us) /\ users \subseteq us => UsersIn(b, us)
               /\ OnePerOut(c.rules) => OnePerOut(b)
<1> DEFINE a == c.rules
           f == FirstRule(c, o)
           r == [out |-> o, users |-> users]
           b == Added(c, o, users)
<1>1. a \in Seq(Rules) /\ Len(a) \in Nat /\ \A i \in 1 .. Len(a) : a[i] \in Rules
  BY Fields
<1>2. r \in Rules /\ r.out = o /\ r.users = users
  BY DEF Rules
<1>3. CASE f = 0
  <2>1. b = Append(a, r)
    BY <1>3 DEF Added
  <2>2. \A i \in 1 .. Len(a) : a[i].out # o
    BY <1>3, FirstRuleOf
  <2> HIDE DEF a, r, b
  <2>3. b \in Seq(Rules)
    BY <1>1, <1>2, <2>1
  <2>4. \A outs : OutsIn(a, outs) /\ o \in outs => OutsIn(b, outs)
    BY <1>1, <1>2, <2>1, AppendedRules
  <2>5. NoneEmpty(a) => NoneEmpty(b)
    BY <1>1, <1>2, <2>1, AppendedRules
  <2>6. \A us : UsersIn(a, us) /\ users \subseteq us => UsersIn(b, us)
    BY <1>1, <1>2, <2>1, AppendedRules
  <2>7. OnePerOut(a) => OnePerOut(b)
    BY <1>1, <1>2, <2>1, <2>2, AppendedRules
  <2> QED BY <2>3, <2>4, <2>5, <2>6, <2>7 DEF a, b
<1>4. CASE f # 0
  <2>1. f \in 1 .. Len(a) /\ a[f].out = o
    BY <1>4, FirstRuleOf
  <2> DEFINE us == a[f].users \union users
  <2>2. us \in SUBSET Users
    BY <1>1, <2>1 DEF Rules
  <2>3. b = [a EXCEPT ![f].users = us]
    BY <1>4 DEF Added
  <2> HIDE DEF a, f, b, us
  <2>4. /\ b \in Seq(Rules) /\ Len(b) = Len(a)
        /\ \A j \in 1 .. Len(a) :
              /\ b[j].out = a[j].out
              /\ b[j].users = IF j = f THEN us ELSE a[j].users
    <3>1. Alters(b, a, f, us)
      BY <1>1, <2>1, <2>2, <2>3, AlteredRule
    <3> QED BY <3>1 DEF Alters
  <2>5. \A outs : OutsIn(a, outs) => OutsIn(b, outs)
    BY <2>4 DEF OutsIn, IsManaged
  <2>6. NoneEmpty(a) => NoneEmpty(b)
    BY <2>4 DEF NoneEmpty, IsManaged, us
  <2>7. \A vs : UsersIn(a, vs) /\ users \subseteq vs => UsersIn(b, vs)
    BY <2>1, <2>4 DEF UsersIn, us
  <2>8. OnePerOut(a) => OnePerOut(b)
    BY <2>4 DEF OnePerOut, IsManaged
  <2> QED BY <2>4, <2>5, <2>6, <2>7, <2>8 DEF a, b
<1> QED BY <1>3, <1>4

LEMMA JoinedRules ==
    ASSUME NEW x \in Seq(Rules), NEW y \in Seq(Rules)
    PROVE  /\ x \o y \in Seq(Rules) /\ Len(x \o y) = Len(x) + Len(y)
           /\ \A j \in 1 .. Len(x) : (x \o y)[j] = x[j]
           /\ \A j \in 1 .. Len(y) : (x \o y)[Len(x) + j] = y[j]
OBVIOUS

\* A list without one of its rules.
Cuts(b, a, i, h) ==
    /\ b \in Seq(Rules) /\ Embeds(b, a, h)
    /\ \A k \in 1 .. Len(a) : k # i => \E j \in 1 .. Len(b) : h[j] = k
    /\ \A j \in 1 .. Len(b) : h[j] # i

LEMMA CutRule ==
    ASSUME NEW a \in Seq(Rules), NEW i \in 1 .. Len(a)
    PROVE  Cuts(SubSeq(a, 1, i - 1) \o SubSeq(a, i + 1, Len(a)), a, i,
                [j \in 1 .. (Len(a) - 1) |-> IF j < i THEN j ELSE j + 1])
<1> DEFINE n == Len(a)
           x == SubSeq(a, 1, i - 1)
           y == SubSeq(a, i + 1, n)
           b == x \o y
           h == [j \in 1 .. (n - 1) |-> IF j < i THEN j ELSE j + 1]
<1>1. n \in Nat /\ i \in Nat /\ 1 <= i /\ i <= n
  OBVIOUS
<1>2. x \in Seq(Rules) /\ Len(x) = i - 1 /\ \A j \in 1 .. (i - 1) : x[j] = a[j]
  OBVIOUS
<1>3. y \in Seq(Rules) /\ Len(y) = n - i /\ \A j \in 1 .. (n - i) : y[j] = a[i + j]
  OBVIOUS
<1> HIDE DEF x, y
<1>4. b \in Seq(Rules) /\ Len(b) = n - 1
  <2>1. b \in Seq(Rules)
    BY <1>2, <1>3, JoinedRules
  <2>2. Len(b) = Len(x) + Len(y)
    BY <1>2, <1>3, JoinedRules
  <2> HIDE DEF b, n
  <2> QED BY <1>1, <1>2, <1>3, <2>1, <2>2
<1>5. ASSUME NEW j \in 1 .. (n - 1)
      PROVE  b[j] = a[h[j]] /\ h[j] \in 1 .. n /\ h[j] # i
  <2>1. CASE j < i
    <3>1. j \in 1 .. Len(x)
      BY <1>1, <1>2, <2>1
    <3>2. b[j] = x[j]
      BY <1>2, <1>3, <3>1, JoinedRules
    <3> QED BY <1>1, <1>2, <2>1, <3>1, <3>2
  <2>2. CASE ~ (j < i)
    <3> DEFINE k == j - (i - 1)
    <3>1. k \in 1 .. (n - i) /\ Len(x) + k = j /\ i + k = j + 1
      BY <1>1, <1>2, <2>2
    <3> HIDE DEF k
    <3>2. k \in 1 .. Len(y)
      BY <1>3, <3>1
    <3>3. b[Len(x) + k] = y[k]
      BY <1>2, <1>3, <3>2, JoinedRules
    <3> HIDE DEF b
    <3>4. b[j] = a[j + 1]
      BY <1>3, <3>1, <3>3
    <3>5. h[j] = j + 1
      BY <2>2
    <3> QED BY <1>1, <3>4, <3>5
  <2> QED BY <2>1, <2>2
<1> HIDE DEF b
<1>6. Embeds(b, a, h)
  BY <1>1, <1>4, <1>5 DEF Embeds
<1>7. ASSUME NEW k \in 1 .. n, k # i
      PROVE  \E j \in 1 .. (n - 1) : h[j] = k
  <2>1. CASE k < i
    <3>1. k \in 1 .. (n - 1) /\ h[k] = k
      BY <1>1, <2>1
    <3> QED BY <3>1
  <2>2. CASE ~ (k < i)
    <3>1. k - 1 \in 1 .. (n - 1) /\ h[k - 1] = k
      BY <1>1, <1>7, <2>2
    <3> QED BY <3>1
  <2> QED BY <2>1, <2>2
<1> QED BY <1>4, <1>5, <1>6, <1>7 DEF b, x, y, Cuts

\* DELETE /outbound/{id}/user/{user}, of an outbound with one rule: its users
\* are not routed through it any more and nobody else is moved.
LEMMA RemovedRules ==
    ASSUME NEW c \in Configurations, NEW o \in Outbounds, NEW users \in SUBSET Users,
           FirstRule(c, o) # 0, OnePerOut(c.rules), NoneEmpty(c.rules)
    PROVE  LET b == Removed(c, o, users)
           IN  /\ b \in Seq(Rules)
               /\ \A outs : OutsIn(c.rules, outs) => OutsIn(b, outs)
               /\ NoneEmpty(b)
               /\ \A us : UsersIn(c.rules, us) => UsersIn(b, us)
               /\ OnePerOut(b)
               /\ \A u \in Users : IF u \in users THEN Target(b, u) # o
                                   ELSE Target(b, u) = Target(c.rules, u)
<1> DEFINE a == c.rules
           n == Len(a)
           f == FirstRule(c, o)
           left == a[f].users \ users
           b == Removed(c, o, users)
<1>1. a \in Seq(Rules) /\ n \in Nat /\ \A i \in 1 .. n : a[i] \in Rules
  BY Fields
<1>2. f \in 1 .. n /\ a[f].out = o /\ o # Plain
  BY FirstRuleOf, NodeAssumption
<1>3. \A j \in 1 .. n : a[j].out = o => j = f
  BY OnlyRule
<1>4. \A u : \A j \in 1 .. n : Matches(a[j], u) <=> IsManaged(a[j]) /\ u \in a[j].users
  BY DEF NoneEmpty, Matches
<1>5. left \in SUBSET Users
  BY <1>1, <1>2 DEF Rules
<1>6. CASE left = {}
  <2> DEFINE h == [j \in 1 .. (n - 1) |-> IF j < f THEN j ELSE j + 1]
  <2>1. b = SubSeq(a, 1, f - 1) \o SubSeq(a, f + 1, n)
    BY <1>6 DEF Removed
  <2>2. /\ b \in Seq(Rules) /\ Embeds(b, a, h)
        /\ \A k \in 1 .. n : k # f => \E j \in 1 .. Len(b) : h[j] = k
        /\ \A j \in 1 .. Len(b) : h[j] # f
    <3>1. Cuts(b, a, f, h)
      BY <1>1, <1>2, <2>1, CutRule
    <3> QED BY <3>1 DEF Cuts
  <2> HIDE DEF a, n, f, b, h
  <2>3. /\ \A outs : OutsIn(a, outs) => OutsIn(b, outs)
        /\ NoneEmpty(a) => NoneEmpty(b)
        /\ \A us : UsersIn(a, us) => UsersIn(b, us)
        /\ OnePerOut(a) => OnePerOut(b)
    BY <1>1, <2>2, EmbeddedRules
  <2>4. /\ h \in [1 .. Len(b) -> 1 .. n]
        /\ \A i, j \in 1 .. Len(b) : i < j => h[i] < h[j]
        /\ \A i \in 1 .. Len(b) : h[i] \in 1 .. n /\ b[i] = a[h[i]]
    BY <2>2 DEF Embeds, n
  <2>5. ASSUME NEW u \in Users, u \in users
        PROVE  Target(b, u) # o
    <3>1. \A i \in 1 .. Len(b) : b[i].out # o
      BY <1>3, <2>2, <2>4
    <3> QED BY <1>2, <2>2, <3>1, TargetHasRule
  <2>6. ASSUME NEW u \in Users, u \notin users
        PROVE  Target(b, u) = Target(a, u)
    <3>1. ~ Matches(a[f], u)
      BY <1>2, <1>4, <1>6, <2>6
    <3>2. ASSUME NEW j \in 1 .. n, Matches(a[j], u)
          PROVE  \E i \in 1 .. Len(b) : h[i] = j /\ Matches(b[i], u)
      BY <2>2, <2>4, <3>1, <3>2
    <3>3. Routes(b, a, h, u)
      BY <2>4, <3>2 DEF Routes, n
    <3> QED BY <1>1, <2>2, <3>3, SameTarget
  <2> QED BY <2>2, <2>3, <2>5, <2>6 DEF a, b
<1>7. CASE left # {}
  <2> DEFINE h == [j \in 1 .. n |-> j]
  <2>1. b = [a EXCEPT ![f].users = left]
    BY <1>7 DEF Removed
  <2> HIDE DEF b
  <2>2. Alters(b, a, f, left)
    BY <1>1, <1>2, <1>5, <2>1, AlteredRule
  <2>3. /\ b \in Seq(Rules) /\ Len(b) = n
        /\ \A j \in 1 .. n : /\ b[j].out = a[j].out
                             /\ b[j].users = IF j = f THEN left ELSE a[j].users
    BY <2>2 DEF Alters
  <2>4. Trims(b, a)
    BY <2>3 DEF Trims
  <2> HIDE DEF a, f, h
  <2>5. /\ \A outs : OutsIn(a, outs) => OutsIn(b, outs)
        /\ \A us : UsersIn(a, us) => UsersIn(b, us)
        /\ OnePerOut(a) => OnePerOut(b)
    BY <1>1, <2>3, <2>4, TrimmedRules
  <2>6. NoneEmpty(b)
    <3>1. NoneEmpty(a)
      BY DEF a
    <3> QED BY <1>7, <2>3, <3>1 DEF NoneEmpty, IsManaged
  <2>7. ASSUME NEW j \in 1 .. n, NEW u
        PROVE  Matches(b[j], u) <=> Matches(a[j], u) /\ (j # f \/ u \notin users)
    <3>1. Matches(b[j], u) <=> IsManaged(b[j]) /\ u \in b[j].users
      BY <2>3, <2>6 DEF NoneEmpty, Matches
    <3>2. IsManaged(b[j]) <=> IsManaged(a[j])
      BY <2>3 DEF IsManaged
    <3>3. CASE j = f
      BY <1>4, <2>3, <3>1, <3>2, <3>3
    <3>4. CASE j # f
      BY <1>4, <2>3, <3>1, <3>2, <3>4
    <3> QED BY <3>3, <3>4
  <2>8. ASSUME NEW u \in Users, u \in users, Target(b, u) = o
        PROVE  FALSE
    <3>1. PICK i \in 1 .. n : Matches(b[i], u) /\ b[i].out = o
      BY <1>2, <2>3, <2>8, TargetHasRule
    <3>2. i = f
      BY <1>3, <2>3, <3>1
    <3> QED BY <2>7, <2>8, <3>1, <3>2
  <2>9. ASSUME NEW u \in Users, u \notin users
        PROVE  Target(b, u) = Target(a, u)
    <3>1. \A j \in 1 .. n : b[j].out = a[j].out /\ (Matches(b[j], u) <=> Matches(a[j], u))
      BY <2>3, <2>7, <2>9
    <3>2. /\ h \in [1 .. n -> 1 .. n] /\ \A i \in 1 .. n : h[i] = i
      BY DEF h
    <3>3. Routes(b, a, h, u)
      BY <2>3, <3>1, <3>2 DEF Routes
    <3> QED BY <1>1, <2>3, <3>3, SameTarget
  <2> QED BY <2>3, <2>5, <2>6, <2>8, <2>9 DEF a, b
<1> QED BY <1>6, <1>7

\* A new template's rules come first, the deployed managed ones follow.
LEMMA SyncedTemplate ==
    ASSUME NEW c \in Configurations, NEW tags \in SUBSET Tags
    PROVE  LET d == SyncTemplate(c, tags)
           IN  /\ d \in Configurations /\ Inbounds(d) = tags
               /\ d.outbounds = c.outbounds /\ d.stats = InstalledUsers(c)
               /\ \A t \in tags : \A v \in Users :
                     d.users[t][v] = IF t \in Inbounds(c) THEN c.users[t][v] ELSE Absent
               /\ \A outs : OutsIn(c.rules, outs) => OutsIn(d.rules, outs)
               /\ NoneEmpty(c.rules) => NoneEmpty(d.rules)
               /\ \A us : UsersIn(c.rules, us) => UsersIn(d.rules, us)
               /\ OnePerOut(c.rules) => OnePerOut(d.rules)
<1> DEFINE us == [t \in tags |-> IF t \in Inbounds(c) THEN c.users[t]
                                 ELSE [u \in Users |-> Absent]]
           own == Template(tags).rules
           b == Without(c.rules, RulesOf(Plain))
           rs == own \o b
           d == [users |-> us, outbounds |-> c.outbounds, rules |-> rs,
                 stats |-> InstalledUsers(c)]
           r == [out |-> Plain, users |-> {}]
<1>1. SyncTemplate(c, tags) = d
  BY DEF SyncTemplate
<1>2. us \in [tags -> Credentials]
      /\ \A t \in tags : \A v \in Users :
            us[t][v] = IF t \in Inbounds(c) THEN c.users[t][v] ELSE Absent
  BY Fields DEF Credentials
<1>3. own = <<r>> /\ r \in Rules /\ r.out = Plain /\ r.users = {}
  BY DEF Template, Rules
<1>4. c.rules \in Seq(Rules)
  BY Fields
<1>5. /\ b \in Seq(Rules)
      /\ \A outs : OutsIn(c.rules, outs) => OutsIn(b, outs)
      /\ NoneEmpty(c.rules) => NoneEmpty(b)
      /\ \A vs : UsersIn(c.rules, vs) => UsersIn(b, vs)
      /\ OnePerOut(c.rules) => OnePerOut(b)
      /\ \A i \in 1 .. Len(b) : b[i].out # Plain
  BY <1>4, WithoutRulesOf
<1> HIDE DEF us, b, r
<1>6. own \in Seq(Rules) /\ Len(own) = 1 /\ own[1] = r
  BY <1>3
<1> HIDE DEF own
<1>7. rs \in Seq(Rules)
  BY <1>5, <1>6, JoinedRules
<1>8. Len(rs) = 1 + Len(b)
  BY <1>5, <1>6, JoinedRules
<1>9. rs[1] = r /\ \A j \in 1 .. Len(b) : rs[1 + j] = b[j]
  <2>1. 1 \in 1 .. Len(own)
    BY <1>6
  <2> HIDE DEF rs
  <2>2. rs[1] = own[1]
    BY <1>5, <1>6, <2>1, JoinedRules DEF rs
  <2>3. \A j \in 1 .. Len(b) : rs[Len(own) + j] = b[j]
    BY <1>5, <1>6, JoinedRules DEF rs
  <2> QED BY <1>6, <2>2, <2>3
<1> HIDE DEF rs
<1>10. ASSUME NEW i \in 1 .. Len(rs)
       PROVE  i = 1 \/ \E j \in 1 .. Len(b) : i = 1 + j /\ rs[i] = b[j]
  <2>1. Len(b) \in Nat
    BY <1>5
  <2>2. CASE i # 1
    <3>1. i - 1 \in 1 .. Len(b) /\ i = 1 + (i - 1)
      BY <1>8, <2>1, <2>2
    <3> QED BY <1>9, <3>1
  <2> QED BY <2>2
<1>11. ~ IsManaged(rs[1]) /\ rs[1].users = {} /\ rs[1].out = Plain
  BY <1>3, <1>9 DEF IsManaged
<1>12. \A outs : OutsIn(b, outs) => OutsIn(rs, outs)
  BY <1>10, <1>11 DEF OutsIn
<1>13. NoneEmpty(b) => NoneEmpty(rs)
  BY <1>10, <1>11 DEF NoneEmpty
<1>14. \A vs : UsersIn(b, vs) => UsersIn(rs, vs)
  BY <1>10, <1>11 DEF UsersIn
<1>15. OnePerOut(b) => OnePerOut(rs)
  <2> SUFFICES ASSUME OnePerOut(b), NEW i \in 1 .. Len(rs), NEW k \in 1 .. Len(rs),
                      IsManaged(rs[i]), rs[i].out = rs[k].out
               PROVE  i = k
    BY DEF OnePerOut
  <2>1. i # 1 /\ k # 1
    BY <1>11 DEF IsManaged
  <2>2. PICK x \in 1 .. Len(b) : i = 1 + x /\ rs[i] = b[x]
    BY <1>10, <2>1
  <2>3. PICK y \in 1 .. Len(b) : k = 1 + y /\ rs[k] = b[y]
    BY <1>10, <2>1
  <2>4. x = y
    BY <2>2, <2>3 DEF OnePerOut
  <2> QED BY <2>2, <2>3, <2>4
<1>16. d \in Configurations
  <2>1. InstalledUsers(c) \in SUBSET Users
    BY DEF InstalledUsers
  <2>2. c.outbounds \in SUBSET Outbounds
    BY Fields
  <2> QED BY <1>2, <1>7, <2>1, <2>2, FieldsMake
<1>17. Inbounds(d) = tags
  BY <1>2 DEF Inbounds
<1>18. d.users = us /\ d.outbounds = c.outbounds /\ d.rules = rs
       /\ d.stats = InstalledUsers(c)
  OBVIOUS
<1> HIDE DEF d
<1> QED BY <1>1, <1>2, <1>5, <1>12, <1>13, <1>14, <1>15, <1>16, <1>17, <1>18
=============================================================================
