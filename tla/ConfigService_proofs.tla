------------------------- MODULE ConfigService_proofs -------------------------
(***************************************************************************)
(* What every sequence of service calls and template updates keeps of the  *)
(* configuration, for every set of users, secrets, outbounds, inbounds and *)
(* templates and every size of batch.                                      *)
(***************************************************************************)
EXTENDS ConfigService, NodeConfig_proofs, FiniteSetTheorems

-----------------------------------------------------------------------------
(* The inductive invariant.                                                *)

\* The rules are those the services' readers rely on, and nobody who has
\* credentials is missing from the statistics.
Sound(c) ==
    /\ c \in Configurations
    /\ OutsIn(c.rules, c.outbounds) /\ NoneEmpty(c.rules) /\ OnePerOut(c.rules)
    /\ InstalledUsers(c) \subseteq c.stats

IInv == Sound(config)

\* What a template that drops inbounds, and with them users, would spoil.
Current(c) == UsersIn(c.rules, InstalledUsers(c)) /\ c.stats = InstalledUsers(c)

TemplatesOnlyGrow == [][Inbounds(config) \subseteq Inbounds(config')]_vars

\* The credentials of c are those of d, except of the users who are gone.
Stable(c, d, gone) ==
    \A u \in Users \ gone : \A t \in InboundsOf(c, u) :
        t \in Inbounds(d) => d.users[t][u] = c.users[t][u]

\* What an operation that makes d of c preserves.
Keeps(c, d, gone) ==
    /\ Sound(d)
    /\ Current(c) /\ Inbounds(c) \subseteq Inbounds(d) => Current(d)
    /\ Stable(c, d, gone)

LEMMA MoreUsersIn ==
    ASSUME NEW rs, NEW us, NEW vs, UsersIn(rs, us), us \subseteq vs
    PROVE  UsersIn(rs, vs)
BY DEF UsersIn

\* An operation that leaves the credentials alone.
LEMMA ReroutesKeeps ==
    ASSUME NEW c, Sound(c), NEW d, NEW os, NEW rs, Reroutes(d, c, os, rs),
           OutsIn(rs, os), NoneEmpty(rs), OnePerOut(rs),
           UsersIn(c.rules, InstalledUsers(c)) => UsersIn(rs, InstalledUsers(c)),
           NEW gone
    PROVE  Keeps(c, d, gone)
<1>1. /\ d \in Configurations /\ d.users = c.users /\ Inbounds(d) = Inbounds(c)
      /\ d.outbounds = os /\ d.rules = rs /\ d.stats = c.stats
  BY DEF Reroutes
<1>2. InstalledUsers(d) = InstalledUsers(c)
  BY <1>1, SameUsersInstalled
<1>3. Sound(d)
  BY <1>1, <1>2 DEF Sound
<1>4. Current(c) => Current(d)
  BY <1>1, <1>2 DEF Current
<1>5. Stable(c, d, gone)
  BY <1>1 DEF Stable
<1> QED BY <1>3, <1>4, <1>5 DEF Keeps

LEMMA NothingKeeps ==
    ASSUME NEW c, Sound(c), NEW gone
    PROVE  Keeps(c, c, gone)
BY DEF Keeps, Stable

-----------------------------------------------------------------------------
(* Each operation.                                                         *)

LEMMA CreateKeeps ==
    ASSUME NEW c, Sound(c), NEW batch \in Seq(Requests), NEW gone
    PROVE  Keeps(c, CreateUsers(c, batch), gone)
<1> DEFINE d == CreateUsers(c, batch)
<1>1. c \in Configurations
  BY DEF Sound
<1>2. Creates(c, d, BatchUsers(batch)) /\ d.stats = InstalledUsers(d)
  BY <1>1, BatchCreates
<1> HIDE DEF d
<1>3. /\ d \in Configurations /\ Inbounds(d) = Inbounds(c)
      /\ d.outbounds = c.outbounds /\ d.rules = c.rules
      /\ \A t \in Inbounds(c), v \in Users :
            c.users[t][v] # Absent => d.users[t][v] = c.users[t][v]
  BY <1>2 DEF Creates
<1>4. Sound(d)
  BY <1>2, <1>3 DEF Sound
<1>5. InstalledUsers(c) \subseteq InstalledUsers(d)
  BY <1>3 DEF InstalledUsers, InboundsOf
<1>6. Current(c) => Current(d)
  BY <1>2, <1>3, <1>5, MoreUsersIn DEF Current
<1>7. Stable(c, d, gone)
  BY <1>3 DEF Stable, InboundsOf
<1> QED BY <1>4, <1>6, <1>7 DEF Keeps, d

LEMMA DeleteKeeps ==
    ASSUME NEW c, Sound(c), NEW u \in Users
    PROVE  Keeps(c, DeleteUser(c, u), {u})
<1> DEFINE d == DeleteUser(c, u)
<1>1. c \in Configurations
  BY DEF Sound
<1>2. /\ d \in Configurations /\ Inbounds(d) = Inbounds(c)
      /\ d.outbounds = c.outbounds
      /\ \A t \in Inbounds(c) : \A v \in Users :
            d.users[t][v] = IF v = u THEN Absent ELSE c.users[t][v]
      /\ InstalledUsers(d) = InstalledUsers(c) \ {u}
      /\ d.stats = InstalledUsers(d)
      /\ \A outs : OutsIn(c.rules, outs) => OutsIn(d.rules, outs)
      /\ NoneEmpty(d.rules)
      /\ \A us : UsersIn(c.rules, us) => UsersIn(d.rules, us \ {u})
      /\ OnePerOut(c.rules) => OnePerOut(d.rules)
  BY <1>1, DeletedUser
<1> HIDE DEF d
<1>3. Sound(d)
  BY <1>2 DEF Sound
<1>4. Current(c) => Current(d)
  BY <1>2 DEF Current
<1>5. Stable(c, d, {u})
  BY <1>2 DEF Stable, InboundsOf
<1> QED BY <1>3, <1>4, <1>5 DEF Keeps, d

LEMMA SetKeeps ==
    ASSUME NEW c, Sound(c), NEW o \in Outbounds, NEW users \in SUBSET Users,
           ~ SetOutboundRefused(c, users), NEW gone
    PROVE  Keeps(c, SetOutbound(c, o, users), gone)
<1> DEFINE rs == ReplaceRule(c, o, users)
           os == c.outbounds \union {o}
<1>1. c \in Configurations /\ users \subseteq InstalledUsers(c)
  BY DEF Sound, SetOutboundRefused
<1>2. os \in SUBSET Outbounds
  BY <1>1, Fields
<1>3. /\ rs \in Seq(Rules)
      /\ \A outs : OutsIn(c.rules, outs) => OutsIn(rs, outs \union {o})
      /\ NoneEmpty(rs)
      /\ \A us : UsersIn(c.rules, us) /\ users \subseteq us => UsersIn(rs, us)
      /\ OnePerOut(c.rules) => OnePerOut(rs)
  BY <1>1, ReplacedRules
<1>4. OutsIn(rs, os)
  BY <1>3 DEF Sound
<1>5. SetOutbound(c, o, users) = [c EXCEPT !.outbounds = os, !.rules = rs]
  BY DEF SetOutbound
<1> HIDE DEF rs, os
<1>6. Reroutes(SetOutbound(c, o, users), c, os, rs)
  <2>1. rs \in Seq(Rules)
    BY <1>3
  <2>2. Reroutes([c EXCEPT !.outbounds = os, !.rules = rs], c, os, rs)
    BY <1>1, <1>2, <2>1, WithRules
  <2> QED BY <1>5, <2>2
<1>7. NoneEmpty(rs) /\ OnePerOut(rs)
      /\ (UsersIn(c.rules, InstalledUsers(c)) => UsersIn(rs, InstalledUsers(c)))
  BY <1>1, <1>3 DEF Sound
<1> QED BY <1>4, <1>6, <1>7, ReroutesKeeps

\* An outbound that may be deleted has no rule.
LEMMA UnusedOutbound ==
    ASSUME NEW c, Sound(c), NEW o \in Outbounds, RuleUsers(c, o) = {}
    PROVE  \A i \in 1 .. Len(c.rules) : c.rules[i].out # o
<1>1. c \in Configurations /\ NoneEmpty(c.rules)
  BY DEF Sound
<1>2. CASE FirstRule(c, o) = 0
  BY <1>1, <1>2, FirstRuleOf
<1>3. CASE FirstRule(c, o) # 0
  <2> DEFINE f == FirstRule(c, o)
  <2>1. f \in 1 .. Len(c.rules) /\ c.rules[f].out = o /\ c.rules[f].users = {}
    BY <1>1, <1>3, FirstRuleOf
  <2>2. IsManaged(c.rules[f])
    BY <2>1, NodeAssumption DEF IsManaged
  <2> QED BY <1>1, <2>1, <2>2 DEF NoneEmpty
<1> QED BY <1>2, <1>3

LEMMA DropKeeps ==
    ASSUME NEW c, Sound(c), NEW o \in Outbounds, ~ DeleteOutboundRefused(c, o), NEW gone
    PROVE  Keeps(c, DeleteOutbound(c, o), gone)
<1> DEFINE rs == Without(c.rules, RulesOf(o))
           os == c.outbounds \ {o}
<1>1. c \in Configurations /\ c.rules \in Seq(Rules) /\ os \in SUBSET Outbounds
  BY Fields DEF Sound
<1>2. /\ rs \in Seq(Rules)
      /\ \A outs : OutsIn(c.rules, outs) => OutsIn(rs, outs)
      /\ NoneEmpty(c.rules) => NoneEmpty(rs)
      /\ \A us : UsersIn(c.rules, us) => UsersIn(rs, us)
      /\ OnePerOut(c.rules) => OnePerOut(rs)
      /\ \A i \in 1 .. Len(rs) : rs[i].out # o
  BY <1>1, WithoutRulesOf
<1>3. DeleteOutbound(c, o) = [c EXCEPT !.outbounds = os, !.rules = rs]
  BY DEF DeleteOutbound
<1>4. OutsIn(rs, c.outbounds)
  BY <1>2 DEF Sound
<1> HIDE DEF rs
<1>5. OutsIn(rs, os)
  BY <1>2, <1>4 DEF OutsIn
<1> HIDE DEF os
<1>6. Reroutes(DeleteOutbound(c, o), c, os, rs)
  BY <1>1, <1>2, <1>3, WithRules
<1>7. NoneEmpty(rs) /\ OnePerOut(rs)
      /\ (UsersIn(c.rules, InstalledUsers(c)) => UsersIn(rs, InstalledUsers(c)))
  BY <1>2 DEF Sound
<1> QED BY <1>5, <1>6, <1>7, ReroutesKeeps

LEMMA AddKeeps ==
    ASSUME NEW c, Sound(c), NEW o \in Outbounds, NEW users \in SUBSET Users, users # {},
           ~ AddUsersRefused(c, o, users), NEW gone
    PROVE  Keeps(c, AddUsers(c, o, users), gone)
<1> DEFINE rs == Added(c, o, users)
<1>1. c \in Configurations /\ o \in c.outbounds /\ users \subseteq InstalledUsers(c)
  BY DEF Sound, AddUsersRefused
<1>2. /\ rs \in Seq(Rules)
      /\ \A outs : OutsIn(c.rules, outs) /\ o \in outs => OutsIn(rs, outs)
      /\ NoneEmpty(c.rules) => NoneEmpty(rs)
      /\ \A us : UsersIn(c.rules, us) /\ users \subseteq us => UsersIn(rs, us)
      /\ OnePerOut(c.rules) => OnePerOut(rs)
  BY <1>1, AddedRules
<1>3. AddUsers(c, o, users) = [c EXCEPT !.rules = rs]
  BY DEF AddUsers, Added
<1> HIDE DEF rs
<1>4. c.outbounds \in SUBSET Outbounds
  BY <1>1, Fields
<1>5. Reroutes(AddUsers(c, o, users), c, c.outbounds, rs)
  BY <1>1, <1>2, <1>3, <1>4, WithRules
<1>6. OutsIn(rs, c.outbounds) /\ NoneEmpty(rs) /\ OnePerOut(rs)
      /\ (UsersIn(c.rules, InstalledUsers(c)) => UsersIn(rs, InstalledUsers(c)))
  BY <1>1, <1>2 DEF Sound
<1> QED BY <1>5, <1>6, ReroutesKeeps

\* Users to remove are users of a rule.
LEMMA RemovalHasRule ==
    ASSUME NEW c, Sound(c), NEW o, NEW users, ~ RemoveUsersSkips(c, o, users)
    PROVE  FirstRule(c, o) # 0
BY FirstRuleOf DEF Sound, RemoveUsersSkips

LEMMA RemoveKeeps ==
    ASSUME NEW c, Sound(c), NEW o \in Outbounds, NEW users \in SUBSET Users,
           ~ RemoveUsersSkips(c, o, users), NEW gone
    PROVE  Keeps(c, RemoveUsers(c, o, users), gone)
<1> DEFINE rs == Removed(c, o, users)
<1>1. c \in Configurations /\ OnePerOut(c.rules) /\ NoneEmpty(c.rules) /\ FirstRule(c, o) # 0
  BY RemovalHasRule DEF Sound
<1>2. /\ rs \in Seq(Rules)
      /\ \A outs : OutsIn(c.rules, outs) => OutsIn(rs, outs)
      /\ NoneEmpty(rs)
      /\ \A us : UsersIn(c.rules, us) => UsersIn(rs, us)
      /\ OnePerOut(rs)
  BY <1>1, RemovedRules
<1>3. RemoveUsers(c, o, users) = [c EXCEPT !.rules = rs]
  BY DEF RemoveUsers, Removed
<1> HIDE DEF rs
<1>4. c.outbounds \in SUBSET Outbounds
  BY <1>1, Fields
<1>5. Reroutes(RemoveUsers(c, o, users), c, c.outbounds, rs)
  BY <1>1, <1>2, <1>3, <1>4, WithRules
<1>6. OutsIn(rs, c.outbounds)
      /\ (UsersIn(c.rules, InstalledUsers(c)) => UsersIn(rs, InstalledUsers(c)))
  BY <1>2 DEF Sound
<1> QED BY <1>2, <1>5, <1>6, ReroutesKeeps

LEMMA UpdateKeeps ==
    ASSUME NEW c, Sound(c), NEW tags \in SUBSET Tags, NEW gone
    PROVE  Keeps(c, SyncTemplate(c, tags), gone)
<1> DEFINE d == SyncTemplate(c, tags)
<1>1. c \in Configurations
  BY DEF Sound
<1>2. /\ d \in Configurations /\ Inbounds(d) = tags
      /\ d.outbounds = c.outbounds /\ d.stats = InstalledUsers(c)
      /\ \A t \in tags : \A v \in Users :
            d.users[t][v] = IF t \in Inbounds(c) THEN c.users[t][v] ELSE Absent
      /\ \A outs : OutsIn(c.rules, outs) => OutsIn(d.rules, outs)
      /\ NoneEmpty(c.rules) => NoneEmpty(d.rules)
      /\ \A us : UsersIn(c.rules, us) => UsersIn(d.rules, us)
      /\ OnePerOut(c.rules) => OnePerOut(d.rules)
  BY <1>1, SyncedTemplate
<1> HIDE DEF d
<1>3. InstalledUsers(d) \subseteq InstalledUsers(c)
  BY <1>2 DEF InstalledUsers, InboundsOf
<1>4. Inbounds(c) \subseteq Inbounds(d) => InstalledUsers(c) \subseteq InstalledUsers(d)
  BY <1>2 DEF InstalledUsers, InboundsOf
<1>5. Sound(d)
  BY <1>2, <1>3 DEF Sound
<1>6. Current(c) /\ Inbounds(c) \subseteq Inbounds(d) => Current(d)
  BY <1>2, <1>3, <1>4, MoreUsersIn DEF Current
<1>7. Stable(c, d, gone)
  BY <1>2 DEF Stable, InboundsOf
<1> QED BY <1>5, <1>6, <1>7 DEF Keeps, d

-----------------------------------------------------------------------------
(* Every step.                                                             *)

\* Who a call deletes.
Deleted(request) == {u \in Users : request = [name |-> "delete", user |-> u]}

\* A mutation keeps what its result does.
LEMMA MutationKeeps ==
    ASSUME NEW request, NEW refused, NEW skips, NEW new, Sound(config),
           Mutate(request, refused, skips, new),
           ~ refused /\ ~ skips => Keeps(config, new, Deleted(request))
    PROVE  Keeps(config, config', Deleted(call'))
BY NothingKeeps DEF Mutate

LEMMA BatchIsSeq ==
    ASSUME NEW batch \in Batches
    PROVE  batch \in Seq(Requests)
BY ServiceAssumption DEF Batches

LEMMA OneRequest ==
    ASSUME NEW r \in Requests
    PROVE  <<r>> \in Seq(Requests) /\ BatchUsers(<<r>>) = {r.user} /\ r.user \in Users
<1>1. DOMAIN <<r>> = {1} /\ <<r>>[1] = r /\ <<r>> \in Seq(Requests)
  OBVIOUS
<1> QED BY <1>1 DEF BatchUsers, Requests

LEMMA StepKeeps ==
    ASSUME IInv, [Next]_vars
    PROVE  Keeps(config, config', Deleted(call'))
<1> SUFFICES ASSUME Sound(config)
             PROVE  Keeps(config, config', Deleted(call'))
  BY DEF IInv
<1>1. CASE UNCHANGED vars
  BY <1>1, NothingKeeps DEF vars
<1>2. ASSUME NEW r \in Requests, CreateUser(r)
      PROVE  Keeps(config, config', Deleted(call'))
  <2>1. Keeps(config, CreateUsers(config, <<r>>), Deleted([name |-> "create", user |-> r.user]))
    BY OneRequest, CreateKeeps
  <2> QED BY <1>2, <2>1, MutationKeeps DEF CreateUser
<1>3. ASSUME NEW batch \in Batches, CreateUserBatch(batch)
      PROVE  Keeps(config, config', Deleted(call'))
  <2>1. Keeps(config, CreateUsers(config, batch),
              Deleted([name |-> "batch", users |-> BatchUsers(batch)]))
    BY BatchIsSeq, CreateKeeps
  <2> QED BY <1>3, <2>1, MutationKeeps DEF CreateUserBatch
<1>4. ASSUME NEW u \in Users, DeleteOneUser(u)
      PROVE  Keeps(config, config', Deleted(call'))
  <2>1. Deleted([name |-> "delete", user |-> u]) = {u}
    BY DEF Deleted
  <2>2. Keeps(config, DeleteUser(config, u), Deleted([name |-> "delete", user |-> u]))
    BY <2>1, DeleteKeeps
  <2> QED BY <1>4, <2>2, MutationKeeps DEF DeleteOneUser
<1>5. ASSUME NEW o \in Outbounds, NEW users \in SUBSET Users, SetOneOutbound(o, users)
      PROVE  Keeps(config, config', Deleted(call'))
  <2>1. ~ SetOutboundRefused(config, users) =>
            Keeps(config, SetOutbound(config, o, users),
                  Deleted([name |-> "set", out |-> o, users |-> users]))
    BY SetKeeps
  <2> QED BY <1>5, <2>1, MutationKeeps DEF SetOneOutbound
<1>6. ASSUME NEW o \in Outbounds, DeleteOneOutbound(o)
      PROVE  Keeps(config, config', Deleted(call'))
  <2>1. ~ DeleteOutboundRefused(config, o) =>
            Keeps(config, DeleteOutbound(config, o), Deleted([name |-> "drop", out |-> o]))
    BY DropKeeps
  <2> QED BY <1>6, <2>1, MutationKeeps DEF DeleteOneOutbound
<1>7. ASSUME NEW o \in Outbounds, NEW users \in (SUBSET Users) \ {{}},
             AddOutboundUsers(o, users)
      PROVE  Keeps(config, config', Deleted(call'))
  <2>1. ~ AddUsersRefused(config, o, users) =>
            Keeps(config, AddUsers(config, o, users),
                  Deleted([name |-> "add", out |-> o, users |-> users]))
    BY AddKeeps
  <2> QED BY <1>7, <2>1, MutationKeeps DEF AddOutboundUsers
<1>8. ASSUME NEW o \in Outbounds, NEW users \in (SUBSET Users) \ {{}},
             RemoveOutboundUsers(o, users)
      PROVE  Keeps(config, config', Deleted(call'))
  <2>1. ~ RemoveUsersSkips(config, o, users) =>
            Keeps(config, RemoveUsers(config, o, users),
                  Deleted([name |-> "remove", out |-> o, users |-> users]))
    BY RemoveKeeps
  <2> QED BY <1>8, <2>1, MutationKeeps DEF RemoveOutboundUsers
<1>9. ASSUME NEW tags \in Templates, UpdateTemplate(tags)
      PROVE  Keeps(config, config', Deleted(call'))
  <2>1. tags \in SUBSET Tags
    BY ServiceAssumption
  <2> QED BY <1>9, <2>1, UpdateKeeps DEF UpdateTemplate
<1> QED BY <1>1, <1>2, <1>3, <1>4, <1>5, <1>6, <1>7, <1>8, <1>9 DEF Next

LEMMA InitSound == Init => IInv /\ Current(config)
<1> SUFFICES ASSUME Init
             PROVE  Sound(config) /\ Current(config)
  BY DEF IInv
<1> DEFINE us == [t \in InitialTags |-> [u \in Users |-> Absent]]
           r == [out |-> Plain, users |-> {}]
           rs == <<r>>
           d == [users |-> us, outbounds |-> {}, rules |-> rs, stats |-> {}]
<1>1. config = d
  BY DEF Init, Template
<1>2. us \in [InitialTags -> Credentials] /\ InitialTags \in SUBSET Tags
  BY ServiceAssumption DEF Credentials
<1>3. r \in Rules /\ r.out = Plain /\ r.users = {}
  BY DEF Rules
<1>4. rs \in Seq(Rules) /\ Len(rs) = 1 /\ rs[1] = r
  BY <1>3
<1>5. DOMAIN us = InitialTags /\ \A t \in InitialTags, u \in Users : us[t][u] = Absent
  OBVIOUS
<1> HIDE DEF us, r, rs
<1>6. d \in Configurations
  BY <1>2, <1>4, FieldsMake
<1>7. InstalledUsers(d) = {}
  BY <1>5 DEF InstalledUsers, InboundsOf, Inbounds
<1>8. OutsIn(rs, {}) /\ NoneEmpty(rs) /\ OnePerOut(rs) /\ UsersIn(rs, {})
  <2>1. \A i \in 1 .. Len(rs) : i = 1 /\ rs[i].users = {} /\ ~ IsManaged(rs[i])
    BY <1>3, <1>4 DEF IsManaged
  <2> QED BY <2>1 DEF OutsIn, NoneEmpty, OnePerOut, UsersIn
<1>9. d.outbounds = {} /\ d.rules = rs /\ d.stats = {}
  OBVIOUS
<1> HIDE DEF d
<1> QED BY <1>1, <1>6, <1>7, <1>8, <1>9 DEF Sound, Current

\* The configuration stays sound, whatever the services are called with, in
\* whatever order, whichever calls fail and whichever template an update
\* merges.
THEOREM Invariance == Spec => []IInv
<1>1. Init => IInv
  BY InitSound
<1>2. IInv /\ [Next]_vars => IInv'
  BY StepKeeps DEF Keeps, IInv
<1> QED BY <1>1, <1>2, PTL DEF Spec

\* Whatever is called, config.json holds a configuration.
THEOREM TypeCorrect == Spec => []TypeOK
<1>1. IInv => TypeOK
  BY DEF IInv, Sound, TypeOK
<1> QED BY <1>1, Invariance, PTL

\* add_users, remove_users and delete look only at the first rule of an
\* outbound, and there never is a second, whoever was routed before.
THEOREM FirstRuleIsOnly == Spec => []OneRulePerOutbound
<1>1. IInv => OneRulePerOutbound
  <2> SUFFICES ASSUME IInv, NEW o \in Outbounds
               PROVE  Cardinality(RulesFor(config, o)) <= 1
    BY DEF OneRulePerOutbound
  <2>1. config \in Configurations /\ OnePerOut(config.rules)
    BY DEF IInv, Sound
  <2>2. RulesFor(config, o) = {i \in 1 .. Len(config.rules) : config.rules[i].out = o}
    BY <2>1, Fields DEF RulesFor
  <2>3. \A i \in RulesFor(config, o) : i = FirstRule(config, o)
    BY <2>1, <2>2, OnlyRule
  <2>4. RulesFor(config, o) = {} \/ RulesFor(config, o) = {FirstRule(config, o)}
    BY <2>3
  <2>5. Cardinality({}) = 0 /\ Cardinality({FirstRule(config, o)}) = 1
    BY FS_EmptySet, FS_Singleton
  <2> QED BY <2>4, <2>5
<1> QED BY <1>1, Invariance, PTL

\* The statistics service never misses an installed user, whatever templates
\* bring or drop: their traffic is always counted.
THEOREM NobodyIsUncounted == Spec => [](InstalledUsers(config) \subseteq config.stats)
<1>1. IInv => InstalledUsers(config) \subseteq config.stats
  BY DEF IInv, Sound
<1> QED BY <1>1, Invariance, PTL

\* As long as no template update drops an inbound, the configuration's rules
\* and statistics name installed users only.
LEMMA StaysCurrent == Spec /\ TemplatesOnlyGrow => []Current(config)
<1>1. Init => Current(config)
  BY InitSound
<1>2. /\ IInv /\ Current(config) /\ [Next]_vars
      /\ [Inbounds(config) \subseteq Inbounds(config')]_vars
      => Current(config)'
  <2> SUFFICES ASSUME IInv, Current(config), [Next]_vars,
                      [Inbounds(config) \subseteq Inbounds(config')]_vars
               PROVE  Current(config')
    OBVIOUS
  <2>1. CASE Inbounds(config) \subseteq Inbounds(config')
    BY <2>1, StepKeeps DEF Keeps
  <2>2. CASE UNCHANGED vars
    BY <2>2 DEF vars
  <2> QED BY <2>1, <2>2
<1> QED BY <1>1, <1>2, Invariance, PTL DEF Spec, TemplatesOnlyGrow

\* sing-box always accepts the rules, none captures everybody's traffic and
\* none names a user who is gone, as long as no template update drops an
\* inbound and with it the last one of a user.
THEOREM RulesStaySound == Spec /\ TemplatesOnlyGrow => []RulesAreSound
<1>1. IInv /\ Current(config) => RulesAreSound
  <2> SUFFICES ASSUME IInv, Current(config)
               PROVE  RulesAreSound
    OBVIOUS
  <2>1. DOMAIN config.rules = 1 .. Len(config.rules)
    BY Fields DEF IInv, Sound
  <2> QED BY <2>1 DEF IInv, Sound, Current, OutsIn, NoneEmpty, UsersIn, RulesAreSound
<1> QED BY <1>1, Invariance, StaysCurrent, PTL

\* The statistics list names exactly the installed users after every call and
\* every merge of a template that drops no inbound.
THEOREM StatsAreCurrent == Spec /\ TemplatesOnlyGrow => []EveryUserCounted
<1>1. Current(config) => EveryUserCounted
  BY DEF Current, EveryUserCounted
<1> QED BY <1>1, StaysCurrent, PTL

\* No call but the deletion of a user changes a credential the user has, and
\* no template update does in an inbound it leaves.
THEOREM SecretsStay == Spec => SecretsAreStable
<1>1. ASSUME IInv, [Next]_vars, NEW u \in Users, NEW t \in InboundsOf(config, u),
             t \in Inbounds(config'), call' # [name |-> "delete", user |-> u]
      PROVE  config'.users[t][u] = config.users[t][u]
  <2>1. Stable(config, config', Deleted(call'))
    BY <1>1, StepKeeps DEF Keeps
  <2>2. u \notin Deleted(call')
    BY <1>1 DEF Deleted
  <2> QED BY <1>1, <2>1, <2>2 DEF Stable
<1>2. IInv /\ [Next]_vars =>
          [\A u \in Users : \A t \in InboundsOf(config, u) :
              t \in Inbounds(config') /\ call' # [name |-> "delete", user |-> u]
                  => config'.users[t][u] = config.users[t][u]]_vars
  BY <1>1
<1> QED BY <1>2, Invariance, PTL DEF Spec, SecretsAreStable

-----------------------------------------------------------------------------
(* What single calls do.                                                   *)

\* The name of a call tells which action made it.
LEMMA CallNames ==
    ASSUME Next
    PROVE  /\ call'.name = "create" => \E r \in Requests : CreateUser(r)
           /\ call'.name = "batch" => \E batch \in Batches : CreateUserBatch(batch)
           /\ call'.name = "set" =>
                 \E o \in Outbounds, users \in SUBSET Users : SetOneOutbound(o, users)
           /\ call'.name = "drop" => \E o \in Outbounds : DeleteOneOutbound(o)
           /\ call'.name = "remove" =>
                 \E o \in Outbounds, users \in SUBSET Users : RemoveOutboundUsers(o, users)
<1>1. ASSUME NEW r \in Requests, CreateUser(r)
      PROVE  call'.name = "create"
  <2>1. call' = [name |-> "create", user |-> r.user]
    BY <1>1 DEF CreateUser, Mutate
  <2> QED BY <2>1
<1>2. ASSUME NEW batch \in Batches, CreateUserBatch(batch)
      PROVE  call'.name = "batch"
  <2>1. call' = [name |-> "batch", users |-> BatchUsers(batch)]
    BY <1>2 DEF CreateUserBatch, Mutate
  <2> QED BY <2>1
<1>3. ASSUME NEW u \in Users, DeleteOneUser(u)
      PROVE  call'.name = "delete"
  <2>1. call' = [name |-> "delete", user |-> u]
    BY <1>3 DEF DeleteOneUser, Mutate
  <2> QED BY <2>1
<1>4. ASSUME NEW o \in Outbounds, NEW users \in SUBSET Users
      PROVE  /\ SetOneOutbound(o, users) => call'.name = "set"
             /\ AddOutboundUsers(o, users) => call'.name = "add"
             /\ RemoveOutboundUsers(o, users) => call'.name = "remove"
             /\ DeleteOneOutbound(o) => call'.name = "drop"
  <2>1. /\ SetOneOutbound(o, users) => call' = [name |-> "set", out |-> o, users |-> users]
        /\ AddOutboundUsers(o, users) => call' = [name |-> "add", out |-> o, users |-> users]
        /\ RemoveOutboundUsers(o, users)
              => call' = [name |-> "remove", out |-> o, users |-> users]
        /\ DeleteOneOutbound(o) => call' = [name |-> "drop", out |-> o]
    BY DEF SetOneOutbound, AddOutboundUsers, RemoveOutboundUsers, DeleteOneOutbound, Mutate
  <2> QED BY <2>1
<1>5. ASSUME NEW tags \in Templates, UpdateTemplate(tags)
      PROVE  call'.name = "update"
  <2>1. call' = [name |-> "update", tags |-> tags]
    BY <1>5 DEF UpdateTemplate
  <2> QED BY <2>1
<1>6. \/ \E r \in Requests : CreateUser(r)
      \/ \E batch \in Batches : CreateUserBatch(batch)
      \/ \E u \in Users : DeleteOneUser(u)
      \/ \E o \in Outbounds, users \in SUBSET Users : SetOneOutbound(o, users)
      \/ \E o \in Outbounds : DeleteOneOutbound(o)
      \/ \E o \in Outbounds, users \in SUBSET Users : AddOutboundUsers(o, users)
      \/ \E o \in Outbounds, users \in SUBSET Users : RemoveOutboundUsers(o, users)
      \/ \E tags \in Templates : UpdateTemplate(tags)
  BY DEF Next
<1>7. {} \in SUBSET Users
  OBVIOUS
<1> QED BY <1>1, <1>2, <1>3, <1>4, <1>5, <1>6, <1>7

\* What a call that creates users makes of the configuration.
Created(made) ==
    /\ made \subseteq Users
    /\ \/ config' = config /\ \A u \in made : MissingInbounds(config, u) = {}
       \/ Creates(config, config', made)

LEMMA CreateCalls ==
    ASSUME IInv, Next, Succeeds, call'.name \in {"create", "batch"}
    PROVE  Created(IF call'.name = "create" THEN {call'.user} ELSE call'.users)
<1>1. config \in Configurations
  BY DEF IInv, Sound
<1>2. CASE call'.name = "create"
  <2>1. PICK r \in Requests : CreateUser(r)
    BY <1>2, CallNames
  <2>2. <<r>> \in Seq(Requests) /\ BatchUsers(<<r>>) = {r.user} /\ r.user \in Users
    BY OneRequest
  <2>3. /\ call' = [name |-> "create", user |-> r.user]
        /\ \/ CreateSkips(config, <<r>>) /\ config' = config
           \/ config' = CreateUsers(config, <<r>>)
    BY <2>1 DEF CreateUser, Mutate, Succeeds
  <2>4. call'.user = r.user
    BY <2>3
  <2>5. Creates(config, CreateUsers(config, <<r>>), {r.user})
    BY <1>1, <2>2, BatchCreates
  <2>6. Created({r.user})
    BY <2>2, <2>3, <2>5 DEF Created, CreateSkips
  <2> QED BY <1>2, <2>4, <2>6
<1>3. CASE call'.name = "batch"
  <2>1. PICK batch \in Batches : CreateUserBatch(batch)
    BY <1>3, CallNames
  <2>2. batch \in Seq(Requests)
    BY BatchIsSeq
  <2>3. BatchUsers(batch) \subseteq Users
    <3>1. \A i \in DOMAIN batch : batch[i] \in Requests
      BY <2>2
    <3>2. \A r \in Requests : r.user \in Users
      BY DEF Requests
    <3> QED BY <3>1, <3>2 DEF BatchUsers
  <2>4. /\ call' = [name |-> "batch", users |-> BatchUsers(batch)]
        /\ \/ CreateSkips(config, batch) /\ config' = config
           \/ config' = CreateUsers(config, batch)
    BY <2>1 DEF CreateUserBatch, Mutate, Succeeds
  <2>5. call'.users = BatchUsers(batch)
    BY <2>4
  <2>6. Creates(config, CreateUsers(config, batch), BatchUsers(batch))
    BY <1>1, <2>2, BatchCreates
  <2>7. Created(BatchUsers(batch))
    BY <2>3, <2>4, <2>6 DEF Created, CreateSkips
  <2> QED BY <1>3, <2>5, <2>7
<1> QED BY <1>2, <1>3

\* A call that creates users leaves each of them in every inbound, the ones a
\* template brought after the user included, whatever was installed before.
THEOREM CreatedAreEverywhere == Spec => CreatedEverywhere
<1> DEFINE made == IF call'.name = "create" THEN {call'.user} ELSE call'.users
<1>1. ASSUME IInv, Next, Succeeds, call'.name \in {"create", "batch"}, NEW u \in made
      PROVE  InboundsOf(config', u) = Inbounds(config')
  <2>1. Created(made)
    BY <1>1, CreateCalls
  <2> HIDE DEF made
  <2>2. CASE config' = config /\ MissingInbounds(config, u) = {}
    BY <2>2 DEF MissingInbounds, InboundsOf
  <2>3. CASE Creates(config, config', made)
    BY <1>1, <2>1, <2>3 DEF Created, Creates, InboundsOf
  <2> QED BY <1>1, <2>1, <2>2, <2>3 DEF Created
<1>2. IInv /\ [Next]_vars =>
          [Succeeds /\ call'.name \in {"create", "batch"} =>
              \A u \in made : InboundsOf(config', u) = Inbounds(config')]_vars
  BY <1>1
<1> QED BY <1>2, Invariance, PTL DEF Spec, CreatedEverywhere

\* The one UUID and the one password a read reports of a user open every
\* inbound of theirs from the call that created the user, even when its batch
\* named the user again with other credentials.
THEOREM ReportedSecretsAreWorking == Spec => ReportedSecretsWork
<1>1. ASSUME IInv, Next, Succeeds, call'.name \in {"create", "batch"},
             NEW u \in InstalledUsers(config') \ InstalledUsers(config),
             NEW t \in InboundsOf(config', u)
      PROVE  config'.users[t][u] = KnownSecret(config', u, Kind(t))
  <2> DEFINE made == IF call'.name = "create" THEN {call'.user} ELSE call'.users
  <2>1. Created(made)
    BY <1>1, CreateCalls
  <2> HIDE DEF made
  <2>2. config' # config
    BY <1>1
  <2>3. Creates(config, config', made)
    BY <2>1, <2>2 DEF Created
  <2>4. config' \in Configurations /\ u \in Users /\ InboundsOf(config, u) = {}
        /\ Inbounds(config') = Inbounds(config)
    BY <1>1, <2>3 DEF Creates, InstalledUsers
  <2>5. PICK s \in InboundsOf(config', u) :
            Kind(s) = Kind(t) /\ KnownSecret(config', u, Kind(t)) = config'.users[s][u]
    BY <2>4, HeldIsKnown
  <2>6. s \in Inbounds(config) /\ t \in Inbounds(config)
    BY <2>4 DEF InboundsOf
  <2>7. config'.users[s][u] = config'.users[t][u]
    BY <2>3, <2>4, <2>5, <2>6 DEF Creates
  <2> QED BY <2>5, <2>7
<1>2. IInv /\ [Next]_vars =>
          [Succeeds /\ call'.name \in {"create", "batch"} =>
              \A u \in InstalledUsers(config') \ InstalledUsers(config) :
                  \A t \in InboundsOf(config', u) :
                      config'.users[t][u] = KnownSecret(config', u, Kind(t))]_vars
  BY <1>1
<1> QED BY <1>2, Invariance, PTL DEF Spec, ReportedSecretsWork

\* PUT /outbound routes exactly the users it names through the outbound and
\* moves nobody who was routed elsewhere, whatever rules the users had.
THEOREM SetIsExact == Spec => SetRoutesExactly
<1>1. ASSUME IInv, Next, Succeeds, call'.name = "set"
      PROVE  /\ \A u \in Users : RouteOf(config', u) = call'.out <=> u \in call'.users
             /\ \A u \in Users \ call'.users :
                   RouteOf(config, u) # call'.out => RouteOf(config', u) = RouteOf(config, u)
  <2>1. PICK o \in Outbounds, users \in SUBSET Users : SetOneOutbound(o, users)
    BY <1>1, CallNames
  <2>2. /\ call' = [name |-> "set", out |-> o, users |-> users]
        /\ config' = SetOutbound(config, o, users)
    BY <1>1, <2>1 DEF SetOneOutbound, Mutate, Succeeds
  <2>3. call'.out = o /\ call'.users = users
    BY <2>2
  <2>4. config \in Configurations /\ NoneEmpty(config.rules)
    BY <1>1 DEF IInv, Sound
  <2> DEFINE rs == ReplaceRule(config, o, users)
  <2>5. /\ rs \in Seq(Rules)
        /\ \A u \in Users :
              /\ Target(rs, u) = o <=> u \in users
              /\ u \notin users /\ Target(config.rules, u) # o
                    => Target(rs, u) = Target(config.rules, u)
    BY <2>4, ReplacedRules
  <2>6. config'.rules = rs
    BY <2>2, <2>4 DEF SetOutbound, Configurations
  <2> HIDE DEF rs
  <2> QED BY <2>3, <2>5, <2>6 DEF RouteOf
<1>2. IInv /\ [Next]_vars =>
          [Succeeds /\ call'.name = "set" =>
              /\ \A u \in Users : RouteOf(config', u) = call'.out <=> u \in call'.users
              /\ \A u \in Users \ call'.users :
                    RouteOf(config, u) # call'.out
                        => RouteOf(config', u) = RouteOf(config, u)]_vars
  BY <1>1
<1> QED BY <1>2, Invariance, PTL DEF Spec, SetRoutesExactly

\* A user removed from an outbound is not routed through it, nobody else is
\* moved, and deleting an outbound moves nobody: in both cases because an
\* outbound has one rule and no rule matches everybody.
THEOREM RemovedAreNotRouted == Spec => RemovedNotRouted
<1>1. ASSUME IInv, Next, Succeeds, call'.name = "remove", NEW u \in Users
      PROVE  IF u \in call'.users THEN RouteOf(config', u) # call'.out
             ELSE RouteOf(config', u) = RouteOf(config, u)
  <2>1. PICK o \in Outbounds, users \in SUBSET Users : RemoveOutboundUsers(o, users)
    BY <1>1, CallNames
  <2>2. /\ call' = [name |-> "remove", out |-> o, users |-> users]
        /\ \/ RemoveUsersSkips(config, o, users) /\ config' = config
           \/ ~ RemoveUsersSkips(config, o, users) /\ config' = RemoveUsers(config, o, users)
    BY <1>1, <2>1 DEF RemoveOutboundUsers, Mutate, Succeeds
  <2>3. call'.out = o /\ call'.users = users
    BY <2>2
  <2>4. Sound(config) /\ config \in Configurations /\ NoneEmpty(config.rules)
        /\ OnePerOut(config.rules)
    BY <1>1 DEF IInv, Sound
  <2>5. CASE RemoveUsersSkips(config, o, users) /\ config' = config
    <3> SUFFICES ASSUME u \in users, Target(config.rules, u) = o
                 PROVE  FALSE
      BY <2>3, <2>5 DEF RouteOf
    <3>1. o # Plain /\ config.rules \in Seq(Rules)
      BY <2>4, Fields, NodeAssumption
    <3>2. PICK i \in 1 .. Len(config.rules) :
              Matches(config.rules[i], u) /\ config.rules[i].out = o
      BY <3>1, TargetHasRule
    <3>3. u \in config.rules[i].users
      BY <2>4, <3>2 DEF NoneEmpty, Matches
    <3>4. i = FirstRule(config, o) /\ i # 0
      BY <2>4, <3>2, OnlyRule
    <3>5. u \in RuleUsers(config, o)
      BY <2>4, <3>3, <3>4, FirstRuleOf
    <3> QED BY <2>5, <3>5 DEF RemoveUsersSkips
  <2>6. CASE ~ RemoveUsersSkips(config, o, users) /\ config' = RemoveUsers(config, o, users)
    <3> DEFINE rs == Removed(config, o, users)
    <3>1. FirstRule(config, o) # 0
      BY <2>4, <2>6, RemovalHasRule
    <3>2. /\ rs \in Seq(Rules)
          /\ \A v \in Users : IF v \in users THEN Target(rs, v) # o
                              ELSE Target(rs, v) = Target(config.rules, v)
      BY <2>4, <3>1, RemovedRules
    <3>3. RemoveUsers(config, o, users) = [config EXCEPT !.rules = rs]
      BY DEF RemoveUsers, Removed
    <3> HIDE DEF rs
    <3>4. config'.rules = rs
      BY <2>4, <2>6, <3>3 DEF Configurations
    <3> QED BY <2>3, <3>2, <3>4 DEF RouteOf
  <2> QED BY <2>2, <2>5, <2>6
<1>2. ASSUME IInv, Next, Succeeds, call'.name = "drop", NEW u \in Users
      PROVE  RouteOf(config', u) = RouteOf(config, u)
  <2>1. PICK o \in Outbounds : DeleteOneOutbound(o)
    BY <1>2, CallNames
  <2>2. ~ DeleteOutboundRefused(config, o) /\ config' = DeleteOutbound(config, o)
    BY <1>2, <2>1 DEF DeleteOneOutbound, Mutate, Succeeds
  <2>3. Sound(config) /\ config \in Configurations /\ config.rules \in Seq(Rules)
    BY <1>2, Fields DEF IInv, Sound
  <2>4. \A i \in 1 .. Len(config.rules) : config.rules[i].out # o
    BY <2>2, <2>3, UnusedOutbound DEF DeleteOutboundRefused
  <2>5. o # Plain
    BY NodeAssumption
  <2>6. Target(config.rules, u) # o
    BY <2>3, <2>4, <2>5, TargetHasRule
  <2> DEFINE rs == Without(config.rules, RulesOf(o))
  <2>7. Target(rs, u) = Target(config.rules, u)
    BY <2>3, <2>6, WithoutRulesOf
  <2>8. config'.rules = rs
    BY <2>2, <2>3 DEF DeleteOutbound, Configurations
  <2> QED BY <2>7, <2>8 DEF RouteOf
<1>3. IInv /\ [Next]_vars =>
          [Succeeds /\ call'.name \in {"remove", "drop"} =>
              \A u \in Users :
                  IF call'.name = "remove" /\ u \in call'.users
                  THEN RouteOf(config', u) # call'.out
                  ELSE RouteOf(config', u) = RouteOf(config, u)]_vars
  BY <1>1, <1>2
<1> QED BY <1>3, Invariance, PTL DEF Spec, RemovedNotRouted
=============================================================================
