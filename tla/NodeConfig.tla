----------------------------- MODULE NodeConfig -----------------------------
(***************************************************************************)
(* The value the node keeps in config.json, and what each domain operation *)
(* makes of it: UserService, OutboundService (node/src/domain) and the     *)
(* template synchronisation of the update script.  Pure operators; the     *)
(* state machines that apply them are in other modules.  Operators named   *)
(* Bug... are faulty variants of the definition below them (README).       *)
(*                                                                         *)
(* A configuration is a record                                             *)
(*   users      configured inbound -> (user -> secret, or Absent)          *)
(*   outbounds  ids of the managed outbounds (tags "outbound:<id>")        *)
(*   rules      ordered routing rules [out, users]; template rules go to   *)
(*              Plain and name no user                                     *)
(*   stats      users the statistics service counts                        *)
(***************************************************************************)
EXTENDS Naturals, Sequences, FiniteSets

CONSTANTS
    Users, Secrets, Outbounds,
    ProtocolTags,   \* the supported inbounds, in the order of PROTOCOL_TAGS
    UuidTags,       \* those whose credential is the UUID (vless, vmess)
    Plain,          \* target of the template's own rules
    Absent          \* no credential: not installed, not requested

ASSUME NodeAssumption ==
    /\ Absent \notin Secrets /\ Plain \notin Outbounds
    /\ DOMAIN ProtocolTags \subseteq Nat

Tags == {ProtocolTags[i] : i \in DOMAIN ProtocolTags}
Rules == [out : Outbounds \union {Plain}, users : SUBSET Users]

\* Every inbound there may be, and what the services and the merge change of
\* it; the other parameters of inbounds and outbounds stay as they are.
Configurations ==
    [users     : UNION {[tags -> [Users -> Secrets \union {Absent}]] : tags \in SUBSET Tags},
     outbounds : SUBSET Outbounds,
     rules     : Seq(Rules),
     stats     : SUBSET Users]

\* The rendered template: no users, no managed outbounds, its own rules.
Template(tags) ==
    [users     |-> [t \in tags |-> [u \in Users |-> Absent]],
     outbounds |-> {},
     rules     |-> << [out |-> Plain, users |-> {}] >>,
     stats     |-> {}]

-----------------------------------------------------------------------------
(* Reading a configuration.                                                *)

First(indexes) == CHOOSE i \in indexes : \A j \in indexes : i <= j

Inbounds(c) == DOMAIN c.users
InboundsOf(c, u) == {t \in Inbounds(c) : c.users[t][u] # Absent}
InstalledUsers(c) == {u \in Users : InboundsOf(c, u) # {}}

Kind(tag) == IF tag \in UuidTags THEN "uuid" ELSE "password"

BugAnyKind(c, u, kind) ==
    LET holders == {i \in DOMAIN ProtocolTags : ProtocolTags[i] \in InboundsOf(c, u)}
    IN  IF holders = {} THEN Absent ELSE c.users[ProtocolTags[First(holders)]][u]

\* The first credential of a kind a user has, in protocol order: what a read
\* of the user reports and a repair reuses.
KnownSecret(c, u, kind) ==
    LET holders == {i \in DOMAIN ProtocolTags : /\ ProtocolTags[i] \in InboundsOf(c, u)
                                                /\ Kind(ProtocolTags[i]) = kind}
    IN  IF holders = {} THEN Absent ELSE c.users[ProtocolTags[First(holders)]][u]

RulesFor(c, o) == {i \in DOMAIN c.rules : c.rules[i].out = o}

\* next(rule for rule in rules if rule.outbound == tag)
FirstRule(c, o) == IF RulesFor(c, o) = {} THEN 0 ELSE First(RulesFor(c, o))

RuleUsers(c, o) ==
    IF FirstRule(c, o) = 0 THEN {} ELSE c.rules[FirstRule(c, o)].users

IsManaged(rule) == rule.out # Plain

\* A managed rule that names no user matches everybody.
Matches(rule, u) == IsManaged(rule) /\ (u \in rule.users \/ rule.users = {})
Matching(rules, u) == {i \in DOMAIN rules : Matches(rules[i], u)}

\* sing-box takes the first rule that matches.  Plain: the template's default
\* route.
Target(rules, u) ==
    IF Matching(rules, u) = {} THEN Plain ELSE rules[First(Matching(rules, u))].out

RouteOf(c, u) == Target(c.rules, u)

\* Filtering a list of rules, whose order counts.
Without(rules, dropped) ==
    LET kept[n \in 0 .. Len(rules)] ==
            IF n = 0 THEN <<>>
            ELSE IF rules[n] \in dropped THEN kept[n - 1]
            ELSE Append(kept[n - 1], rules[n])
    IN  kept[Len(rules)]

RulesOf(o) == {rule \in Rules : rule.out = o}
EmptiedRules == {rule \in Rules : IsManaged(rule) /\ rule.users = {}}

-----------------------------------------------------------------------------
(* Users.                                                                  *)

SyncStats(c) == [c EXCEPT !.stats = InstalledUsers(c)]

\* A requested user, and the credentials generated should they be needed.
Requests == [user : Users, uuid : Secrets \union {Absent}, password : Secrets \union {Absent},
             newUuid : Secrets, newPassword : Secrets]

MissingInbounds(c, u) == Inbounds(c) \ InboundsOf(c, u)

\* requested, or else already known, or else generated
ChosenSecret(c, r, kind) ==
    LET requested == IF kind = "uuid" THEN r.uuid ELSE r.password
        generated == IF kind = "uuid" THEN r.newUuid ELSE r.newPassword
        known     == KnownSecret(c, r.user, kind)
    IN  IF requested # Absent THEN requested
        ELSE IF known # Absent THEN known ELSE generated

BugOverwrites(c, r) ==
    [c EXCEPT !.users = [t \in Inbounds(c) |->
        [c.users[t] EXCEPT ![r.user] = ChosenSecret(c, r, Kind(t))]]]

InstallUser(c, r) ==
    [c EXCEPT !.users =
        [t \in Inbounds(c) |->
            IF t \in MissingInbounds(c, r.user)
            THEN [c.users[t] EXCEPT ![r.user] = ChosenSecret(c, r, Kind(t))]
            ELSE c.users[t]]]

BatchUsers(batch) == {batch[i].user : i \in DOMAIN batch}

CreateRefused(c, batch, skipExisting) ==
    \/ Inbounds(c) = {}
    \/ ~skipExisting /\ \E u \in BatchUsers(batch) : InboundsOf(c, u) # {}

BugSkipsPartial(c, batch) == \A u \in BatchUsers(batch) : InboundsOf(c, u) # {}

CreateSkips(c, batch) == \A u \in BatchUsers(batch) : MissingInbounds(c, u) = {}

CreateUsers(c, batch) ==
    LET after[n \in 0 .. Len(batch)] ==
            IF n = 0 THEN c ELSE InstallUser(after[n - 1], batch[n])
    IN  SyncStats(after[Len(batch)])

DeleteRefused(c, u) == InboundsOf(c, u) = {}

BugDropsColumn(c, u) ==
    [c EXCEPT !.users = [t \in Inbounds(c) |-> [v \in Users \ {u} |-> c.users[t][v]]]]

BugKeepsRules(c, u) ==
    SyncStats([c EXCEPT !.users =
        [t \in Inbounds(c) |-> [c.users[t] EXCEPT ![u] = Absent]]])

DeleteUser(c, u) ==
    LET uninstalled == [t \in Inbounds(c) |-> [c.users[t] EXCEPT ![u] = Absent]]
        unrouted    == [i \in DOMAIN c.rules |->
                            [c.rules[i] EXCEPT !.users = @ \ {u}]]
    IN  SyncStats([c EXCEPT !.users = uninstalled,
                            !.rules = Without(unrouted, EmptiedRules)])

-----------------------------------------------------------------------------
(* Managed outbounds.                                                      *)

SetOutboundRefused(c, users) == ~(users \subseteq InstalledUsers(c))

BugNoRelease(c, o, users) ==
    LET kept == Without(c.rules, RulesOf(o))
    IN  IF users = {} THEN kept ELSE Append(kept, [out |-> o, users |-> users])

\* The users leave every other managed rule, emptied rules and the outbound's
\* own are dropped, and its new rule goes last.
ReplaceRule(c, o, users) ==
    LET released == [i \in DOMAIN c.rules |->
                        IF IsManaged(c.rules[i]) /\ c.rules[i].out # o
                        THEN [c.rules[i] EXCEPT !.users = @ \ users]
                        ELSE c.rules[i]]
        kept     == Without(released, RulesOf(o) \union EmptiedRules)
    IN  IF users = {} THEN kept ELSE Append(kept, [out |-> o, users |-> users])

SetOutbound(c, o, users) ==
    [c EXCEPT !.outbounds = @ \union {o}, !.rules = ReplaceRule(c, o, users)]

DeleteOutboundRefused(c, o) == o \notin c.outbounds \/ RuleUsers(c, o) # {}

DeleteOutbound(c, o) ==
    [c EXCEPT !.outbounds = @ \ {o},
              !.rules = Without(@, RulesOf(o))]

AddUsersRefused(c, o, users) ==
    o \notin c.outbounds \/ ~(users \subseteq InstalledUsers(c))

AddUsersSkips(c, o, users) == users \subseteq RuleUsers(c, o)

BugSecondRule(c, o, users) ==
    [c EXCEPT !.rules = Append(@, [out |-> o, users |-> users])]

AddUsers(c, o, users) ==
    LET i == FirstRule(c, o)
    IN  [c EXCEPT !.rules =
            IF i = 0 THEN Append(@, [out |-> o, users |-> users])
            ELSE [@ EXCEPT ![i].users = c.rules[i].users \union users]]

RemoveUsersRefused(c, o) == o \notin c.outbounds

RemoveUsersSkips(c, o, users) == users \intersect RuleUsers(c, o) = {}

BugEmptyRule(c, o, users) ==
    [c EXCEPT !.rules = [@ EXCEPT ![FirstRule(c, o)].users = @ \ users]]

RemoveUsers(c, o, users) ==
    LET i    == FirstRule(c, o)
        left == c.rules[i].users \ users
    IN  [c EXCEPT !.rules = IF left = {} THEN SubSeq(@, 1, i - 1) \o SubSeq(@, i + 1, Len(@))
                            ELSE [@ EXCEPT ![i].users = left]]

-----------------------------------------------------------------------------
(* A new template (scripts/sync-singbox.py): users stay in the inbounds    *)
(* both have, managed outbounds and rules follow the template's own, every *)
(* deployed user stays counted.                                            *)

BugTemplateStats(c, tags) ==
    [users     |-> [t \in tags |-> IF t \in Inbounds(c) THEN c.users[t]
                                   ELSE [u \in Users |-> Absent]],
     outbounds |-> c.outbounds,
     rules     |-> Template(tags).rules \o Without(c.rules, RulesOf(Plain)),
     stats     |-> Template(tags).stats]

SyncTemplate(c, tags) ==
    [users     |-> [t \in tags |->
                        IF t \in Inbounds(c) THEN c.users[t]
                        ELSE [u \in Users |-> Absent]],
     outbounds |-> c.outbounds,
     rules     |-> Template(tags).rules \o Without(c.rules, RulesOf(Plain)),
     stats     |-> InstalledUsers(c)]
=============================================================================
