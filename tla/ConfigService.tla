---------------------------- MODULE ConfigService ----------------------------
(***************************************************************************)
(* The domain services over one stored configuration.  Every mutation is   *)
(* one step, which ConfigMutation shows it to be, and may fail leaving the *)
(* configuration as it was.  What matters here is what sequences of legal  *)
(* calls make of the configuration.                                        *)
(***************************************************************************)
EXTENDS NodeConfig

CONSTANTS
    Templates,      \* inbound sets the template may have after an update
    InitialTags,    \* inbounds of the installed template
    MaxBatch        \* bound: users of one POST /users

ASSUME ServiceAssumption ==
    /\ InitialTags \subseteq Tags /\ Templates \subseteq SUBSET Tags
    /\ MaxBatch \in Nat

VARIABLES
    config,         \* the committed configuration
    call,           \* the last call, as the router received it
    result          \* how it ended

vars == <<config, call, result>>

Batches == UNION {[1 .. n -> Requests] : n \in 1 .. MaxBatch}
NoCall == [name |-> "none"]

Init ==
    /\ config = Template(InitialTags)
    /\ call = NoCall
    /\ result = "none"

\* One mutation under the lock: refused with a domain error, answered without
\* a commit, committed, or failed and rolled back.
Mutate(request, refused, skips, new) ==
    /\ call' = request
    /\ \/ refused /\ result' = "refused" /\ config' = config
       \/ ~refused /\ skips /\ result' = "unchanged" /\ config' = config
       \/ ~refused /\ ~skips /\ result' = "ok" /\ config' = new
       \/ ~refused /\ ~skips /\ result' = "failed" /\ config' = config

CreateUser(r) ==
    Mutate([name |-> "create", user |-> r.user],
           CreateRefused(config, <<r>>, FALSE),
           CreateSkips(config, <<r>>),
           CreateUsers(config, <<r>>))

CreateUserBatch(batch) ==
    Mutate([name |-> "batch", users |-> BatchUsers(batch)],
           CreateRefused(config, batch, TRUE),
           CreateSkips(config, batch),
           CreateUsers(config, batch))

DeleteOneUser(u) ==
    Mutate([name |-> "delete", user |-> u],
           DeleteRefused(config, u), FALSE, DeleteUser(config, u))

SetOneOutbound(o, users) ==
    Mutate([name |-> "set", out |-> o, users |-> users],
           SetOutboundRefused(config, users), FALSE, SetOutbound(config, o, users))

DeleteOneOutbound(o) ==
    Mutate([name |-> "drop", out |-> o],
           DeleteOutboundRefused(config, o), FALSE, DeleteOutbound(config, o))

AddOutboundUsers(o, users) ==
    Mutate([name |-> "add", out |-> o, users |-> users],
           AddUsersRefused(config, o, users),
           AddUsersSkips(config, o, users),
           AddUsers(config, o, users))

RemoveOutboundUsers(o, users) ==
    Mutate([name |-> "remove", out |-> o, users |-> users],
           RemoveUsersRefused(config, o),
           RemoveUsersSkips(config, o, users),
           RemoveUsers(config, o, users))

\* update.sh renders a new template into the deployed configuration.
UpdateTemplate(tags) ==
    /\ call' = [name |-> "update", tags |-> tags]
    /\ result' = "ok"
    /\ config' = SyncTemplate(config, tags)

Next ==
    \/ \E r \in Requests : CreateUser(r)
    \/ \E batch \in Batches : CreateUserBatch(batch)
    \/ \E u \in Users : DeleteOneUser(u)
    \/ \E o \in Outbounds :
          \/ \E users \in SUBSET Users : SetOneOutbound(o, users)
          \/ DeleteOneOutbound(o)
          \/ \E users \in (SUBSET Users) \ {{}} : AddOutboundUsers(o, users)
          \/ \E users \in (SUBSET Users) \ {{}} : RemoveOutboundUsers(o, users)
    \/ \E tags \in Templates : UpdateTemplate(tags)

Spec == Init /\ [][Next]_vars

-----------------------------------------------------------------------------
(* Properties.                                                             *)

\* Whatever is called, the file holds a configuration.
TypeOK == config \in Configurations

\* sing-box refuses a configuration whose rule names an unknown outbound, a
\* managed rule that names no user would capture everybody's traffic, and one
\* that names a deleted user waits for a user of that name to be created again.
RulesAreSound ==
    \A i \in DOMAIN config.rules :
        LET rule == config.rules[i]
        IN  /\ IsManaged(rule) => rule.out \in config.outbounds /\ rule.users # {}
            /\ rule.users \subseteq InstalledUsers(config)

\* add_users, remove_users and delete look only at the first rule of an
\* outbound: there is never a second.
OneRulePerOutbound == \A o \in Outbounds : Cardinality(RulesFor(config, o)) <= 1

\* The statistics list names exactly the installed users, whichever operation
\* of the API or merge of a template that brings inbounds came last.
EveryUserCounted == config.stats = InstalledUsers(config)

\* A client's configuration outlives every call but the deletion of its user:
\* creating users again, in batches or not, changes no installed credential.
SecretsAreStable ==
    [][\A u \in Users : \A t \in InboundsOf(config, u) :
          t \in Inbounds(config') /\ call' # [name |-> "delete", user |-> u]
              => config'.users[t][u] = config.users[t][u]]_vars

Succeeds == result' \in {"ok", "unchanged"}

\* README: users are created across all protocol inbounds, also those a
\* template brought after the user.
CreatedEverywhere ==
    [][Succeeds /\ call'.name \in {"create", "batch"} =>
          LET made == IF call'.name = "create" THEN {call'.user} ELSE call'.users
          IN  \A u \in made : InboundsOf(config', u) = Inbounds(config')]_vars

\* GET /user reports one UUID and one password of a user: after a call that
\* created the user they open every inbound, whatever the rest of the batch
\* (the same user again, with other credentials) asked for.
ReportedSecretsWork ==
    [][Succeeds /\ call'.name \in {"create", "batch"} =>
          \A u \in InstalledUsers(config') \ InstalledUsers(config) :
              \A t \in InboundsOf(config', u) :
                  config'.users[t][u] = KnownSecret(config', u, Kind(t))]_vars

\* PUT /outbound routes exactly the users it names through the outbound, and
\* moves nobody who was routed elsewhere.
SetRoutesExactly ==
    [][Succeeds /\ call'.name = "set" =>
          /\ \A u \in Users : RouteOf(config', u) = call'.out <=> u \in call'.users
          /\ \A u \in Users \ call'.users :
                RouteOf(config, u) # call'.out => RouteOf(config', u) = RouteOf(config, u)]_vars

\* A user removed from an outbound is not routed through it, and nobody else
\* is moved; deleting an outbound, which is refused while anybody is routed
\* through it, moves nobody at all.
RemovedNotRouted ==
    [][Succeeds /\ call'.name \in {"remove", "drop"} =>
          \A u \in Users :
              IF call'.name = "remove" /\ u \in call'.users
              THEN RouteOf(config', u) # call'.out
              ELSE RouteOf(config', u) = RouteOf(config, u)]_vars

\* README: PUT /outbound/{id}/user/{user} "routes one existing user".
AddRoutesUsers ==
    [][Succeeds /\ call'.name = "add" =>
          \A u \in call'.users : RouteOf(config', u) = call'.out]_vars
=============================================================================
