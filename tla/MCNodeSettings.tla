--------------------------- MODULE MCNodeSettings ---------------------------
(***************************************************************************)
(* NodeSettings with the access settings of an installed node and four     *)
(* others, and one label of each kind.                                     *)
(***************************************************************************)
EXTENDS NodeSettings

Mode(hide, subscription, dev, secret) ==
    [hide |-> hide, subscription |-> subscription, dev |-> dev, secret |-> secret]

MCInstalled == Mode(TRUE, FALSE, FALSE, "set")
MCModes == {MCInstalled,
            Mode(FALSE, TRUE, FALSE, "set"),            \* public subscriptions
            Mode(FALSE, TRUE, FALSE, "placeholder"),    \* .env.example
            Mode(TRUE, TRUE, TRUE, "unset"),
            Mode(FALSE, FALSE, TRUE, "set")}            \* development

\* "Feint #1" loses its comment on the way through an env_file; "Feint {0}"
\* is a placeholder nobody fills.
MCLabels == {"Feint", "Feint #1", "Feint {username}", "Feint {0}"}
MCRejected == {"Feint {0}"}
MCAsRead == [l \in MCLabels |-> IF l = "Feint #1" THEN "Feint" ELSE l]
=============================================================================
