------------------------------ MODULE ServerStart ------------------------------
(* How `monzo-mcp serve` gets from flags and environment to a server: main    *)
(* (src/src/monzo_mcp/cli.py), the loaders and validators of mcp/settings.py, *)
(* the endpoint token file, serve_http and create_server.                     *)
(*                                                                            *)
(* A setting has a handful of values that the code tells apart: "good" and    *)
(* "bad" parse, and the validator takes or rejects them; "junk" does not      *)
(* parse; "empty" is the empty string.  Settings that are treated alike are   *)
(* one: "limits" are the two numeric ones, "paths" directory and key file.    *)
EXTENDS PrivateFile

CONSTANTS
    MaxEdits  \* bound: how often the operator changes a flag or a variable

ASSUME MaxEditsAssumption == MaxEdits \in Nat

VARIABLES
    flags,    \* the command line: flags[s] is a value or Unset
    env,      \* the environment
    edits,    \* changes made so far
    stage,    \* what main does next
    chosen,   \* the settings objects built so far
    tools     \* the tools that are served

vars == <<flags, env, edits, stage, chosen, tools, fileVars>>

-----------------------------------------------------------------------------
Unset == "unset"

\* What may be written into the environment for each setting.
Written == [
    writes |-> {"on", "off", "junk"},
    provider |-> {"local", "broker", "junk"},
    host |-> {"loopback", "open", "bad", "empty"},
    port |-> {"good", "bad", "junk"},
    token_file |-> {"good", "bad"},
    allowed_hosts |-> {"exact", "bad", "empty"},
    allowed_origins |-> {"good", "bad", "empty"},
    limits |-> {"good", "bad", "junk"},
    paths |-> {"good", "bad"},
    broker_url |-> {"good", "bad", "empty"},
    delegation_header |-> {"good", "bad", "empty"},
    broker_timeout |-> {"good", "bad", "junk"}]

Settings == DOMAIN Written

\* argparse refuses junk itself, and the empty host or origin is a bad one.
Flags(s) == CASE s \in {"provider", "limits"} -> {}
              [] s \in {"allowed_hosts", "allowed_origins"} -> Written[s] \ {"empty"}
              [] OTHER -> Written[s] \ {"junk"}

Default == [s \in Settings |->
    CASE s = "writes" -> "off"
      [] s = "provider" -> "local"
      [] s = "host" -> "open"
      [] s \in {"allowed_hosts", "allowed_origins", "broker_url"} -> "empty"
      [] OTHER -> "good"]

ServerSettings == {"writes", "provider"}
BrokerSettings == {"broker_url", "delegation_header", "broker_timeout"}
HttpSettings == {"host", "port", "token_file", "allowed_hosts", "allowed_origins", "limits"}

Values == (UNION {Written[s] : s \in Settings}) \cup {"loopback", Unset}
Stages == {"down", "server", "http", "token", "validate", "provider", "run",
           "serving", "refused"}
Tools == {"read", "mutate"}

Nothing == [s \in Settings |-> Unset]

TypeOK ==
    /\ flags \in [Settings -> Values]
    /\ env \in [Settings -> Values]
    /\ edits \in 0 .. MaxEdits
    /\ stage \in Stages
    /\ chosen \in [Settings -> Values]
    /\ tools \in SUBSET Tools
    /\ FileTypeOK

\* .env.example, and the environments of docs/wiki/Docker-Deployment.md.
ExampleEnvironment == [s \in Settings |->
    CASE s = "allowed_hosts" -> "exact"
      [] s \in BrokerSettings -> Unset
      [] OTHER -> Default[s]]
LocalEnvironment == [Nothing EXCEPT !["host"] = "open", !["allowed_hosts"] = "exact"]
BrokerEnvironment ==
    [LocalEnvironment EXCEPT !["provider"] = "broker", !["broker_url"] = "good"]

Init ==
    /\ flags = Nothing
    /\ env \in {Nothing, ExampleEnvironment, LocalEnvironment, BrokerEnvironment}
    /\ edits = 0
    /\ stage = "down"
    /\ chosen = Nothing
    /\ tools = {}
    /\ FileInit

-----------------------------------------------------------------------------
(* The operator.                                                              *)

Edit ==
    /\ stage = "down"
    /\ edits < MaxEdits
    /\ edits' = edits + 1
    /\ UNCHANGED <<stage, chosen, tools, fileVars>>

SetFlag(s) ==
    /\ Edit
    /\ flags' \in {[flags EXCEPT ![s] = v] : v \in Flags(s) \cup {Unset}}
    /\ UNCHANGED env

SetVariable(s) ==
    /\ Edit
    /\ env' \in {[env EXCEPT ![s] = v] : v \in Written[s] \cup {Unset}}
    /\ UNCHANGED flags

Start ==
    /\ stage = "down"
    /\ stage' = "server"
    /\ UNCHANGED <<flags, env, edits, chosen, tools, fileVars>>

\* The process has ended.
Stop ==
    /\ stage \in {"serving", "refused"}
    /\ stage' = "down"
    /\ chosen' = Nothing
    /\ tools' = {}
    /\ reader' = "idle" /\ opened' = "none" /\ value' = "none"
    /\ UNCHANGED <<flags, env, edits, file>>

-----------------------------------------------------------------------------
(* Selecting a value.                                                         *)

\* An empty string given as a flag counts as none: `host or os.environ.get(...)`.
Given(f, s) == f[s] \notin {Unset, "empty"}

\* Variant: os.environ.get without the default.
SelectedBare(f, e, s) == IF Given(f, s) THEN f[s] ELSE IF e[s] # Unset THEN e[s] ELSE "None"

Selected(f, e, s) ==
    IF Given(f, s) THEN f[s] ELSE IF e[s] # Unset THEN e[s] ELSE Default[s]

\* Variant: the default hosts are used for any bind.
HostsSelectedAlways(f, e) ==
    IF Selected(f, e, "allowed_hosts") # "empty"
    THEN Selected(f, e, "allowed_hosts")
    ELSE "loopback"

\* _default_allowed_hosts, when no host is listed: "empty" is refused.
HostsSelected(f, e) ==
    IF Selected(f, e, "allowed_hosts") = "empty" /\ Selected(f, e, "host") = "loopback"
    THEN "loopback"
    ELSE Selected(f, e, "allowed_hosts")

\* A settings object: what was selected for its fields.
Loaded(f, e, S) == [s \in S |->
    IF s = "allowed_hosts" THEN HostsSelected(f, e) ELSE Selected(f, e, s)]

Has(f, e, settings, bad) == \E s \in settings : Loaded(f, e, settings)[s] \in bad

-----------------------------------------------------------------------------
(* What makes each loader raise ServerConfigurationError.                     *)

ServerRefused(f, e) == Has(f, e, ServerSettings, {"junk"})

\* Variant: the port variable is parsed although there is a flag.
HttpUnreadableEagerly(f, e) ==
    Has(f, e, {"limits"}, {"junk"}) \/ e["port"] = "junk" \/ HostsSelected(f, e) = "empty"

\* Before the token file is read: numbers that do not parse, hosts that are missing.
HttpUnreadable(f, e) ==
    Has(f, e, {"port", "limits"}, {"junk"}) \/ HostsSelected(f, e) = "empty"

\* The validators of HttpServerSettings, after it; no origins are fine.
HttpInvalid(f, e) ==
    \/ Has(f, e, {"host"}, {"bad", "empty"})
    \/ Has(f, e, {"port", "limits", "allowed_hosts", "allowed_origins"}, {"bad"})

\* Variant: only the flags are looked at.
BrokerConfigurationFlagged(f, e) == \E s \in BrokerSettings : f[s] # Unset

\* _broker_configuration_supplied: an empty one counts.
BrokerConfigurationSupplied(f, e) ==
    \E s \in BrokerSettings : f[s] # Unset \/ e[s] # Unset

LocalRefused(f, e) == BrokerConfigurationSupplied(f, e) \/ Has(f, e, {"paths"}, {"bad"})

BrokerRefused(f, e) == Has(f, e, BrokerSettings, {"bad", "empty", "junk"})

\* access_token_provider_settings_from_environment: only the selected provider's
\* settings are loaded.
ProviderRefused(f, e, provider) ==
    IF provider = "broker" THEN BrokerRefused(f, e) ELSE LocalRefused(f, e)

ProviderSettings(provider) == IF provider = "broker" THEN BrokerSettings ELSE {"paths"}

-----------------------------------------------------------------------------
(* main.                                                                      *)

Refuse ==
    /\ stage' = "refused"
    /\ UNCHANGED chosen

Keep(settings, next) ==
    /\ stage' = next
    /\ chosen' = [s \in Settings |->
           IF s \in settings THEN Loaded(flags, env, settings)[s] ELSE chosen[s]]

LoadServerSettings ==
    /\ stage = "server"
    /\ IF ServerRefused(flags, env) THEN Refuse ELSE Keep(ServerSettings, "http")
    /\ UNCHANGED <<flags, env, edits, tools, fileVars>>

\* Up to the call of read_private_text_file, which wants an absolute path.
SelectHttpSettings ==
    /\ stage = "http"
    /\ IF HttpUnreadable(flags, env) \/ Selected(flags, env, "token_file") = "bad"
       THEN Refuse /\ UNCHANGED reader
       ELSE stage' = "token" /\ reader' = "called" /\ UNCHANGED chosen
    /\ UNCHANGED <<flags, env, edits, tools, file, opened, value>>

ReadToken ==
    /\ stage = "token"
    /\ ReaderStep
    /\ stage' = CASE reader' = "done" -> "validate"
                  [] reader' = "failed" -> "refused"
                  [] OTHER -> "token"
    /\ UNCHANGED <<flags, env, edits, chosen, tools>>

FileReplaced ==
    /\ Replaced
    /\ UNCHANGED <<flags, env, edits, stage, chosen, tools>>

\* endpoint_token_must_be_strong and the other validators.
ValidateHttpSettings ==
    /\ stage = "validate"
    /\ IF value # "fit" \/ HttpInvalid(flags, env)
       THEN Refuse
       ELSE Keep(HttpSettings, "provider")
    /\ UNCHANGED <<flags, env, edits, tools, fileVars>>

LoadProviderSettings ==
    /\ stage = "provider"
    /\ IF ProviderRefused(flags, env, chosen["provider"])
       THEN Refuse
       ELSE Keep(ProviderSettings(chosen["provider"]), "run")
    /\ UNCHANGED <<flags, env, edits, tools, fileVars>>

\* register_tools
Registered(writes) == {"read"} \cup (IF writes = "on" THEN {"mutate"} ELSE {})

\* serve_http and create_server; open_runtime may refuse the credentials.
Serve ==
    /\ stage = "run"
    /\ stage' \in {"serving", "refused"}
    /\ tools' = IF stage' = "serving" THEN Registered(chosen["writes"]) ELSE {}
    /\ UNCHANGED <<flags, env, edits, chosen, fileVars>>

Next ==
    \/ \E s \in Settings : SetFlag(s) \/ SetVariable(s)
    \/ Start
    \/ LoadServerSettings
    \/ SelectHttpSettings
    \/ ReadToken
    \/ FileReplaced
    \/ ValidateHttpSettings
    \/ LoadProviderSettings
    \/ Serve
    \/ Stop

Spec == Init /\ [][Next]_vars

-----------------------------------------------------------------------------
(* Properties.                                                                *)

Somewhere(s, v) == v \in {flags[s], env[s]}

\* Nothing that widens what the server does is implied: it listens beyond
\* loopback only with hosts the operator listed, it has mutation tools only if
\* told so, it uses a broker only if told so, and none only if nobody
\* configured one.
NothingImplied ==
    stage = "serving" =>
        /\ chosen["host"] # "loopback" => Somewhere("allowed_hosts", "exact")
        /\ "mutate" \in tools => Somewhere("writes", "on")
        /\ chosen["provider"] = "broker" => Somewhere("provider", "broker")
        /\ chosen["provider"] = "local" =>
               \A s \in BrokerSettings : flags[s] = Unset /\ env[s] = Unset

\* The settings main ends up with, none if it ends before.
Outcome(f, e) ==
    LET provider == Selected(f, e, "provider")
        used == ServerSettings \cup HttpSettings \cup ProviderSettings(provider)
    IN  IF \/ ServerRefused(f, e) \/ HttpUnreadable(f, e) \/ HttpInvalid(f, e)
           \/ Selected(f, e, "token_file") = "bad" \/ ProviderRefused(f, e, provider)
        THEN Nothing
        ELSE [s \in Settings |-> IF s \in used THEN Loaded(f, e, used)[s] ELSE Unset]

\* Flags override the environment: what a served setting's variable says, and
\* whether it would be refused, makes no difference once there is a flag.
FlagsOverride ==
    stage = "serving" =>
        \A s \in Settings : Given(flags, s) =>
            \A v \in Written[s] \cup {Unset} :
                Outcome(flags, [env EXCEPT ![s] = v]) = chosen

\* Once the endpoint settings stand, the token is strong and came from a private
\* regular file, whatever the path has named before and since.
TokenFromPrivateFile ==
    stage \in {"provider", "run", "serving"} => value = "fit" /\ opened = "private"

-----------------------------------------------------------------------------
(* Why the properties hold: what ServerStartProofs shows to be inductive.     *)

\* Each setting has one of its own values.
GivenValues ==
    /\ flags \in [Settings -> Values] /\ env \in [Settings -> Values]
    /\ \A s \in Settings : /\ flags[s] \in Flags(s) \cup {Unset}
                           /\ env[s] \in Written[s] \cup {Unset}

\* The settings kept before each stage.
Kept(next, provider) ==
    CASE next = "http" -> ServerSettings
      [] next \in {"token", "validate"} -> ServerSettings
      [] next = "provider" -> ServerSettings \cup HttpSettings
      [] next \in {"run", "serving"} ->
             ServerSettings \cup HttpSettings \cup ProviderSettings(provider)
      [] OTHER -> {}

Loading == stage \notin {"down", "refused"}

\* While main runs, it has kept what flags and environment select, and every
\* loader it has passed accepts them.
ChosenIsSelected ==
    /\ Loading => chosen = [s \in Settings |->
           IF s \in Kept(stage, Selected(flags, env, "provider"))
           THEN Loaded(flags, env, Settings)[s]
           ELSE Unset]
    /\ stage = "down" => chosen = Nothing
    /\ Loading /\ stage # "server" => ~ServerRefused(flags, env)
    /\ stage \in {"token", "validate", "provider", "run", "serving"} =>
           ~HttpUnreadable(flags, env) /\ Selected(flags, env, "token_file") # "bad"
    /\ stage \in {"provider", "run", "serving"} => ~HttpInvalid(flags, env)
    /\ stage \in {"run", "serving"} =>
           ~ProviderRefused(flags, env, Selected(flags, env, "provider"))
    /\ tools = IF stage = "serving" THEN Registered(chosen["writes"]) ELSE {}

\* The text was read through the descriptor that was checked.
ReaderInOrder ==
    /\ reader \in {"checked", "done"} => opened = "private"
    /\ stage \in {"validate", "provider", "run", "serving"} => reader = "done"
    /\ stage \in {"provider", "run", "serving"} => value = "fit"
=============================================================================
