--------------------------- MODULE ServerStartProofs ---------------------------
(* What the start of the server guarantees for any number of changes to flags *)
(* and environment.  MCServerStart checks the same formulas for two changes.  *)
EXTENDS ServerStart, TLAPS

-----------------------------------------------------------------------------
(* Settings and their values.                                                 *)

LEMMA SettingNames ==
    Settings = {"writes", "provider", "host", "port", "token_file", "allowed_hosts",
                "allowed_origins", "limits", "paths", "broker_url",
                "delegation_header", "broker_timeout"}
BY DEF Settings, Written

LEMMA WrittenValues ==
    ASSUME NEW s \in Settings
    PROVE  Written[s] \subseteq Values
BY DEF Values

LEMMA PlainValues == {"loopback", Unset} \subseteq Values
BY DEF Values

LEMMA DefaultWritten ==
    ASSUME NEW s \in Settings
    PROVE  Default[s] \in Written[s]
BY SettingNames DEF Default, Written

LEMMA FlagsWritten ==
    ASSUME NEW s \in Settings
    PROVE  Flags(s) \subseteq Written[s]
BY DEF Flags

LEMMA SelectedWritten ==
    ASSUME GivenValues, NEW s \in Settings
    PROVE  Selected(flags, env, s) \in Written[s]
BY DefaultWritten, FlagsWritten DEF Selected, Given, GivenValues

LEMMA LoadedValues ==
    ASSUME GivenValues, NEW S \in SUBSET Settings, NEW s \in S
    PROVE  /\ Loaded(flags, env, S)[s] \in Values
           /\ Loaded(flags, env, S)[s] = Loaded(flags, env, Settings)[s]
<1>1. \A r \in Settings : Selected(flags, env, r) \in Values
  BY SelectedWritten, WrittenValues
<1>2. HostsSelected(flags, env) \in Values
  <2>1. "allowed_hosts" \in Settings /\ "loopback" \in Values
    BY SettingNames, PlainValues
  <2> QED BY <1>1, <2>1 DEF HostsSelected
<1> QED BY <1>1, <1>2 DEF Loaded

LEMMA SettingGroups ==
    /\ ServerSettings \subseteq Settings /\ HttpSettings \subseteq Settings
    /\ \A provider : ProviderSettings(provider) \subseteq Settings
    /\ ServerSettings \cap HttpSettings = {}
BY SettingNames DEF ServerSettings, HttpSettings, ProviderSettings, BrokerSettings

-----------------------------------------------------------------------------
(* Type correctness.                                                          *)

LEMMA GivenInit == Init => GivenValues
<1> SUFFICES ASSUME Init PROVE GivenValues
  OBVIOUS
<1>1. Unset \in Values
  BY PlainValues
<1>2. \A s \in Settings : Nothing[s] = Unset
  BY DEF Nothing
<1> DEFINE Fine(e) == /\ e = [s \in Settings |-> e[s]]
                      /\ \A s \in Settings : e[s] \in Written[s] \cup {Unset}
<1>3. Fine(Nothing)
  BY DEF Nothing
<1>4. Fine(ExampleEnvironment)
  <2>1. "exact" \in Written["allowed_hosts"]
    BY DEF Written
  <2> QED BY <2>1, DefaultWritten DEF ExampleEnvironment
<1>5. Fine(LocalEnvironment)
  <2>1. "open" \in Written["host"] /\ "exact" \in Written["allowed_hosts"]
    BY DEF Written
  <2> QED BY <1>3, <2>1 DEF LocalEnvironment
<1>6. Fine(BrokerEnvironment)
  <2>1. "broker" \in Written["provider"] /\ "good" \in Written["broker_url"]
    BY DEF Written
  <2> QED BY <1>5, <2>1 DEF BrokerEnvironment
<1>7. Fine(env)
  BY <1>3, <1>4, <1>5, <1>6 DEF Init
<1> QED BY <1>1, <1>2, <1>7, WrittenValues DEF Init, GivenValues, Nothing

LEMMA GivenNext ==
    ASSUME GivenValues, [Next]_vars
    PROVE  GivenValues'
<1>1. Unset \in Values
  BY PlainValues
<1>2. ASSUME NEW s \in Settings, SetFlag(s) PROVE GivenValues'
  <2>1. PICK v \in Flags(s) \cup {Unset} : flags' = [flags EXCEPT ![s] = v]
    BY <1>2 DEF SetFlag
  <2>2. v \in Values /\ env' = env
    BY <1>1, <1>2, WrittenValues, FlagsWritten DEF SetFlag
  <2> QED BY <2>1, <2>2 DEF GivenValues
<1>3. ASSUME NEW s \in Settings, SetVariable(s) PROVE GivenValues'
  <2>1. PICK v \in Written[s] \cup {Unset} : env' = [env EXCEPT ![s] = v]
    BY <1>3 DEF SetVariable
  <2>2. v \in Values /\ flags' = flags
    BY <1>1, <1>3, WrittenValues DEF SetVariable
  <2> QED BY <2>1, <2>2 DEF GivenValues
<1>4. CASE UNCHANGED <<flags, env>>
  BY <1>4 DEF GivenValues
<1> QED BY <1>2, <1>3, <1>4 DEF Next, vars, Start, LoadServerSettings, SelectHttpSettings,
           ReadToken, FileReplaced, ValidateHttpSettings, LoadProviderSettings, Serve, Stop

LEMMA FileTypeNext ==
    ASSUME FileTypeOK, Replaced \/ ReaderStep
    PROVE  FileTypeOK'
BY DEF FileTypeOK, Replaced, ReaderStep, Lstat, Open, OpenRefused, Fstat, ReadText,
       ReadNothing, Files, Readers

LEMMA KeepTypes ==
    ASSUME GivenValues, NEW S \in SUBSET Settings, NEW next,
           chosen \in [Settings -> Values], Keep(S, next)
    PROVE  chosen' \in [Settings -> Values] /\ stage' = next
BY LoadedValues DEF Keep

LEMMA TypeInit == Init => TypeOK
<1> SUFFICES ASSUME Init PROVE TypeOK
  OBVIOUS
<1>1. Nothing \in [Settings -> Values]
  BY PlainValues DEF Nothing
<1>2. flags \in [Settings -> Values] /\ env \in [Settings -> Values]
  BY GivenInit DEF GivenValues
<1> QED BY <1>1, <1>2, MaxEditsAssumption
        DEF Init, TypeOK, Stages, FileInit, FileTypeOK, Files, Readers

LEMMA TypeNext ==
    ASSUME TypeOK, GivenValues, [Next]_vars
    PROVE  TypeOK'
<1> USE DEF fileVars
<1>1. flags' \in [Settings -> Values] /\ env' \in [Settings -> Values]
  BY GivenNext DEF GivenValues
<1>2. CASE Edit
  BY <1>1, <1>2, MaxEditsAssumption DEF Edit, TypeOK, FileTypeOK
<1>3. CASE LoadServerSettings
  <2>1. chosen' \in [Settings -> Values] /\ stage' \in Stages
    BY <1>3, KeepTypes, SettingGroups DEF LoadServerSettings, Refuse, TypeOK, Stages
  <2> QED BY <1>1, <1>3, <2>1 DEF LoadServerSettings, TypeOK, FileTypeOK
<1>4. CASE SelectHttpSettings
  BY <1>1, <1>4 DEF SelectHttpSettings, Refuse, TypeOK, FileTypeOK, Readers, Stages
<1>5. CASE ReadToken
  <2>1. FileTypeOK'
    BY <1>5, FileTypeNext DEF ReadToken, TypeOK
  <2>2. stage' \in Stages
    <3>1. stage' \in {"validate", "refused", "token"}
      BY <1>5 DEF ReadToken
    <3> QED BY <3>1 DEF Stages
  <2> QED BY <1>1, <1>5, <2>1, <2>2 DEF ReadToken, TypeOK
<1>6. CASE FileReplaced
  <2>1. FileTypeOK'
    BY <1>6, FileTypeNext DEF FileReplaced, TypeOK
  <2> QED BY <1>1, <1>6, <2>1 DEF FileReplaced, TypeOK
<1>7. CASE ValidateHttpSettings
  <2>1. chosen' \in [Settings -> Values] /\ stage' \in Stages
    BY <1>7, KeepTypes, SettingGroups DEF ValidateHttpSettings, Refuse, TypeOK, Stages
  <2> QED BY <1>1, <1>7, <2>1 DEF ValidateHttpSettings, TypeOK, FileTypeOK
<1>8. CASE LoadProviderSettings
  <2>1. chosen' \in [Settings -> Values] /\ stage' \in Stages
    BY <1>8, KeepTypes, SettingGroups DEF LoadProviderSettings, Refuse, TypeOK, Stages
  <2> QED BY <1>1, <1>8, <2>1 DEF LoadProviderSettings, TypeOK, FileTypeOK
<1>9. CASE Serve
  BY <1>1, <1>9 DEF Serve, Registered, Tools, TypeOK, Stages, FileTypeOK
<1>10. CASE Start
  BY <1>1, <1>10 DEF Start, TypeOK, Stages, FileTypeOK
<1>11. CASE Stop
  <2>1. Nothing \in [Settings -> Values]
    BY PlainValues DEF Nothing
  <2> QED BY <1>1, <1>11, <2>1 DEF Stop, TypeOK, Stages, FileTypeOK, Readers
<1>12. CASE UNCHANGED vars
  BY <1>1, <1>12 DEF vars, TypeOK, FileTypeOK
<1> QED BY <1>2, <1>3, <1>4, <1>5, <1>6, <1>7, <1>8, <1>9, <1>10, <1>11, <1>12
        DEF Next, SetFlag, SetVariable

\* The settings, the stage of the start and the reader's variables keep their
\* types, and no setting is ever given a value of another.
THEOREM TypeCorrect == Spec => [](TypeOK /\ GivenValues)
<1>1. TypeOK /\ GivenValues /\ [Next]_vars => (TypeOK /\ GivenValues)'
  BY TypeNext, GivenNext
<1> QED BY TypeInit, GivenInit, <1>1, PTL DEF Spec

-----------------------------------------------------------------------------
(* What is chosen is what flags and environment select.                       *)

LEMMA KeptCases ==
    ASSUME NEW p
    PROVE  /\ Kept("down", p) = {} /\ Kept("server", p) = {} /\ Kept("refused", p) = {}
           /\ Kept("http", p) = ServerSettings
           /\ Kept("token", p) = ServerSettings /\ Kept("validate", p) = ServerSettings
           /\ Kept("provider", p) = ServerSettings \cup HttpSettings
           /\ Kept("run", p) = ServerSettings \cup HttpSettings \cup ProviderSettings(p)
           /\ Kept("serving", p) = ServerSettings \cup HttpSettings \cup ProviderSettings(p)
BY DEF Kept

ChosenFor(K) ==
    chosen = [s \in Settings |->
                  IF s \in K THEN Loaded(flags, env, Settings)[s] ELSE Unset]

LEMMA KeepExtends ==
    ASSUME GivenValues, NEW S \in SUBSET Settings, NEW K, NEW next, ChosenFor(K),
           Keep(S, next), UNCHANGED <<flags, env>>
    PROVE  ChosenFor(S \cup K)' /\ stage' = next
<1>1. \A s \in S : Loaded(flags, env, S)[s] = Loaded(flags, env, Settings)[s]
  BY LoadedValues
<1> QED BY <1>1 DEF Keep, ChosenFor

LEMMA ChosenInit == Init => ChosenIsSelected
BY DEF Init, ChosenIsSelected, Loading

LEMMA ChosenNext ==
    ASSUME GivenValues, TypeOK, ChosenIsSelected, [Next]_vars
    PROVE  ChosenIsSelected'
<1> DEFINE p == Selected(flags, env, "provider")
<1>1. ASSUME Loading PROVE ChosenFor(Kept(stage, p))
  BY <1>1 DEF ChosenIsSelected, ChosenFor
<1>2. CASE Edit
  BY <1>2 DEF Edit, ChosenIsSelected, Loading
<1>3. CASE Start
  BY <1>3, KeptCases DEF Start, ChosenIsSelected, Loading, Nothing
<1>4. CASE Stop
  BY <1>4 DEF Stop, ChosenIsSelected, Loading
<1>5. CASE stage' = "refused" /\ tools' = tools /\ stage # "serving"
  BY <1>5 DEF ChosenIsSelected, Loading
<1>6. CASE LoadServerSettings /\ ~ServerRefused(flags, env)
  <2>1. ChosenFor(ServerSettings \cup {})' /\ stage' = "http"
    BY <1>1, <1>6, KeepExtends, KeptCases, SettingGroups DEF LoadServerSettings, Loading
  <2> QED BY <1>6, <2>1, KeptCases DEF LoadServerSettings, ChosenIsSelected, ChosenFor, Loading
<1>7. CASE SelectHttpSettings /\ stage' # "refused"
  <2>1. /\ stage = "http" /\ stage' = "token" /\ UNCHANGED <<flags, env, chosen, tools>>
        /\ ~HttpUnreadable(flags, env) /\ Selected(flags, env, "token_file") # "bad"
    BY <1>7 DEF SelectHttpSettings, Refuse
  <2> QED BY <2>1, KeptCases DEF ChosenIsSelected, Loading
<1>8. CASE ReadToken /\ stage' # "refused"
  <2>1. /\ stage = "token" /\ stage' \in {"token", "validate"}
        /\ UNCHANGED <<flags, env, chosen, tools>>
    BY <1>8 DEF ReadToken
  <2> QED BY <2>1, KeptCases DEF ChosenIsSelected, Loading
<1>9. CASE ValidateHttpSettings /\ stage' # "refused"
  <2>1. /\ stage = "validate" /\ ~HttpInvalid(flags, env) /\ Keep(HttpSettings, "provider")
        /\ UNCHANGED <<flags, env, tools>>
    BY <1>9 DEF ValidateHttpSettings, Refuse
  <2>2. ChosenFor(HttpSettings \cup ServerSettings)' /\ stage' = "provider"
    BY <1>1, <2>1, KeepExtends, KeptCases, SettingGroups DEF Loading
  <2> QED BY <2>1, <2>2, KeptCases DEF ChosenIsSelected, ChosenFor, Loading
<1>10. CASE LoadProviderSettings /\ stage' # "refused"
  <2>1. ChosenFor(ServerSettings \cup HttpSettings) /\ stage = "provider"
    BY <1>1, <1>10, KeptCases DEF LoadProviderSettings, Loading
  <2>2. chosen["provider"] = p
    BY <2>1, SettingNames DEF ChosenFor, ServerSettings, Loaded
  <2>3. /\ ~ProviderRefused(flags, env, p) /\ Keep(ProviderSettings(p), "run")
        /\ UNCHANGED <<flags, env, tools>>
    BY <1>10, <2>2 DEF LoadProviderSettings, Refuse
  <2>4. ChosenFor(ProviderSettings(p) \cup (ServerSettings \cup HttpSettings))' /\ stage' = "run"
    BY <2>1, <2>3, KeepExtends, SettingGroups
  <2> QED BY <2>1, <2>3, <2>4, KeptCases DEF ChosenIsSelected, ChosenFor, Loading
<1>11. CASE Serve /\ stage' # "refused"
  <2>1. /\ stage = "run" /\ stage' = "serving" /\ UNCHANGED <<flags, env, chosen>>
        /\ tools' = Registered(chosen["writes"])
    BY <1>11 DEF Serve
  <2> QED BY <2>1, KeptCases DEF ChosenIsSelected, Loading
<1>12. CASE Serve /\ stage' = "refused"
  BY <1>12 DEF Serve, ChosenIsSelected, Loading
<1>13. CASE UNCHANGED <<flags, env, stage, chosen, tools>>
  BY <1>13 DEF ChosenIsSelected, Loading
<1> QED BY <1>2, <1>3, <1>4, <1>5, <1>6, <1>7, <1>8, <1>9, <1>10, <1>11, <1>12, <1>13
        DEF Next, SetFlag, SetVariable, vars, FileReplaced, LoadServerSettings, Refuse,
            SelectHttpSettings, ReadToken, ValidateHttpSettings, LoadProviderSettings

-----------------------------------------------------------------------------
(* The token comes from the descriptor that was checked.                      *)

LEMMA ReaderInit == Init => ReaderInOrder
BY DEF Init, FileInit, ReaderInOrder

LEMMA ReaderNext ==
    ASSUME ReaderInOrder, [Next]_vars
    PROVE  ReaderInOrder'
<1> USE DEF ReaderInOrder, fileVars
<1>1. CASE ReadToken
  <2>1. CASE Lstat \/ Open \/ OpenRefused
    BY <1>1, <2>1 DEF ReadToken, Lstat, Open, OpenRefused
  <2>2. CASE Fstat
    BY <1>1, <2>2 DEF ReadToken, Fstat, SameFile, IsPrivateRegularFile
  <2>3. CASE ReadText \/ ReadNothing
    BY <1>1, <2>3 DEF ReadToken, ReadText, ReadNothing
  <2> QED BY <1>1, <2>1, <2>2, <2>3 DEF ReadToken, ReaderStep
<1>2. CASE FileReplaced
  BY <1>2 DEF FileReplaced, Replaced
<1>3. CASE SelectHttpSettings
  BY <1>3 DEF SelectHttpSettings, Refuse
<1>4. CASE ValidateHttpSettings
  BY <1>4 DEF ValidateHttpSettings, Refuse, Keep
<1>5. CASE Stop
  BY <1>5 DEF Stop
<1>6. CASE LoadServerSettings \/ LoadProviderSettings
  BY <1>6 DEF LoadServerSettings, LoadProviderSettings, Refuse, Keep
<1>7. CASE Serve \/ Start \/ Edit \/ UNCHANGED vars
  BY <1>7 DEF Serve, Start, Edit, vars
<1> QED BY <1>1, <1>2, <1>3, <1>4, <1>5, <1>6, <1>7 DEF Next, SetFlag, SetVariable

\* Whatever the path has named while the server started, its endpoint token was
\* read through a descriptor that was found to be private.
THEOREM TokenIsPrivate == Spec => []TokenFromPrivateFile
<1>1. ReaderInOrder => TokenFromPrivateFile
  BY DEF ReaderInOrder, TokenFromPrivateFile
<1>2. ReaderInOrder /\ [Next]_vars => ReaderInOrder'
  BY ReaderNext
<1> QED BY ReaderInit, <1>1, <1>2, PTL DEF Spec

-----------------------------------------------------------------------------
(* Consequences for the server that is started.                               *)

StartInv == TypeOK /\ GivenValues /\ ChosenIsSelected

LEMMA StartInvariant == Spec => []StartInv
<1>1. Init => StartInv
  BY TypeInit, GivenInit, ChosenInit DEF StartInv
<1>2. StartInv /\ [Next]_vars => StartInv'
  BY TypeNext, GivenNext, ChosenNext DEF StartInv
<1> QED BY <1>1, <1>2, PTL DEF Spec

\* A started server runs with what was selected, and every loader accepted it.
LEMMA Served ==
    ASSUME StartInv, stage = "serving"
    PROVE  LET p == Selected(flags, env, "provider") IN
           /\ \A s \in Settings : chosen[s] =
                  IF s \in ServerSettings \cup HttpSettings \cup ProviderSettings(p)
                  THEN Loaded(flags, env, Settings)[s] ELSE Unset
           /\ \A s \in Settings \ {"allowed_hosts"} :
                  Loaded(flags, env, Settings)[s] = Selected(flags, env, s)
           /\ Loaded(flags, env, Settings)["allowed_hosts"] = HostsSelected(flags, env)
           /\ ~ServerRefused(flags, env) /\ ~HttpUnreadable(flags, env)
           /\ ~HttpInvalid(flags, env) /\ ~ProviderRefused(flags, env, p)
           /\ Selected(flags, env, "token_file") # "bad"
           /\ tools = Registered(chosen["writes"])
<1>1. "allowed_hosts" \in Settings
  BY SettingNames
<1> QED BY <1>1, KeptCases DEF StartInv, ChosenIsSelected, Loading, Loaded

\* What is not a default was written somewhere.
LEMMA SelectedSomewhere ==
    ASSUME GivenValues, NEW s \in Settings, Selected(flags, env, s) # Default[s]
    PROVE  Somewhere(s, Selected(flags, env, s))
BY DEF Selected, Somewhere, GivenValues

\* However flags and environment were changed: a started server listens beyond
\* loopback, has mutation tools, or uses a broker, only if that was asked for.
THEOREM NothingIsImplied == Spec => []NothingImplied
<1>1. StartInv => NothingImplied
  <2> SUFFICES ASSUME StartInv, stage = "serving" PROVE NothingImplied
    BY DEF NothingImplied
  <2> DEFINE Sel(s) == Selected(flags, env, s)
             p == Sel("provider")
  <2>1. GivenValues
    BY DEF StartInv
  <2>2. /\ chosen["host"] = Sel("host") /\ chosen["allowed_hosts"] = HostsSelected(flags, env)
        /\ chosen["writes"] = Sel("writes") /\ chosen["provider"] = p
    BY Served, SettingNames DEF ServerSettings, HttpSettings
  <2>3. chosen["host"] # "loopback" => Somewhere("allowed_hosts", "exact")
    <3> SUFFICES ASSUME Sel("host") # "loopback" PROVE Somewhere("allowed_hosts", "exact")
      BY <2>2
    <3>1. HostsSelected(flags, env) = Sel("allowed_hosts")
      BY DEF HostsSelected
    <3>2. Sel("allowed_hosts") # "empty"
      BY <3>1, Served DEF HttpUnreadable
    <3>3. Sel("allowed_hosts") # "bad"
      <4>1. "allowed_hosts" \in {"port", "limits", "allowed_hosts", "allowed_origins"}
        OBVIOUS
      <4>2. Loaded(flags, env, {"port", "limits", "allowed_hosts", "allowed_origins"})["allowed_hosts"]
                = Sel("allowed_hosts")
        BY <3>1 DEF Loaded
      <4> QED BY <4>1, <4>2, Served DEF HttpInvalid, Has
    <3>4. Sel("allowed_hosts") \in {"exact", "bad", "empty"}
      <4>1. Written["allowed_hosts"] = {"exact", "bad", "empty"}
        BY DEF Written
      <4> QED BY <2>1, <4>1, SelectedWritten, SettingNames
    <3>5. Default["allowed_hosts"] = "empty"
      BY SettingNames DEF Default
    <3> QED BY <2>1, <3>2, <3>3, <3>4, <3>5, SelectedSomewhere, SettingNames
  <2>4. "mutate" \in tools => Somewhere("writes", "on")
    <3>1. "mutate" \in tools => Sel("writes") = "on"
      BY <2>2, Served DEF Registered
    <3>2. Default["writes"] = "off"
      BY SettingNames DEF Default
    <3> QED BY <2>1, <3>1, <3>2, SelectedSomewhere, SettingNames
  <2>5. chosen["provider"] = "broker" => Somewhere("provider", "broker")
    <3>1. Default["provider"] = "local"
      BY SettingNames DEF Default
    <3> QED BY <2>1, <2>2, <3>1, SelectedSomewhere, SettingNames
  <2>6. chosen["provider"] = "local" =>
            \A s \in BrokerSettings : flags[s] = Unset /\ env[s] = Unset
    BY <2>2, Served DEF ProviderRefused, LocalRefused, BrokerConfigurationSupplied
  <2> QED BY <2>3, <2>4, <2>5, <2>6 DEF NothingImplied
<1> QED BY <1>1, StartInvariant, PTL

-----------------------------------------------------------------------------
(* Flags override the environment.                                            *)

\* Two environments that differ where a flag is given are the same to main.
LEMMA SameSelection ==
    ASSUME NEW f, NEW e \in [Settings -> Values], NEW s \in Settings, NEW v, Given(f, s)
    PROVE  LET d == [e EXCEPT ![s] = v] IN
           /\ \A r \in Settings : Selected(f, d, r) = Selected(f, e, r)
           /\ HostsSelected(f, d) = HostsSelected(f, e)
           /\ BrokerConfigurationSupplied(f, d) = BrokerConfigurationSupplied(f, e)
<1> DEFINE d == [e EXCEPT ![s] = v]
<1>1. \A r \in Settings : r # s => d[r] = e[r]
  OBVIOUS
<1>2. \A r \in Settings : Selected(f, d, r) = Selected(f, e, r)
  BY <1>1 DEF Selected
<1>3. HostsSelected(f, d) = HostsSelected(f, e)
  BY <1>2, SettingNames DEF HostsSelected
<1>4. BrokerConfigurationSupplied(f, d) = BrokerConfigurationSupplied(f, e)
  <2>1. f[s] # Unset
    BY DEF Given
  <2>2. BrokerSettings \subseteq Settings
    BY SettingNames DEF BrokerSettings
  <2>3. \A r \in BrokerSettings : f[r] # Unset \/ d[r] # Unset <=> f[r] # Unset \/ e[r] # Unset
    BY <1>1, <2>1, <2>2
  <2> HIDE DEF d
  <2> QED BY <2>3 DEF BrokerConfigurationSupplied
<1> QED BY <1>2, <1>3, <1>4

LEMMA SameLoaded ==
    ASSUME NEW f, NEW e, NEW d, NEW S \in SUBSET Settings,
           \A r \in Settings : Selected(f, d, r) = Selected(f, e, r),
           HostsSelected(f, d) = HostsSelected(f, e)
    PROVE  /\ Loaded(f, d, S) = Loaded(f, e, S)
           /\ \A bad : Has(f, d, S, bad) <=> Has(f, e, S, bad)
<1>1. Loaded(f, d, S) = Loaded(f, e, S)
  BY DEF Loaded
<1> QED BY <1>1 DEF Has

LEMMA SameOutcome ==
    ASSUME NEW f, NEW e, NEW d,
           \A r \in Settings : Selected(f, d, r) = Selected(f, e, r),
           HostsSelected(f, d) = HostsSelected(f, e),
           BrokerConfigurationSupplied(f, d) = BrokerConfigurationSupplied(f, e)
    PROVE  Outcome(f, d) = Outcome(f, e)
<1>1. /\ {"limits"} \subseteq Settings /\ {"port", "limits"} \subseteq Settings
      /\ {"host"} \subseteq Settings /\ {"paths"} \subseteq Settings
      /\ {"port", "limits", "allowed_hosts", "allowed_origins"} \subseteq Settings
      /\ BrokerSettings \subseteq Settings /\ "token_file" \in Settings /\ "provider" \in Settings
  BY SettingNames DEF BrokerSettings
<1>2. ServerRefused(f, d) <=> ServerRefused(f, e)
  BY SameLoaded, SettingGroups DEF ServerRefused
<1>3. HttpUnreadable(f, d) <=> HttpUnreadable(f, e)
  BY <1>1, SameLoaded DEF HttpUnreadable
<1>4. HttpInvalid(f, d) <=> HttpInvalid(f, e)
  <2> DEFINE checked == {"port", "limits", "allowed_hosts", "allowed_origins"}
  <2>1. checked \subseteq Settings
    BY <1>1
  <2>2. Has(f, d, {"host"}, {"bad", "empty"}) <=> Has(f, e, {"host"}, {"bad", "empty"})
    BY <1>1, SameLoaded
  <2>3. Has(f, d, checked, {"bad"}) <=> Has(f, e, checked, {"bad"})
    BY <2>1, SameLoaded
  <2> QED BY <2>2, <2>3 DEF HttpInvalid
<1>5. \A p : ProviderRefused(f, d, p) <=> ProviderRefused(f, e, p)
  BY <1>1, SameLoaded DEF ProviderRefused, BrokerRefused, LocalRefused
<1>6. Selected(f, d, "token_file") = Selected(f, e, "token_file")
      /\ Selected(f, d, "provider") = Selected(f, e, "provider")
  BY <1>1
<1> DEFINE used == ServerSettings \cup HttpSettings
                       \cup ProviderSettings(Selected(f, e, "provider"))
<1>7. Loaded(f, d, used) = Loaded(f, e, used)
  BY SameLoaded, SettingGroups
<1> QED BY <1>2, <1>3, <1>4, <1>5, <1>6, <1>7 DEF Outcome

LEMMA ServedOutcome ==
    ASSUME StartInv, stage = "serving"
    PROVE  Outcome(flags, env) = chosen
<1> DEFINE p == Selected(flags, env, "provider")
           used == ServerSettings \cup HttpSettings \cup ProviderSettings(p)
<1>1. chosen = [s \in Settings |-> IF s \in used THEN Loaded(flags, env, Settings)[s] ELSE Unset]
  BY Served DEF StartInv, TypeOK
<1>2. \A s \in used : Loaded(flags, env, used)[s] = Loaded(flags, env, Settings)[s]
  BY LoadedValues, SettingGroups DEF StartInv
<1>3. chosen = [s \in Settings |-> IF s \in used THEN Loaded(flags, env, used)[s] ELSE Unset]
  BY <1>1, <1>2
<1> QED BY <1>3, Served DEF Outcome

\* A setting given as a flag: its variable, right, wrong or missing, changes
\* nothing about a started server.
THEOREM FlagsDoOverride == Spec => []FlagsOverride
<1>1. StartInv => FlagsOverride
  <2> SUFFICES ASSUME StartInv, stage = "serving", NEW s \in Settings, Given(flags, s), NEW v
               PROVE  Outcome(flags, [env EXCEPT ![s] = v]) = chosen
    BY DEF FlagsOverride
  <2> DEFINE d == [env EXCEPT ![s] = v]
  <2>1. env \in [Settings -> Values]
    BY DEF StartInv, GivenValues
  <2>2. /\ \A r \in Settings : Selected(flags, d, r) = Selected(flags, env, r)
        /\ HostsSelected(flags, d) = HostsSelected(flags, env)
        /\ BrokerConfigurationSupplied(flags, d) = BrokerConfigurationSupplied(flags, env)
    BY <2>1, SameSelection
  <2> HIDE DEF d
  <2>3. Outcome(flags, d) = Outcome(flags, env)
    BY <2>2, SameOutcome
  <2>4. Outcome(flags, d) = chosen
    BY <2>3, ServedOutcome
  <2> QED BY <2>4 DEF d
<1> QED BY <1>1, StartInvariant, PTL
=============================================================================
