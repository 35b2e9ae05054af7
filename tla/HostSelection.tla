---------------------------- MODULE HostSelection ----------------------------
(***************************************************************************)
(* What the coding agent decides before a session exists: which project it  *)
(* trusts, which settings, prompts and resources hold, which models there   *)
(* are, and the directory, model, thinking level and tools of a new or a    *)
(* reopened session (host.py, config.py, trust.py, model_directory.py,      *)
(* preferences.py, session_directory.py).                                  *)
(*                                                                         *)
(* Everything here is a function of files and options.  A JSON value has a  *)
(* type, what is told apart of a scalar (is) and the members of an object   *)
(* or an array (of).  A diagnostic keeps its source and its reason.  A name *)
(* is the sequence of its parts between slashes, so a model reference may   *)
(* be read as provider and id.                                             *)
(***************************************************************************)
EXTENDS Integers, Sequences, FiniteSets

LOCAL INSTANCE SequencesExt
LOCAL INSTANCE Functions

CONSTANTS
    None,   \* no value
    Null,   \* null in models.json
    Bad     \* what an entry of models.json or auth.json may not be

Value(type, is) == [type |-> type, is |-> is, of |-> <<>>]
Object(of) == [type |-> "object", is |-> "", of |-> of]
Strings(names) == [type |-> "strings", is |-> "", of |-> names]

Diagnostic(source, reason) == [source |-> source, reason |-> reason]
Blocking(d) ==
    /\ d.source # "trust"
    /\ d.reason \notin {"unknown-key", "adjusted", "untrusted", "recoverable"}
Blocked(diags) == \E d \in diags : Blocking(d)

Without(f, keys) == Restrict(f, DOMAIN f \ keys)

-----------------------------------------------------------------------------
(* Settings                                                                *)

(* _read_json_object: bytes that are no text are no OSError, and raise.     *)
ReadObject(file, source) ==
    [values |-> IF file.state = "object" THEN file.of ELSE <<>>,
     diags  |-> IF file.state \in {"unreadable", "broken"}
                    THEN {Diagnostic(source, "invalid-json")}
                ELSE IF file.state = "array" THEN {Diagnostic(source, "invalid-schema")}
                ELSE {},
     raised |-> file.state = "bytes"]

RECURSIVE MergeSettings(_, _)
MergeSettings(base, override) ==
    [k \in DOMAIN base \union DOMAIN override |->
        IF k \notin DOMAIN override THEN base[k]
        ELSE IF k \in DOMAIN base /\ base[k].type = "object" /\ override[k].type = "object"
             THEN Object(MergeSettings(base[k].of, override[k].of))
        ELSE override[k]]

SettingsTypes ==
    [k \in {"defaultProvider", "defaultModel", "defaultThinkingLevel", "theme",
            "sessionDir"} |-> "string"]
    @@ [k \in {"enabledModels", "defaultTools", "skills", "prompts"} |-> "strings"]
    @@ [k \in {"hideThinking", "collapseTools"} |-> "boolean"]
    @@ [k \in {"compaction", "retry"} |-> "object"]
CompactionTypes ==
    [enabled |-> "boolean", reserveTokens |-> "integer", keepRecentTokens |-> "integer"]
RetryTypes ==
    [enabled |-> "boolean", maxRetries |-> "integer", baseDelayMs |-> "number",
     maxAgentDelayMs |-> "number"]

HasType(value, type) ==
    value.type = type \/ (type = "number" /\ value.type = "integer")

(* A wrong value is dropped, an unknown key only remarked.                  *)
ValidateObject(values, schema, source) ==
    LET known == DOMAIN values \intersect DOMAIN schema
        wrong == {k \in known : ~HasType(values[k], schema[k])}
    IN  [values |-> Without(values, wrong),
         diags |-> {Diagnostic(source, "unknown-key") : k \in DOMAIN values \ known}
                     \union {Diagnostic(source, "invalid-type") : k \in wrong}]

(* What CompactionSettings and RetryPolicy refuse: a number "outside" their *)
(* range, and a maxRetries that is no integer.                              *)
CompactionRefuses(of) ==
    \E k \in DOMAIN of \intersect {"reserveTokens", "keepRecentTokens"} :
        of[k].type = "integer" /\ of[k].is = "outside"
RetryRefuses(of) ==
    \E k \in DOMAIN of \intersect {"maxRetries", "baseDelayMs", "maxAgentDelayMs"} :
        \/ of[k].type \in {"integer", "number"} /\ of[k].is = "outside"
        \/ k = "maxRetries" /\ of[k].type = "number"

Levels == <<"off", "minimal", "low", "medium", "high", "xhigh", "max">>
DefaultTools == <<"read", "bash", "edit", "write">>
ToolsAllowed(names) ==
    IsInjective(names) /\ Range(names) \subseteq Range(DefaultTools)

(* Drop the value of a key that fails a further test.                       *)
Dropped(found, key, Fails(_), source) ==
    IF key \in DOMAIN found.values /\ Fails(found.values[key])
    THEN [values |-> Without(found.values, {key}),
          diags |-> found.diags \union {Diagnostic(source, "invalid-value")}]
    ELSE found

Nested(found, key, schema, Refuses(_), source) ==
    IF key \notin DOMAIN found.values THEN found
    ELSE LET nested == ValidateObject(found.values[key].of, schema, source)
         IN  Dropped([values |-> [found.values EXCEPT ![key] = Object(nested.values)],
                      diags |-> found.diags \union nested.diags],
                     key, LAMBDA v : Refuses(v.of), source)

ValidateSettings(values, source) ==
    LET typed == ValidateObject(values, SettingsTypes, source)
        level == Dropped(typed, "defaultThinkingLevel",
                         LAMBDA v : v.is \notin Range(Levels), source)
        tools == Dropped(level, "defaultTools", LAMBDA v : ~ToolsAllowed(v.of), source)
        compaction == Nested(tools, "compaction", CompactionTypes, CompactionRefuses, source)
    IN  Nested(compaction, "retry", RetryTypes, RetryRefuses, source)

LoadSettings(global, project, trusted, explicit) ==
    LET globalFile == ReadObject(global, "global")
        projectFile == IF trusted THEN ReadObject(project, "project")
                       ELSE ReadObject([state |-> "absent"], "project")
        g == ValidateSettings(globalFile.values, "global")
        p == ValidateSettings(projectFile.values, "project")
        e == ValidateSettings(explicit, "cli")
    IN  [values |-> MergeSettings(MergeSettings(g.values, p.values), e.values),
         global |-> g.values, project |-> p.values, explicit |-> e.values,
         diags |-> globalFile.diags \union projectFile.diags
                     \union g.diags \union p.diags \union e.diags,
         raised |-> globalFile.raised \/ projectFile.raised]

SourceOf(settings, key) ==
    IF key \in DOMAIN settings.explicit THEN "cli"
    ELSE IF key \in DOMAIN settings.project THEN "project" ELSE "global"

Setting(settings, key) ==
    IF key \in DOMAIN settings.values THEN settings.values[key].is ELSE None
SettingList(settings, key) ==
    IF key \in DOMAIN settings.values THEN settings.values[key].of ELSE <<>>

(* update_settings and validate_settings_changes: what /settings writes.    *)
UpdateSettings(file, changes) ==
    LET current == ReadObject(file, "global")
    IN  IF current.diags # {} \/ current.raised THEN file
        ELSE [state |-> "object", of |-> MergeSettings(current.values, changes)]

ChangesAllowed(changes) ==
    /\ ValidateSettings(changes, "settings").diags = {}
    /\ "theme" \in DOMAIN changes => changes.theme.is \in {"dark", "light"}

-----------------------------------------------------------------------------
(* Trust, prompts and resources of a project                               *)

(* A damaged decision is remarked and not remembered (TrustStore._ensure).  *)
ReadDecisions(file) ==
    LET parsed == ReadObject(file, "trust")
        projects == IF "projects" \in DOMAIN parsed.values
                    THEN parsed.values.projects ELSE Object(<<>>)
        saved == IF projects.type = "object" THEN projects.of ELSE <<>>
        valid == {dir \in DOMAIN saved : saved[dir].is \in {"approved", "denied"}}
    IN  [of |-> [dir \in valid |-> saved[dir].is],
         diags |-> parsed.diags
                     \union {Diagnostic("trust", "invalid-schema") :
                                x \in {projects.type} \ {"object", "null"}}
                     \union {Diagnostic("trust", "invalid-value") :
                                dir \in DOMAIN saved \ valid}]

(* TrustStore.remember writes what this process read first.                 *)
Remember(decisions, dir, decision) ==
    [decisions EXCEPT !.of = (dir :> decision) @@ @]

HasResources(project) ==
    \/ \E file \in {project.settings, project.system, project.append} :
          file.state # "absent"
    \/ project.prompts \/ project.skills

ResolveTrust(h, dir) ==
    LET decision == IF dir \in DOMAIN h.decisions.of THEN h.decisions.of[dir] ELSE None
        flagged == h.approve \/ h.noApprove
        decided == flagged \/ decision # None \/ h.projectTrusted # None
    IN  [trusted |-> \/ h.approve
                     \/ ~flagged /\ decision = "approved"
                     \/ ~flagged /\ decision = None /\ h.projectTrusted = "yes",
         unknown |-> ~decided,
         diags |-> IF ~decided /\ HasResources(h.project[dir])
                   THEN {Diagnostic("trust", "untrusted")} ELSE {}]

(* _read_text, of a file that need not exist and of one that must           *)
ReadText(file, source) ==
    [text  |-> IF file.state = "text" THEN file.of ELSE None,
     diags |-> IF file.state = "unreadable" THEN {Diagnostic(source, "recoverable")}
               ELSE {}]
ReadExplicit(file) ==
    [text  |-> IF file.state = "text" THEN file.of ELSE None,
     diags |-> IF file.state = "text" THEN {} ELSE {Diagnostic("cli", "unavailable")}]

ReadFallback(h, dir, trusted, name) ==
    LET project == IF trusted THEN ReadText(h.project[dir][name], "project")
                   ELSE [text |-> None, diags |-> {}]
        global == ReadText(h.agent[name], "global")
    IN  IF project.text # None THEN project
        ELSE [text |-> global.text, diags |-> project.diags \union global.diags]

(* _resolve_system: explicit text, an explicit file, else a file of the     *)
(* project or of the agent directory; explicit additions that are all empty *)
(* count as none.                                                           *)
ResolveSystem(h, dir, trusted) ==
    LET custom == IF h.systemText # None THEN [text |-> h.systemText, diags |-> {}]
                  ELSE IF h.systemFile # None THEN ReadExplicit(h.systemFile)
                  ELSE ReadFallback(h, dir, trusted, "system")
        parts == [i \in DOMAIN h.appended |->
                    IF h.appended[i].kind = "text"
                    THEN [text |-> h.appended[i].of, diags |-> {}]
                    ELSE ReadExplicit(h.appended[i].of)]
        said == SelectSeq(parts, LAMBDA part : part.text \notin {None, ""})
        fallback == ReadFallback(h, dir, trusted, "append")
    IN  [custom |-> custom.text,
         append |-> IF said # <<>> THEN [i \in DOMAIN said |-> said[i].text]
                    ELSE IF fallback.text # None THEN <<fallback.text>> ELSE <<>>,
         diags |-> UNION {parts[i].diags : i \in DOMAIN parts} \union custom.diags
                     \union IF said # <<>> THEN {} ELSE fallback.diags]

(* _refresh_settings, for the directory of the session or, without one, for *)
(* the directory the program started in                                     *)
Refreshed(h, cwd) ==
    LET dir == IF cwd = None THEN h.startup ELSE cwd
        trust == ResolveTrust(h, dir)
        system == ResolveSystem(h, dir, trust.trusted)
    IN  [dir |-> dir, trusted |-> trust.trusted, unknown |-> trust.unknown,
         settings |-> LoadSettings(h.globalSettings, h.project[dir].settings,
                                   trust.trusted, h.explicit),
         custom |-> system.custom, append |-> system.append,
         diags |-> trust.diags \union system.diags]

(* remember_trust refreshes only what the session in hand stands on.        *)
RememberTrust(h, now, decision, dir, refresh) ==
    LET remembered == [h EXCEPT !.decisions = Remember(@, dir, decision)]
    IN  [h |-> remembered,
         now |-> IF refresh /\ dir = now.dir THEN Refreshed(remembered, dir) ELSE now]

NeedsDecision(h, now) == now.unknown /\ HasResources(h.project[now.dir])

(* _resource_sources in the order load_resources gives their tiers: the     *)
(* first of a name wins.                                                    *)
Tiers == <<"explicit", "project-config", "project-auto", "global-config", "global-auto">>
ConfiguredTier(settings, key) ==
    CASE SourceOf(settings, key) = "cli" -> "explicit"
      [] SourceOf(settings, key) = "project" -> "project-config"
      [] OTHER -> "global-config"

ResourceTiers(h, now, key) ==
    LET automatic == IF h.noResources THEN {}
                     ELSE {t \in {"global-auto"} : h.agent[key]} \union
                          {t \in {"project-auto"} : now.trusted /\ h.project[now.dir][key]}
        present == {"explicit" : p \in Range(h.resources)}
                     \union {ConfiguredTier(now.settings, key) :
                                p \in Range(SettingList(now.settings, key))}
                     \union automatic
    IN  SelectSeq(Tiers, LAMBDA tier : tier \in present)

-----------------------------------------------------------------------------
(* The model directory                                                     *)

(* A model's levels map a thinking level to a name of the provider's, or to *)
(* None; some models have no map (get_supported_thinking_levels).           *)
NoMap == [mapped |-> FALSE, of |-> <<>>]
Map(of) == [mapped |-> TRUE, of |-> of]

Supported(model) ==
    IF ~model.reasoning THEN <<"off">>
    ELSE SelectSeq(Levels, LAMBDA level :
            IF level \in DOMAIN model.levels.of THEN model.levels.of[level] # None
            ELSE level \notin {"xhigh", "max"})
FixedThinking(model) == model.reasoning /\ Supported(model) = <<>>

(* clamp_thinking_level: the next level up, else the next one down          *)
Clamp(model, level) ==
    LET at(l) == CHOOSE i \in DOMAIN Levels : Levels[i] = l
        supported == {at(l) : l \in Range(Supported(model))}
        above == {i \in supported : i >= at(level)}
    IN  IF above # {} THEN Levels[CHOOSE i \in above : \A j \in above : i <= j]
        ELSE IF supported # {}
             THEN Levels[CHOOSE i \in supported : \A j \in supported : i >= j]
        ELSE "off"

(* The fields of a models.json entry are absent, Null, Bad or good.  Every  *)
(* refusal blocks, whatever its reason; an unknown field is only remarked.  *)
Refusal == {Diagnostic("models", "invalid")}
UnknownFields(entry, fields) ==
    {Diagnostic("models", "unknown-key") : f \in DOMAIN entry \ fields}

OptionalFields == {"levels", "headers", "sampling", "compat"}
RequiredFields == {"id", "api", "reasoning", "input", "cost", "window", "maxTokens"}
DefinitionFields == RequiredFields \union OptionalFields \union {"name"}
OverrideFields == DefinitionFields \ {"id", "api"}

(* _cost: a field that is left out is the base model's, if there is one.    *)
CostParts == {"in", "out"}
CostOf(cost, base) ==
    LET full == IF cost \in {Null, Bad} THEN <<>> ELSE cost @@ base
    IN  IF DOMAIN full # CostParts \/ Bad \in Range(full) THEN Bad ELSE full

(* _thinking_map: a level that is not named is not supported.               *)
LevelsOf(map) == Map([l \in Range(Levels) |-> IF l \in DOMAIN map THEN map[l] ELSE None])

(* _definition_model: any refused field refuses the model.  Only a          *)
(* thinkingLevelMap may not be null where a field is optional; a bad name   *)
(* is replaced by the id.                                                   *)
DefinitionRefused(d) ==
    \/ \E f \in RequiredFields : f \notin DOMAIN d \/ d[f] \in {Null, Bad}
    \/ CostOf(d.cost, <<>>) = Bad
    \/ \E f \in OptionalFields \intersect DOMAIN d :
          d[f] = Bad \/ (f = "levels" /\ d[f] = Null)

DefinitionModel(provider, d) ==
    [provider |-> provider, id |-> d.id, reasoning |-> d.reasoning, input |-> d.input,
     cost |-> CostOf(d.cost, <<>>), window |-> d.window, maxTokens |-> d.maxTokens,
     levels |-> IF "levels" \in DOMAIN d THEN LevelsOf(d.levels) ELSE NoMap,
     name |-> IF "name" \in DOMAIN d /\ d.name \notin {Null, Bad} THEN d.name
              ELSE d.id,
     extra |-> [f \in {"headers", "sampling", "compat"} |->
                  IF f \in DOMAIN d THEN d[f] ELSE Null],
     source |-> "user"]

(* _apply_override: each field by itself.  A bad name is passed over in     *)
(* silence, and null takes back headers, sampling parameters and            *)
(* compatibility flags.                                                     *)
FieldRefused(model, f, value) ==
    CASE f = "name" -> FALSE
      [] f = "cost" -> CostOf(value, model.cost) = Bad
      [] f \in {"headers", "sampling", "compat"} -> value = Bad
      [] OTHER -> value \in {Null, Bad}

ApplyOverride(model, o) ==
    LET named == DOMAIN o \intersect OverrideFields
        good == {f \in named : /\ ~FieldRefused(model, f, o[f])
                               /\ f = "name" => o[f] \notin {Null, Bad}}
        changed(f) == CASE f = "cost" -> CostOf(o[f], model.cost)
                        [] f = "levels" -> LevelsOf(o[f])
                        [] OTHER -> o[f]
        extra == {"headers", "sampling", "compat"}
    IN  [model |-> [f \in DOMAIN model |->
                       IF f = "source" THEN "user"
                       ELSE IF f = "extra"
                            THEN [x \in extra |-> IF x \in good THEN o[x] ELSE model.extra[x]]
                       ELSE IF f \in good THEN changed(f) ELSE model[f]],
         diags |-> UnknownFields(o, OverrideFields)
                     \union IF \E f \in named : FieldRefused(model, f, o[f]) THEN Refusal ELSE {}]

(* _merge_provider: built-in models first, overridden or not, then the      *)
(* definitions whose id is still free.  An override of a model that is not  *)
(* built in is never looked at.                                             *)
MergeProvider(provider, builtin, config) ==
    LET overridden ==
            [i \in DOMAIN builtin |->
                IF builtin[i].id \in DOMAIN config.overrides
                THEN ApplyOverride(builtin[i], config.overrides[builtin[i].id])
                ELSE [model |-> builtin[i], diags |-> {}]]
        define(done, d) ==
            LET remarked == [done EXCEPT !.diags =
                                @ \union UnknownFields(d, DefinitionFields)]
            IN  IF DefinitionRefused(d) \/ \E m \in Range(done.models) : m.id = d.id
                THEN [remarked EXCEPT !.diags = @ \union Refusal]
                ELSE [remarked EXCEPT !.models = Append(@, DefinitionModel(provider, d))]
    IN  FoldLeft(define,
                 [models |-> [i \in DOMAIN overridden |-> overridden[i].model],
                  diags |-> UNION {overridden[i].diags : i \in DOMAIN overridden}],
                 config.models)

(* _load_models_config: entries that are no objects are refused one by one. *)
LoadModelsConfig(file, builtin) ==
    LET parsed == ReadObject(file, "models")
        given == file.state = "object" /\ "providers" \in DOMAIN file.of
        providers == IF given THEN file.of.providers ELSE <<>>
        usable == {p \in DOMAIN providers \intersect DOMAIN builtin : providers[p] # Bad}
    IN  [of |-> [p \in DOMAIN builtin |->
                    IF p \in usable
                    THEN [models |-> SelectSeq(providers[p].models, LAMBDA d : d # Bad),
                          overrides |-> RestrictValues(providers[p].overrides,
                                                       LAMBDA o : o # Bad)]
                    ELSE [models |-> <<>>, overrides |-> <<>>]],
         diags |-> parsed.diags
            \union IF \/ file.state = "object" /\ ~given
                      \/ DOMAIN providers # usable
                      \/ \E p \in usable : Bad \in Range(providers[p].models)
                                                 \union Range(providers[p].overrides)
                   THEN Refusal ELSE {},
         raised |-> parsed.raised]

(* ModelDirectory: the providers in their order                             *)
ModelDirectory(order, builtin, file) ==
    LET config == LoadModelsConfig(file, builtin)
        merged == [p \in DOMAIN builtin |-> MergeProvider(p, builtin[p], config.of[p])]
    IN  [models |-> FoldLeft(LAMBDA all, p : all \o merged[p].models, <<>>, order),
         diags |-> config.diags \union UNION {merged[p].diags : p \in DOMAIN builtin},
         raised |-> config.raised]

FindModels(models, provider, id) ==
    LET found == SelectSeq(models, LAMBDA m : m.id = id /\ provider \in {None, m.provider})
    IN  IF provider = None \/ found = <<>> THEN found ELSE <<found[1]>>

(* default_change of /settings, and the reading of a model of its own       *)
ResolveModel(models, reference) ==
    IF Len(reference) > 1 THEN FindModels(models, reference[1], Tail(reference))
    ELSE FindModels(models, None, reference)
DefaultModelChange(model) ==
    [defaultProvider |-> Value("string", model.provider),
     defaultModel |-> Value("string", model.id)]

-----------------------------------------------------------------------------
(* Selection                                                               *)

Resolved(model, diags) == [model |-> model, diags |-> diags]
Unresolved(source, reason) == Resolved(None, {Diagnostic(source, reason)})

(* _resolve_reference: "provider/id" or "id", with or without a provider    *)
ResolveReference(models, provider, reference, source) ==
    LET slashed == Len(reference) > 1
        id == IF slashed THEN Tail(reference) ELSE reference
        from == IF slashed THEN reference[1] ELSE provider
        matches == FindModels(models, from, id)
    IN  IF reference = <<>>
        THEN IF provider = None THEN Resolved(None, {})
             ELSE Unresolved(source, "invalid-value")
        ELSE IF slashed /\ \/ reference[1] = "" \/ id = <<"">>
                           \/ provider \notin {None, reference[1]}
        THEN Unresolved(source, "invalid-value")
        ELSE IF Len(matches) # 1 THEN Unresolved(source, "unavailable")
        ELSE Resolved(matches[1], {})

ProductDefault == [provider |-> "opencode-go", id |-> <<"deepseek-v4.1-flash">>]

(* A configured default that is not found is replaced by the product's.     *)
MutFallsBack(models, settings) ==
    LET found == ResolveReference(models, Setting(settings, "defaultProvider"),
                                  IF "defaultModel" \in DOMAIN settings.values
                                  THEN Setting(settings, "defaultModel") ELSE <<>>,
                                  "settings")
    IN  IF found.model # None THEN found
        ELSE ResolveReference(models, ProductDefault.provider, ProductDefault.id, "settings")

(* _configured_or_product_model: a default that is configured and missing   *)
(* is not replaced.                                                         *)
ConfiguredModel(models, settings) ==
    IF "defaultModel" \in DOMAIN settings.values
    THEN ResolveReference(models, Setting(settings, "defaultProvider"),
                          Setting(settings, "defaultModel"),
                          SourceOf(settings, "defaultModel"))
    ELSE ResolveReference(models, ProductDefault.provider, ProductDefault.id, "settings")

ResolveNewModel(models, asked, settings) ==
    IF asked.model # <<>> \/ asked.provider # None
    THEN ResolveReference(models, asked.provider, asked.model, "cli")
    ELSE ConfiguredModel(models, settings)

ResolveHistoryModel(models, asked, saved, settings) ==
    IF asked.model # <<>> \/ asked.provider # None \/ saved.provider = None
    THEN ResolveNewModel(models, asked, settings)
    ELSE LET matches == FindModels(models, saved.provider, saved.modelId)
         IN  IF matches = <<>> THEN Unresolved("history", "unavailable")
             ELSE Resolved(matches[1], {})

(* _resolve_cwd *)
ResolveCwd(h, asked, saved) ==
    IF asked.cwd # None
    THEN IF asked.cwd \in h.dirs THEN [cwd |-> asked.cwd, diags |-> {}]
         ELSE [cwd |-> None, diags |-> {Diagnostic("cli", "unavailable")}]
    ELSE IF saved = None THEN [cwd |-> h.startup, diags |-> {}]
    ELSE IF saved \in h.dirs THEN [cwd |-> saved, diags |-> {}]
    ELSE [cwd |-> None, diags |-> {Diagnostic("history", "unavailable")}]

(* _resolve_thinking: the default of a model with fixed thinking is adjusted *)
(* in silence.                                                              *)
ResolveThinking(model, explicit, saved, reopened, settings) ==
    LET configured == Setting(settings, "defaultThinkingLevel")
        requested == IF saved # None THEN saved
                     ELSE IF configured # None THEN configured ELSE "high"
        source == IF saved # None THEN "history"
                  ELSE IF configured # None THEN SourceOf(settings, "defaultThinkingLevel")
                  ELSE "settings"
        clamped == Clamp(model, requested)
    IN  IF explicit # None
        THEN IF explicit \in Range(Supported(model))
             THEN [level |-> explicit, diags |-> {}]
             ELSE [level |-> None, diags |-> {Diagnostic("cli", "invalid-value")}]
        ELSE [level |-> clamped,
              diags |-> IF clamped # requested
                           /\ (FixedThinking(model) => reopened \/ configured # None)
                        THEN {Diagnostic(source, "adjusted")} ELSE {}]

(* _resolve_tools; no --tools is None                                       *)
ResolveTools(asked, settings) ==
    IF asked.tools # <<None>>
    THEN IF ToolsAllowed(asked.tools) THEN [tools |-> asked.tools, diags |-> {}]
         ELSE [tools |-> DefaultTools, diags |-> {Diagnostic("cli", "invalid-value")}]
    ELSE [tools |-> IF "defaultTools" \in DOMAIN settings.values
                    THEN SettingList(settings, "defaultTools") ELSE DefaultTools,
          diags |-> {}]

(* The common part of select_new and select_open                            *)
Selection(h, asked, cwd, resolved, saved, now, path) ==
    LET thinking == IF resolved.model = None THEN [level |-> None, diags |-> {}]
                    ELSE ResolveThinking(resolved.model, asked.thinking,
                            IF path = None THEN None ELSE saved.thinking,
                            path # None, now.settings)
        tools == ResolveTools(asked, now.settings)
        images == IF path # None /\ resolved.model # None /\ saved.images
                     /\ "image" \notin resolved.model.input
                  THEN {Diagnostic("history", "adjusted")} ELSE {}
    IN  [cwd |-> cwd.cwd, model |-> resolved.model, thinking |-> thinking.level,
         tools |-> tools.tools, path |-> path,
         diags |-> now.settings.diags \union h.directory.diags \union h.decisions.diags
                     \union now.diags \union cwd.diags \union resolved.diags
                     \union thinking.diags \union tools.diags \union images]

Nothing(diags) ==
    [cwd |-> None, model |-> None, thinking |-> None, tools |-> DefaultTools,
     path |-> None, diags |-> diags]

SelectNew(h, asked) ==
    LET cwd == ResolveCwd(h, asked, None)
        now == Refreshed(h, cwd.cwd)
    IN  Selection(h, asked, cwd, ResolveNewModel(h.directory.models, asked, now.settings),
                  None, now, None)

(* select_open of a file that was found, or was not, or cannot be decoded   *)
SelectOpen(h, asked, file) ==
    IF h.noSession \/ file = None \/ ~file.readable
    THEN Nothing({Diagnostic("history", "invalid-schema")})
    ELSE LET cwd == ResolveCwd(h, asked, file.cwd)
             now == Refreshed(h, cwd.cwd)
         IN  Selection(h, asked, cwd,
                       ResolveHistoryModel(h.directory.models, asked, file, now.settings),
                       file, now, file.path)

(* SessionDirectory: files in the order of their paths.  The newest is      *)
(* first, the earlier path of two that are equally new.                     *)
Listed(files, cwd) ==
    LET shown == SelectSeq(files, LAMBDA f : f.readable /\ cwd \in {None, f.cwd})
        order == SortSeq([i \in DOMAIN shown |-> i], LAMBDA i, j :
                    \/ shown[i].mtime > shown[j].mtime
                    \/ shown[i].mtime = shown[j].mtime /\ i < j)
    IN  [i \in DOMAIN order |-> shown[order[i]]]
Recent(files, cwd) ==
    LET listed == Listed(files, cwd) IN IF listed = <<>> THEN None ELSE listed[1]

(* SessionDirectory.resolve: a path, or what begins exactly one id          *)
Lookup(files, reference) ==
    LET found == SelectSeq(files, LAMBDA f :
                    IF reference.path # None THEN f.path = reference.path
                    ELSE f.readable /\ f.id \in reference.ids)
    IN  IF Len(found) = 1 THEN found[1] ELSE None

SelectContinue(h, asked, files) ==
    LET cwd == ResolveCwd(h, asked, None)
        file == Recent(files, cwd.cwd)
        chosen == IF file # None THEN SelectOpen(h, asked, file) ELSE SelectNew(h, asked)
    IN  IF cwd.cwd = None THEN Nothing(cwd.diags)
        ELSE IF h.noSession THEN Nothing({Diagnostic("cli", "invalid-value")})
        ELSE [chosen EXCEPT !.diags = @ \union
                IF file = None \/ \E i \in DOMAIN files : ~files[i].readable
                THEN {Diagnostic("history", "recoverable")} ELSE {}]

Ready(s) ==
    s.cwd # None /\ s.model # None /\ s.thinking # None /\ ~Blocked(s.diags)

(* key_source and readiness.  keys: what --api-key, the credential file and *)
(* the environment hold for a provider; a credential file may be damaged.   *)
KeySource(keys) ==
    IF keys.cli THEN "cli" ELSE IF keys.stored THEN "stored"
    ELSE IF keys.env THEN "env" ELSE None
Readiness(s, keys) ==
    s.diags \union
    IF ~Ready(s) THEN {}
    ELSE IF ~keys.cli /\ keys.damaged THEN {Diagnostic("credentials", "invalid-schema")}
    ELSE IF KeySource(keys) = None THEN {Diagnostic("credentials", "unavailable")}
    ELSE {}

(* build_options refuses what is not ready, or a file without sessions.     *)
CanBuild(h, s, sessionFile) ==
    Ready(s) /\ ~(h.noSession /\ (sessionFile # None \/ s.path # None))

(* session_directory: where a new conversation is saved                     *)
SessionDirectory(h, cwd) ==
    CASE h.noSession -> None
      [] ~h.noSession /\ h.sessionDir # None -> h.sessionDir
      [] OTHER -> <<"sessions", cwd>>

-----------------------------------------------------------------------------
(* Credentials                                                             *)

(* FileCredentialStore: a file any entry of which is damaged is not read.   *)
Credentials(file) ==
    LET read == ReadObject(file, "credentials")
    IN  [ok |-> read.diags = {} /\ ~read.raised
                  /\ \A p \in DOMAIN read.values : read.values[p] # Bad,
         of |-> read.values]

(* modify: nothing is written when the file is damaged, when fn fails, when *)
(* the caller gives up before or after fn, or when fn returns nothing.      *)
Modify(file, provider, fn, aborted) ==
    IF aborted = "before" \/ ~Credentials(file).ok \/ fn \in {"raises", None}
       \/ aborted = "after"
    THEN file
    ELSE [state |-> "object", of |-> (provider :> fn) @@ Credentials(file).of]

DeleteKey(file, provider, aborted) ==
    IF aborted = "before" \/ ~Credentials(file).ok THEN file
    ELSE [state |-> "object", of |-> Without(Credentials(file).of, {provider})]

(* _atomic_write, whose steps fail or at which the process dies: what is at *)
(* the path, and whether a temporary file stays.                            *)
AtomicWrite(old, new, failing, dies) ==
    [file |-> IF failing \in {"mkdir", "create", "write", "sync", "chmod", "replace"}
              THEN old ELSE new,
     temporary |-> dies /\ failing \in {"write", "sync", "chmod", "replace"}]
=============================================================================
