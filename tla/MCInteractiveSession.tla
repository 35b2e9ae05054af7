------------------------ MODULE MCInteractiveSession ------------------------
(***************************************************************************)
(* Two texts, an image and two conversations: enough for a draft, a        *)
(* running prompt and a queued input at once, and for a switch with a      *)
(* draft on either side.                                                   *)
(*                                                                         *)
(* And what the program decides before it shows a screen, for every small   *)
(* set of files and options.                                               *)
(***************************************************************************)
EXTENDS InteractiveSession, TLC

CONSTANTS Null, Bad

H == INSTANCE CommandLine
LOCAL INSTANCE SequencesExt
LOCAL INSTANCE FiniteSetsExt
LOCAL INSTANCE Functions

-----------------------------------------------------------------------------
(* Files and models                                                        *)

Absent == [state |-> "absent"]
Damaged == {[state |-> s] : s \in {"unreadable", "broken", "array"}}
File(of) == [state |-> "object", of |-> of]
TextFile(text) == [state |-> "text", of |-> text]

(* A function that has some of the given keys, each with one of its values  *)
Some(choices) ==
    FoldSet(LAMBDA k, fs : fs \union {(k :> v) @@ f : f \in fs, v \in choices[k]},
            {<<>>}, DOMAIN choices)

Integer(is) == H!Value("integer", is)
Layers ==
    Some([theme |-> {H!Value("string", "dark"), H!Value("integer", "in")},
          surprise |-> {H!Value("string", "x")},
          defaultThinkingLevel |-> {H!Value("string", "low"), H!Value("string", "huge")},
          compaction |-> {H!Object(of) : of \in
                            Some([reserveTokens |-> {Integer("in"), Integer("outside")},
                                  enabled |-> {H!Value("boolean", "yes")}])}
                           \union {H!Value("string", "x")}])
FewLayers ==
    {l \in Layers : "surprise" \notin DOMAIN l
                     /\ ("theme" \in DOMAIN l => l.theme.is # "dark")
                     /\ ("compaction" \in DOMAIN l => "enabled" \notin DOMAIN l.compaction.of)}

(* Each layer keeps what is valid of it; the scope that is named for a key  *)
(* is the one its value comes from, objects aside, whose members come from  *)
(* several; and what two layers say together is as valid as each, so that  *)
(* assembling a session cannot fail on it (config.py, load_settings).       *)
SettingsHold ==
    \A g \in Layers, p \in FewLayers :
        LET s == H!LoadSettings(File(g), File(p), TRUE, <<>>)
            layer(scope) == IF scope = "global" THEN s.global ELSE s.project
        IN  /\ \A k \in DOMAIN s.values :
                  /\ k \in DOMAIN layer(H!SourceOf(s, k))
                  /\ s.values[k].type # "object"
                       => s.values[k] = layer(H!SourceOf(s, k))[k]
            /\ ~H!Blocked(H!ValidateSettings(s.values, "settings").diags)
            /\ \A k \in DOMAIN g : k \notin DOMAIN s.values => H!Blocked(s.diags)
            /\ H!LoadSettings(File(g), File(p), FALSE, <<>>)
                 = H!LoadSettings(File(g), Absent, FALSE, <<>>)

(* An update keeps what it does not name, member by member, and never       *)
(* replaces a file that cannot be read (update_settings).                  *)
UpdatesKeep ==
    /\ \A g \in Layers, change \in FewLayers :
          LET of == H!UpdateSettings(File(g), change).of
          IN  /\ \A k \in DOMAIN g \ DOMAIN change : of[k] = g[k]
              /\ \A k \in DOMAIN change :
                    \/ of[k] = change[k]
                    \/ /\ g[k].type = "object" /\ change[k].type = "object"
                       /\ \A m \in DOMAIN g[k].of \ DOMAIN change[k].of :
                             of[k].of[m] = g[k].of[m]
    /\ \A file \in Damaged \union {[state |-> "bytes"]} :
          H!UpdateSettings(file, <<>>) = file

Model(provider, id, reasoning, levels, input) ==
    [provider |-> provider, id |-> id, reasoning |-> reasoning, input |-> input,
     cost |-> [in |-> 1, out |-> 1], window |-> 9, maxTokens |-> 9, levels |-> levels,
     name |-> id, extra |-> [f \in {"headers", "sampling", "compat"} |-> Null],
     source |-> "builtin"]

Fixed == H!Map([l \in Range(H!Levels) |-> None])
Flash == Model("opencode-go", <<"deepseek-v4.1-flash">>, TRUE,
               H!Map([minimal |-> None, low |-> None, medium |-> None, max |-> "max"]),
               {"text"})
Simple == Model("deepseek", <<"m">>, FALSE, H!NoMap, {"text", "image"})
Stubborn == Model("deepseek", <<"r">>, TRUE, Fixed, {"text"})
Twin == Model("opencode-go", <<"m">>, TRUE, H!NoMap, {"text"})
Builtin == [p \in {"deepseek", "opencode-go"} |->
               IF p = "deepseek" THEN <<Simple, Stubborn>> ELSE <<Flash, Twin>>]
Order == <<"deepseek", "opencode-go">>

-----------------------------------------------------------------------------
(* The model directory                                                     *)

Definition(id) ==
    [id |-> id, api |-> "completions", reasoning |-> TRUE, input |-> {"text"},
     cost |-> [in |-> 2, out |-> 2], window |-> 5, maxTokens |-> 5]
Definitions ==
    {Definition(<<"n">>), Definition(<<"m">>), Definition(<<"m", "n">>), Bad,
     [Definition(<<"n">>) EXCEPT !.window = Bad],
     [Definition(<<"n">>) EXCEPT !.cost = [in |-> 2]],
     H!Without(Definition(<<"n">>), {"api"}),
     Definition(<<"n">>) @@ [levels |-> Null],
     Definition(<<"n">>) @@ [headers |-> Null, name |-> Bad, levels |-> [high |-> "h"]]}
Overrides ==
    Some([window |-> {7, Bad}, cost |-> {[in |-> 3], Bad}, name |-> {Bad},
          levels |-> {[low |-> "l"]}, headers |-> {Null}])
Configs ==
    {Absent, [state |-> "broken"], File(<<>>)}
      \union {File([providers |-> p @@ [deepseek |-> [models |-> d, overrides |-> <<>>]]]) :
                 d \in SeqOf(Definitions, 2), p \in {<<>>, [other |-> Bad]}}
      \union {File([providers |-> [deepseek |->
                        [models |-> <<>>, overrides |-> (id :> o)]]]) :
                 id \in {<<"m">>, <<"n">>}, o \in Overrides}

(* models.json takes no built-in model away and brings none under an id     *)
(* that is taken; what it says and is not taken over blocks, except an      *)
(* override without a model and a name that is none                         *)
(* (model_directory.py, _merge_provider).                                  *)
DirectoryKeepsBuiltins ==
    \A file \in Configs :
        LET directory == H!ModelDirectory(Order, Builtin, file)
            models == directory.models
            config == H!LoadModelsConfig(file, Builtin).of.deepseek
            builtin == Builtin["deepseek"] \o Builtin["opencode-go"]
            kept == SelectSeq(models, LAMBDA m : \E b \in Range(builtin) :
                                m.provider = b.provider /\ m.id = b.id)
        IN  /\ \A i, j \in DOMAIN models :
                  models[i].provider = models[j].provider /\ models[i].id = models[j].id
                    => i = j
            /\ Len(kept) = Len(builtin)
            /\ \A i \in DOMAIN kept :
                  /\ kept[i].provider = builtin[i].provider /\ kept[i].id = builtin[i].id
                  /\ kept[i].source = "builtin" => kept[i] = builtin[i]
                  /\ kept[i].levels # builtin[i].levels
                       => H!Supported(kept[i]) # <<>> \/ ~kept[i].reasoning
            /\ ~H!Blocked(directory.diags) =>
                  /\ \A d \in Range(config.models) :
                        \E m \in Range(models) : m.id = d.id /\ m.window = d.window
                  /\ \A id \in DOMAIN config.overrides, m \in Range(kept) :
                        m.id = id /\ m.provider = "deepseek"
                          /\ "window" \in DOMAIN config.overrides[id]
                            => m.window = config.overrides[id].window

(* The default that /settings writes for a model is that model again, as    *)
(* long as its id has no slash; with one it is refused, or is another model *)
(* (preferences.py, default_change; host.py, _resolve_reference).          *)
DefaultReadBack ==
    LET slashed == Model("opencode-go", <<"v", "m">>, FALSE, H!NoMap, {"text"})
        doubled == Model("deepseek", <<"deepseek", "m">>, FALSE, H!NoMap, {"text"})
        models == <<Simple, Stubborn, doubled, Flash, Twin, slashed>>
        readBack(m) ==
            H!ConfiguredModel(models, [values |-> H!DefaultModelChange(m),
                                       explicit |-> <<>>, project |-> <<>>])
    IN  /\ \A m \in Range(models) : Len(m.id) = 1 => readBack(m) = H!Resolved(m, {})
        /\ readBack(slashed) = H!Unresolved("global", "invalid-value")
        /\ readBack(doubled).model = Simple
        /\ H!ResolveModel(models, <<"opencode-go", "v", "m">>) = <<slashed>>

-----------------------------------------------------------------------------
(* Hosts                                                                   *)

NoProject ==
    [settings |-> Absent, system |-> Absent, append |-> Absent, prompts |-> FALSE,
     skills |-> FALSE]
FullProject ==
    [settings |-> File([defaultTools |-> H!Strings(<<"read">>),
                        skills |-> H!Strings(<<"mine">>)]),
     system |-> TextFile("project"), append |-> [state |-> "unreadable"],
     prompts |-> TRUE, skills |-> TRUE]
Host ==
    [startup |-> "s", dirs |-> {"s", "p"}, approve |-> FALSE, noApprove |-> FALSE,
     projectTrusted |-> None, decisions |-> [of |-> <<>>, diags |-> {}],
     globalSettings |-> Absent, explicit |-> <<>>,
     project |-> [d \in {"s", "p"} |-> IF d = "p" THEN FullProject ELSE NoProject],
     agent |-> [system |-> TextFile("agent"), append |-> TextFile("more"),
                prompts |-> TRUE, skills |-> TRUE],
     systemText |-> None, systemFile |-> None, appended |-> <<>>,
     noResources |-> FALSE, resources |-> <<>>,
     directory |-> H!ModelDirectory(Order, Builtin, Absent),
     noSession |-> FALSE, sessionDir |-> None]

Trusting ==
    {[Host EXCEPT !.approve = a, !.noApprove = n, !.projectTrusted = t,
                  !.decisions.of = d, !.appended = text] :
        a \in BOOLEAN, n \in BOOLEAN, t \in {None, "yes", "no"},
        d \in Some([p |-> {"approved", "denied"}]),
        text \in {<<>>, <<[kind |-> "text", of |-> ""]>>,
                  <<[kind |-> "file", of |-> Absent], [kind |-> "text", of |-> "x"]>>}}

(* Nothing of a project that is not trusted is used: the session is what it *)
(* would be in a directory without it.  The screen asks exactly where       *)
(* something was left out for want of a decision, and no longer once it is  *)
(* answered (host.py, _resolve_trust, needs_trust_decision).               *)
UntrustedUnused ==
    \A h \in Trusting :
        LET now == H!Refreshed(h, "p")
            bare == [h EXCEPT !.project["p"] = NoProject]
            without == H!Refreshed(bare, "p")
            answered(d) == H!RememberTrust(h, now, d, "p", TRUE)
        IN  /\ ~now.trusted =>
                  /\ [now EXCEPT !.diags = {}] = [without EXCEPT !.diags = {}]
                  /\ H!ResourceTiers(h, now, "skills")
                       = H!ResourceTiers(bare, without, "skills")
            /\ H!NeedsDecision(h, now) = (H!Diagnostic("trust", "untrusted") \in now.diags)
            /\ \A d \in {"approved", "denied"} :
                  LET next == answered(d).now
                  IN  /\ ~H!NeedsDecision(answered(d).h, next)
                      /\ ~(h.approve \/ h.noApprove) => next.trusted = (d = "approved")
            /\ H!RememberTrust(h, now, "denied", "s", TRUE).now = now

References ==
    {<<>>, <<"m">>, <<"r">>, <<"deepseek", "m">>, <<"deepseek-v4.1-flash">>, <<"x">>,
     <<"", "m">>, <<"m", "">>}
Asks ==
    [provider : {None, "deepseek", "other"}, model : References,
     thinking : {None, "high", "max"}, tools : {<<None>>, <<"read", "read">>, <<>>},
     cwd : {None, "p", "gone"}]
Configured ==
    {[Host EXCEPT !.globalSettings = File(f)] :
        f \in Some([defaultModel |-> {H!Value("string", id) : id \in
                                        {<<"r">>, <<"x">>, <<"opencode-go", "m">>}},
                    defaultProvider |-> {H!Value("string", "deepseek")},
                    defaultThinkingLevel |-> {H!Value("string", "xhigh")}])}
Saved(path, id, cwd, model, thinking, mtime, readable) ==
    [path |-> path, id |-> id, cwd |-> cwd, provider |-> model.provider,
     modelId |-> model.id, mtime |-> mtime, readable |-> readable, images |-> TRUE,
     thinking |-> thinking]
Nameless == [provider |-> None, id |-> <<>>]
Gone == [provider |-> "deepseek", id |-> <<"old">>]
Saves ==
    {Saved("f", "abc", cwd, model, thinking, 2, readable) :
        cwd \in {"p", "gone"}, model \in {Nameless, Gone, Stubborn, Flash},
        thinking \in {None, "off", "max"}, readable \in BOOLEAN}

Provided(asked) == asked.model # <<>> \/ asked.provider # None

(* A selection that cannot run says why.  Its model is the one that was     *)
(* asked for, saved or configured, in that order, and no other takes the    *)
(* place of one that is not there; so it is with its directory.  Its level  *)
(* is one the model offers (host.py: "instead of silently switching         *)
(* provider or directory").                                                *)
Honest(h, asked, saved, s) ==
    LET configured == h.globalSettings.state = "object"
                        /\ "defaultModel" \in DOMAIN h.globalSettings.of
        named == IF asked.model # <<>> THEN asked.model[Len(asked.model)]
                 ELSE IF saved # None /\ saved.provider # None
                 THEN saved.modelId[Len(saved.modelId)]
                 ELSE IF configured
                 THEN LET id == h.globalSettings.of.defaultModel.is IN id[Len(id)]
                 ELSE "deepseek-v4.1-flash"
    IN  /\ ~H!Ready(s) => H!Blocked(s.diags)
        /\ s.model # None =>
              /\ s.model \in Range(h.directory.models)
              /\ s.model.id = <<named>>
              /\ ~Provided(asked) /\ saved # None /\ saved.provider # None
                   => s.model.provider = saved.provider
              /\ asked.provider \in {None, s.model.provider}
        /\ s.thinking # None =>
              IF H!FixedThinking(s.model) THEN s.thinking = "off"
              ELSE s.thinking \in Range(H!Supported(s.model))
        /\ s.cwd # None =>
              /\ s.cwd \in h.dirs
              /\ s.cwd = IF asked.cwd # None THEN asked.cwd
                         ELSE IF saved # None THEN saved.cwd ELSE h.startup
        /\ H!ToolsAllowed(s.tools)

SelectionsHonest ==
    \A h \in Configured, asked \in Asks :
        /\ Honest(h, asked, None, H!SelectNew(h, asked))
        /\ asked.tools = <<None>> => \A file \in Saves :
              LET s == H!SelectOpen(h, asked, file)
              IN  IF file.readable THEN Honest(h, asked, file, s)
                  ELSE ~H!Ready(s) /\ H!Blocked(s.diags)

(* --continue reopens the newest readable session of the directory, and     *)
(* starts a new one only where there is none; an id finds its session only  *)
(* when it is the id of one (session_directory.py).                        *)
SessionsFound ==
    \A readable \in [1..3 -> BOOLEAN], mtime \in [1..3 -> 1..2],
       cwd \in [1..3 -> {"s", "p"}] :
        LET file(i) == Saved(<<"f1", "f2", "f3">>[i], <<"aa", "ab", "b">>[i], cwd[i],
                             Flash, None, mtime[i], readable[i])
            files == [i \in 1..3 |-> file(i)]
            asked == [provider |-> None, model |-> <<>>, thinking |-> None,
                      tools |-> <<None>>, cwd |-> None]
            here == {i \in 1..3 : readable[i] /\ cwd[i] = "s"}
            s == H!SelectContinue(Host, asked, files)
            byId(ids) == H!Lookup(files, [path |-> None, ids |-> ids])
        IN  /\ H!Ready(s)
            /\ IF here = {} THEN s.path = None
               ELSE \E i \in here : /\ s.path = files[i].path
                                    /\ \A j \in here : mtime[j] <= mtime[i]
            /\ byId({"b"}) = (IF readable[3] THEN files[3] ELSE None)
            /\ byId({"aa", "ab"}) = None <=> readable[1] = readable[2]

-----------------------------------------------------------------------------
(* The command line                                                        *)

Tokens ==
    {H!Option("--print", None), H!Option("--model", None), H!Option("--skill", None),
     H!Option("--skill", "x"), H!Option("--list-models", None), H!Word("w"),
     H!FileWord("@f"), H!EndOfOptions, [is |-> "dash", name |-> "-x", inline |-> None]}
Lines(n) == SeqOf(Tokens, n)

(* Arguments that were read do not change how the next ones are read, as    *)
(* long as no option waits for a value and "--" has not ended them; after   *)
(* it every word is a message.  No word is lost or counted twice            *)
(* (cli.py, parse_args).                                                   *)
LinesRead ==
    \A before \in Lines(2), after \in Lines(2) :
        LET a == FoldLeft(H!Read, H!NoArgs, before)
            b == H!ParseArgs(after)
            both == H!ParseArgs(before \o after)
            Literal(t) == [i \in DOMAIN t |-> t[i].name]
        IN  /\ (a.ok /\ a.pending = None /\ ~a.literal) =>
                  /\ both.ok = (b.ok /\ DOMAIN a.given \intersect DOMAIN b.given = {})
                  /\ both.ok =>
                        both = [a EXCEPT !.flags = @ \union b.flags, !.given = b.given @@ @,
                                         !.many = @ \o b.many, !.files = @ \o b.files,
                                         !.messages = @ \o b.messages,
                                         !.literal = b.literal]
            /\ (a.ok /\ a.literal) =>
                  both.ok /\ both.messages = a.messages \o Literal(after)
            /\ (both.ok /\ ~both.literal) =>
                  LET spoken == SelectSeq(before \o after, LAMBDA t : t.is \in {"word", "file"})
                      values == {n \in DOMAIN both.given : both.given[n] # None}
                      inline == SelectSeq(before \o after, LAMBDA t : t.inline # None)
                  IN  Len(both.messages) + Len(both.files) + Len(both.many)
                        + Cardinality(values) = Len(spoken) + Len(inline)

(* A model the command line lets through is the model of the session, at    *)
(* the level that was given with it, however the host was configured.  What *)
(* it lets through alone, a provider or a level without a model, the host   *)
(* may still refuse, and print ends with 2 (cli.py, _validate_selection;    *)
(* host.py, _resolve_reference).                                           *)
AllowedIsSelected ==
    \A h \in Configured, provider \in {None, "deepseek", "opencode-go", "other"},
       model \in References, level \in {None, "low", "high", "max"} :
        LET args == [H!NoArgs EXCEPT !.given =
                        RestrictValues(("--provider" :> provider) @@ ("--model" :> model)
                                         @@ ("--thinking" :> level),
                                       LAMBDA v : v \notin {None, <<>>})]
            s == H!SelectSession(H!HostFor(h, args), args, <<>>, None)
            keys == [cli |-> TRUE, stored |-> FALSE, env |-> FALSE, damaged |-> TRUE]
            allowed == H!ArgsAllowed(args, h, {}, {"deepseek", "opencode-go"})
            code == H!PrintExit(h, args, <<>>, None, keys, TRUE)
        IN  /\ allowed /\ model # <<>> =>
                  /\ H!Ready(s) /\ code = 0
                  /\ s.model.id = <<model[Len(model)]>>
                  /\ level # None => s.thinking = level
                  /\ \A d \in s.diags : d.source # "cli"
            /\ allowed /\ model = <<>> /\ provider # None => code = 2
            /\ ~allowed /\ provider # "other" /\ model # <<>> => code = 2

(* --print never takes the terminal, a resume without one lists, and an     *)
(* allowed line is refused for its terminals only when it asks for the      *)
(* screen by name; without sessions nothing is reopened and no file is      *)
(* written (cli.py, run; host.py, build_options).                          *)
CommandsFit ==
    /\ \A flags \in SUBSET {"--print", "--resume", "--list-sessions", "--no-session"},
          mode \in {None} \union H!Modes, in \in BOOLEAN, out \in BOOLEAN :
          LET args == [H!NoArgs EXCEPT !.flags = flags \ {"--list-sessions"},
                          !.given = RestrictValues(
                              ("--mode" :> mode) @@ ("--list-sessions" :>
                                 IF "--list-sessions" \in flags THEN "" ELSE None),
                              LAMBDA v : v # None)]
              does == H!Command(args, in, out)
          IN  H!ArgsAllowed(args, Host, {}, {}) =>
                /\ does = "interactive" => in /\ out /\ "--print" \notin flags
                /\ does = "usage" => mode = "interactive" /\ ~(in /\ out)
                /\ "--resume" \in flags =>
                      does = "list sessions"
                        \/ H!ResolveMode(args, in, out) = "interactive"
                /\ does \in {"print", "interactive"} =>
                      "--no-session" \in flags <=>
                         H!SessionDirectory(H!HostFor(Host, args), "p") = None
    /\ LET h == [Host EXCEPT !.noSession = TRUE]
           asked == CHOOSE a \in Asks : a.model = <<>> /\ a.tools = <<None>>
                      /\ a.provider = None /\ a.thinking = None /\ a.cwd = None
           new == H!SelectNew(h, asked)
       IN  /\ H!CanBuild(h, new, None) /\ ~H!CanBuild(h, new, "f")
           /\ \A file \in Saves :
                 ~H!CanBuild(h, H!SelectOpen(h, asked, file), None)
           /\ ~H!CanBuild(h, H!SelectContinue(h, asked, <<>>), None)

-----------------------------------------------------------------------------
(* Files that are written                                                  *)

(* Saving or deleting one key keeps the others, and a file with a damaged   *)
(* entry as it is; a write leaves the old file or the new one; and a trust  *)
(* decision is written over what this process read, whatever another has    *)
(* decided since (config.py, FileCredentialStore; trust.py, remember).      *)
FilesKept ==
    /\ \A of \in Some([a |-> {"k", Bad}, b |-> {"k"}]), fn \in {"raises", None, "new"},
          aborted \in {None, "before", "after"} :
          LET saved == H!Modify(File(of), "a", fn, aborted)
              deleted == H!DeleteKey(File(of), "a", aborted)
          IN  /\ \A file \in {saved, deleted} :
                    /\ H!Without(file.of, {"a"}) = H!Without(of, {"a"})
                    /\ Bad \in Range(of) => file = File(of)
              /\ saved # File(of) => fn = "new" /\ aborted = None
    /\ \A failing \in {None, "mkdir", "create", "write", "sync", "chmod", "replace"},
          dies \in BOOLEAN :
          LET written == H!AtomicWrite("old", "new", failing, dies)
          IN  /\ written.file = "new" <=> failing = None
              /\ written.temporary => dies
    /\ LET read == H!ReadDecisions(File([projects |-> H!Object(<<>>)]))
           other == H!Remember(read, "p", "denied")
       IN  /\ other.of = [p |-> "denied"]
           /\ H!Remember(read, "s", "approved").of = [s |-> "approved"]

(* What is decided before the first screen, together.  It depends on no     *)
(* state, so it is evaluated once, when the first command is begun.         *)
StartupSound ==
    [][ScreenInit /\ TypeSlash =>
            /\ SettingsHold /\ UpdatesKeep /\ DirectoryKeepsBuiltins
            /\ DefaultReadBack /\ UntrustedUnused /\ SelectionsHonest
            /\ SessionsFound /\ LinesRead /\ AllowedIsSelected /\ CommandsFit
            /\ FilesKept]_allVars
=============================================================================
