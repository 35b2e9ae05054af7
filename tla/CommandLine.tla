----------------------------- MODULE CommandLine -----------------------------
(***************************************************************************)
(* The command line of omh (cli.py): how its words are read, which          *)
(* combinations are refused, what is run, and with which exit code it ends  *)
(* before a session starts.                                                *)
(*                                                                         *)
(* A token is an option, with a value of its own after "=" or without, a    *)
(* @file, a word, the "--" that ends the options, or something else that    *)
(* begins with a dash.  A value is None, where there is none, or a string.  *)
(***************************************************************************)
EXTENDS HostSelection

LOCAL INSTANCE SequencesExt
LOCAL INSTANCE Functions

Option(name, inline) == [is |-> "option", name |-> name, inline |-> inline]
Word(text) == [is |-> "word", name |-> text, inline |-> None]
FileWord(text) == [is |-> "file", name |-> text, inline |-> None]
EndOfOptions == [is |-> "end", name |-> "--", inline |-> None]

BooleanFlags ==
    {"--help", "--version", "--print", "--continue", "--resume", "--no-session",
     "--no-tools", "--no-skills", "--no-prompt-templates", "--no-context-files",
     "--approve", "--no-approve", "--all-projects", "--reverse"}
Repeatable ==
    {"--append-system-prompt", "--append-system-prompt-file", "--skill",
     "--prompt-template"}
OptionalValue == {"--list-models", "--list-sessions"}
SingleValue ==
    {"--mode", "--provider", "--model", "--thinking", "--api-key", "--name",
     "--session", "--session-dir", "--cwd", "--use-theme", "--tools",
     "--system-prompt", "--system-prompt-file", "--sort"}
MayBeEmpty == {"--system-prompt", "--append-system-prompt"}

Modes == {"interactive", "text", "json"}
Sorts == {"mtime", "created", "name", "id", "cwd"}
Themes == {"dark", "light"}

(* _parse_mode, _parse_thinking, _parse_tools and the sort.  A value of     *)
(* --tools is the sequence of the names between its commas.                 *)
ValueAllowed(name, value) ==
    CASE name = "--mode" -> value \in Modes
      [] name = "--sort" -> value \in Sorts
      [] name = "--thinking" -> value \in Range(Levels)
      [] name = "--tools" -> ToolsAllowed(value)
      [] OTHER -> value # "" \/ name \in MayBeEmpty

(* The command line as far as it is read: flags are set, given are the      *)
(* single and optional values, many the repeatable ones in their order; an  *)
(* option that waits for its value is pending.                              *)
NoArgs ==
    [ok |-> TRUE, flags |-> {}, given |-> <<>>, many |-> <<>>, messages |-> <<>>,
     files |-> <<>>, pending |-> None, literal |-> FALSE]

Refused(args) == [args EXCEPT !.ok = FALSE]

(* take and optional_value *)
Taken(args, name, value) ==
    IF ~(name \in OptionalValue \/ ValueAllowed(name, value)) THEN Refused(args)
    ELSE IF name \in Repeatable
         THEN [args EXCEPT !.many = Append(@, <<name, value>>), !.pending = None]
    ELSE [args EXCEPT !.given = (name :> value) @@ @, !.pending = None]

(* A token that stands where an option may                                  *)
Opened(args, token) ==
    CASE token.is = "end" -> [args EXCEPT !.literal = TRUE]
      [] token.is = "word" -> [args EXCEPT !.messages = Append(@, token.name)]
      [] token.is = "file" -> [args EXCEPT !.files = Append(@, token.name)]
      [] token.is = "option" /\ token.name \in BooleanFlags ->
            IF token.inline # None THEN Refused(args)
            ELSE [args EXCEPT !.flags = @ \union {token.name}]
      [] token.is = "option" /\ token.name \in SingleValue \union Repeatable
                                                  \union OptionalValue ->
            IF token.name \in DOMAIN args.given THEN Refused(args)
            ELSE IF token.inline # None THEN Taken(args, token.name, token.inline)
            ELSE [args EXCEPT !.pending = token.name]
      [] OTHER -> Refused(args)

(* One turn of parse_args.  A required value may not begin with a dash, an  *)
(* optional one neither with a dash nor with @.                             *)
Read(args, token) ==
    LET settled == IF args.pending \in OptionalValue
                   THEN Taken(args, args.pending, None) ELSE args
    IN  IF ~args.ok THEN args
        ELSE IF args.literal
             THEN [args EXCEPT !.messages = Append(@, token.name)]
        ELSE IF args.pending = None THEN Opened(args, token)
        ELSE IF token.is = "word" \/ (token.is = "file" /\ args.pending \notin OptionalValue)
             THEN Taken(args, args.pending, token.name)
        ELSE IF args.pending \in OptionalValue THEN Opened(settled, token)
        ELSE Refused(args)

ParseArgs(tokens) ==
    LET read == FoldLeft(Read, NoArgs, tokens)
    IN  IF ~read.ok \/ read.pending = None THEN read
        ELSE IF read.pending \in OptionalValue THEN Taken(read, read.pending, None)
        ELSE Refused(read)

-----------------------------------------------------------------------------
(* What the arguments say together                                         *)

Has(args, name) == name \in args.flags \union DOMAIN args.given
Given(args, name) == IF name \in DOMAIN args.given THEN args.given[name] ELSE None

Selectors(args) ==
    {name \in {"--session", "--continue", "--resume"} : Has(args, name)}
Listing(args) == Has(args, "--list-sessions") \/ Has(args, "--resume")

(* The pairs validate_args refuses                                          *)
Conflict(args) ==
    \/ Has(args, "--print") /\ Given(args, "--mode") = "interactive"
    \/ Has(args, "--tools") /\ Has(args, "--no-tools")
    \/ Has(args, "--approve") /\ Has(args, "--no-approve")
    \/ Has(args, "--system-prompt") /\ Has(args, "--system-prompt-file")
    \/ Cardinality(Selectors(args)) > 1
    \/ Has(args, "--no-session") /\ (Selectors(args) # {} \/ Has(args, "--session-dir"))
    \/ ~Listing(args) /\ \E name \in {"--all-projects", "--reverse", "--sort"} :
                            Has(args, name)

(* _validate_resources: the paths that are given must exist.                *)
PathMissing(args, paths) ==
    \/ \E i \in DOMAIN args.many :
          args.many[i][1] # "--append-system-prompt" /\ args.many[i][2] \notin paths
    \/ Has(args, "--system-prompt-file") /\ args.given["--system-prompt-file"] \notin paths

(* The model the command line names, in the form the host reads             *)
Reference(args) == IF Has(args, "--model") THEN args.given["--model"] ELSE <<>>

(* _validate_selection *)
SelectionAllowed(args, models, providers) ==
    LET provider == Given(args, "--provider")
        reference == Reference(args)
        slashed == Len(reference) > 1
        id == IF slashed THEN Tail(reference) ELSE reference
        matches == FindModels(models, IF slashed THEN reference[1] ELSE provider, id)
    IN  /\ provider \in providers \union {None}
        /\ reference # <<>> =>
              /\ slashed => /\ reference[1] # "" /\ id # <<"">>
                            /\ provider \in {None, reference[1]}
              /\ Len(matches) = 1
              /\ Given(args, "--thinking") \in Range(Supported(matches[1])) \union {None}

ArgsAllowed(args, h, paths, providers) ==
    /\ args.ok /\ ~Conflict(args)
    /\ Given(args, "--use-theme") \in Themes \union {None}
    /\ Given(args, "--cwd") \in h.dirs \union {None}
    /\ ~PathMissing(args, paths)
    /\ SelectionAllowed(args, h.directory.models, providers)

(* resolve_mode *)
ResolveMode(args, stdinTty, stdoutTty) ==
    IF Given(args, "--mode") # None THEN Given(args, "--mode")
    ELSE IF ~Has(args, "--print") /\ stdinTty /\ stdoutTty THEN "interactive"
    ELSE "text"

(* run: what is done with arguments that are allowed                        *)
Command(args, stdinTty, stdoutTty) ==
    LET mode == ResolveMode(args, stdinTty, stdoutTty)
    IN  CASE Has(args, "--help") -> "help"
          [] ~Has(args, "--help") /\ Has(args, "--version") -> "version"
          [] OTHER ->
             IF Has(args, "--list-models") THEN "list models"
             ELSE IF Has(args, "--list-sessions")
                     \/ (Has(args, "--resume") /\ mode # "interactive")
                  THEN "list sessions"
             ELSE IF mode # "interactive" THEN "print"
             ELSE IF stdinTty /\ stdoutTty THEN "interactive" ELSE "usage"

(* What print and interactive ask the host for                              *)
Asked(args) ==
    [provider |-> Given(args, "--provider"), model |-> Reference(args),
     thinking |-> Given(args, "--thinking"),
     tools |-> IF Has(args, "--no-tools") THEN <<>>
               ELSE IF Has(args, "--tools") THEN args.given["--tools"] ELSE <<None>>,
     cwd |-> Given(args, "--cwd")]

(* The host _print_text builds from them.                                   *)
HostFor(h, args) ==
    [h EXCEPT !.approve = Has(args, "--approve"),
              !.noApprove = Has(args, "--no-approve"),
              !.noSession = Has(args, "--no-session"),
              !.noResources = Has(args, "--no-skills"),
              !.resources = LET skills == SelectSeq(args.many, LAMBDA m : m[1] = "--skill")
                            IN  [i \in DOMAIN skills |-> skills[i][2]],
              !.systemText = Given(args, "--system-prompt"),
              !.sessionDir = Given(args, "--session-dir"),
              !.startup = IF Has(args, "--cwd") THEN args.given["--cwd"] ELSE @]

(* _select_session *)
SelectSession(h, args, files, reference) ==
    IF Has(args, "--session") THEN SelectOpen(h, Asked(args), Lookup(files, reference))
    ELSE IF Has(args, "--continue") THEN SelectContinue(h, Asked(args), files)
    ELSE SelectNew(h, Asked(args))

(* _print_text: the exit code, or 0 where the tasks start.  Settings whose  *)
(* bytes are no text stop the host that reads them: 2 from its constructor, *)
(* and 1 once it selects.                                                   *)
PrintExit(h, args, files, reference, keys, inputReadable) ==
    LET host == HostFor(h, args)
        s == SelectSession(host, args, files, reference)
    IN  IF Refreshed(host, None).settings.raised THEN 2
        ELSE IF s.cwd # None /\ Refreshed(host, s.cwd).settings.raised THEN 1
        ELSE IF ~Ready(s) \/ Blocked(Readiness(s, keys)) \/ ~inputReadable THEN 2
        ELSE 0
=============================================================================
