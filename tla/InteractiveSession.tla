------------------------- MODULE InteractiveSession -------------------------
(***************************************************************************)
(* The interactive screen of the coding agent, interactive.py: what the    *)
(* user has typed or attached, the tasks that read and write it, and the   *)
(* way out.                                                                *)
(*                                                                         *)
(* Everything runs on one event loop.  A key is handled in one step; the   *)
(* keys of one read are handled before any task they created takes its     *)
(* first step, so a task is first "created" and runs later.  A text and an *)
(* image are tokens with the conversation they were typed in; an editor    *)
(* holds a set of texts, or the mark Slash when it holds a command.        *)
(*                                                                         *)
(* The slips record every way the code itself drops what the user has not  *)
(* given up, each at the place where it happens; everything else has to    *)
(* keep it.                                                                *)
(*                                                                         *)
(* Left out: the completion list, the model selector and the login prompt  *)
(* (they do not touch the draft), startup and the directory prompt, a      *)
(* second process signal, and keys read after an exit was requested.  The  *)
(* agent's dialogue is the part of AgentLoop the screen can see.           *)
(***************************************************************************)
EXTENDS Naturals

CONSTANTS
    Texts, Images,   \* what the user may type and attach, each at most once
    Convs,           \* conversations
    Slash,           \* a command in the editor
    None,
    MaxFaults,       \* bound: saves that fail while a run commits
    MaxCommands      \* bound: commands, selectors, editors, cleared lines
                     \* and ways out the user asks for

ASSUME InteractiveSessionAssumption ==
    /\ Texts \intersect Images = {}
    /\ Slash \notin Texts \union Images
    /\ None \notin Images \union Convs
    /\ Convs # {}
    /\ MaxFaults \in Nat /\ MaxCommands \in Nat

VARIABLES
    editor,        \* self.editor.text
    cleared,       \* _cleared_text
    draft,         \* _draft
    stored,        \* _drafts of the conversations that are not current
    source,        \* the source editor of a switch
    overlay,       \* which selector is open
    confirm,       \* _exit_confirm
    queuedImages,  \* _queued_images
    busy,          \* _busy
    prompt,        \* _prompt_task and what it submits
    attach,        \* the image _attachment_task is reading
    manage,        \* _management_task
    external,      \* _external_running
    shell,         \* _shell_task and its command
    exit,          \* _exit_task and _closing
    discard,       \* _exit_discard_unsaved
    shown,         \* the runtime's current session
    known,         \* conversations that have been current
    agent,         \* the current session's Agent
    history,       \* committed messages by conversation
    unsaved,       \* what an "unsaved" session has committed and not saved
    backups,       \* _exit_backups
    \* history of the behaviour
    owner,         \* the conversations each token was typed or copied in
    given,         \* what the user gave up or a command used up
    slips,         \* what the code dropped on its own
    faults, commands

draftVars == <<editor, cleared, draft, stored, source, overlay, queuedImages>>
taskVars == <<busy, prompt, attach, manage, external, shell>>
exitVars == <<confirm, exit, discard>>
sessionVars == <<shown, known, agent, history, unsaved, backups>>
ghostVars == <<owner, given, slips, faults>>
screenVars == <<draftVars, taskVars, exitVars, sessionVars, ghostVars>>
allVars == <<screenVars, commands>>

Items == Texts \union Images
Message(text, images) == [text |-> text, images |-> images]
Contents(m) == m.text \union m.images
AllOf(messages) == UNION {Contents(m) : m \in messages}

Messages == [text : SUBSET Texts, images : SUBSET Images]
Drafts == [text : SUBSET (Texts \union {Slash}), images : SUBSET Images]
EmptyDraft == Message({}, {})
NoPrompt == [at |-> "none", text |-> {}, images |-> {}, grown |-> FALSE]
NoTask == [at |-> "none", kind |-> "none", target |-> None, copy |-> {},
           cancelling |-> FALSE]
NoShell == [at |-> "none", text |-> {}]
IdleAgent == [at |-> "idle", signal |-> FALSE, queue |-> {}, customs |-> {}]

(* The text of several lines; a half-typed command joined to other text is *)
(* part of it.                                                             *)
Joined(lines) == IF lines \intersect Texts = {} THEN lines ELSE lines \ {Slash}

(* What a run or a compaction commits by itself                            *)
Reply == Message({}, {})

Seen == {i \in Items : owner[i] # {}}

-----------------------------------------------------------------------------
(* What the screen looks at                                                *)

(* save_state "unsaved"                                                    *)
Unsaved == {c \in Convs : unsaved[c] # {}}
SessionUnsaved == shown \in Unsaved

(* AgentState.is_busy                                                      *)
AgentBusy == agent.at # "idle"
Closing == exit \notin {"none", "requested"}
Queued == AllOf(agent.queue)

(* A key reaches the editor: no question, selector or editor is in the way *)
Asking == manage.at = "trust"
KeyRead == exit = "none" /\ ~external
Plain == KeyRead /\ ~Asking /\ ~confirm /\ overlay = "none"
Selecting(kind) == KeyRead /\ ~Asking /\ ~confirm /\ overlay = kind

(* _management_idle                                                        *)
ManagementIdle ==
    /\ ~busy /\ ~external /\ ~AgentBusy /\ attach = None
    /\ shell.at = "none" /\ manage.at = "none"

(* _unsubmitted_content, with text in the current editor                   *)
Unsubmitted(text) ==
    text \union cleared \union draft \union Queued \union source
        \union (IF attach = None THEN {} ELSE {attach})
        \union UNION {Contents(stored[c]) : c \in Convs}

(* _forget_cleared_line, after which the editor holds text                 *)
Forgets(text) == cleared' = IF text = {Slash} THEN cleared ELSE {}

GivesUp(items) == given' = given \union (items \intersect Items)
Slips(items) == slips' = slips \union (items \intersect Items)

-----------------------------------------------------------------------------
(* Editing                                                                 *)

Type(t) ==
    /\ Plain /\ owner[t] = {} /\ Slash \notin editor
    /\ t = CHOOSE fresh \in Texts : owner[fresh] = {}
    /\ editor' = editor \union {t}
    /\ Forgets(editor') /\ GivesUp(cleared)
    /\ owner' = [owner EXCEPT ![t] = {shown}]
    /\ UNCHANGED <<draft, stored, source, overlay, queuedImages, taskVars,
                   exitVars, sessionVars, slips, faults>>

TypeSlash ==
    /\ Plain /\ editor = {}
    /\ editor' = {Slash}
    /\ UNCHANGED <<cleared, draft, stored, source, overlay, queuedImages,
                   taskVars, exitVars, sessionVars, ghostVars>>

(* _ctrl_c, the first of a pair: it replaces an earlier cleared line.      *)
CtrlC ==
    /\ Plain /\ editor # {}
    /\ cleared' = editor /\ editor' = {}
    /\ Slips(cleared)
    /\ UNCHANGED <<draft, stored, source, overlay, queuedImages, taskVars,
                   exitVars, sessionVars, owner, given, faults>>

(* _external_editor, from the suspended terminal to its return             *)
OpenExternal ==
    /\ Plain /\ manage.at = "none" /\ prompt.at # "created"
    /\ external' = TRUE
    /\ UNCHANGED <<draftVars, busy, prompt, attach, manage, shell, exitVars,
                   sessionVars, ghostVars>>

ExternalReturns ==
    /\ external /\ ~Closing
    /\ external' = FALSE
    /\ \/ UNCHANGED <<cleared, given>>
       \/ Forgets(editor) /\ GivesUp(cleared)
    /\ UNCHANGED <<editor, draft, stored, source, overlay, queuedImages, busy,
                   prompt, attach, manage, shell, exitVars, sessionVars,
                   owner, slips, faults>>

(* _draft_edit_allowed, then _attach_command or _paste_clipboard           *)
StartAttachment(i) ==
    /\ Plain /\ manage.at = "none" /\ attach = None /\ owner[i] = {}
    /\ attach' = i
    /\ owner' = [owner EXCEPT ![i] = {shown}]
    /\ \/ editor = {Slash} /\ editor' = {}
       \/ UNCHANGED editor
    /\ UNCHANGED <<cleared, draft, stored, source, overlay, queuedImages,
                   busy, prompt, manage, external, shell, exitVars,
                   sessionVars, given, slips, faults>>

(* _attach_path and _read_clipboard: the image joins the draft, or not     *)
AttachmentEnds ==
    /\ attach # None /\ ~Closing
    /\ attach' = None
    /\ \/ draft' = draft \union {attach} /\ UNCHANGED given
       \/ GivesUp({attach}) /\ UNCHANGED draft
    /\ UNCHANGED <<editor, cleared, stored, source, overlay, queuedImages,
                   busy, prompt, manage, external, shell, exitVars,
                   sessionVars, owner, slips, faults>>

(* /attach clear                                                           *)
ClearAttachments ==
    /\ Plain /\ editor = {Slash} /\ manage.at = "none"
    /\ editor' = {} /\ draft' = {} /\ attach' = None
    /\ GivesUp(draft \union {attach})
    /\ UNCHANGED <<cleared, stored, source, overlay, queuedImages, busy,
                   prompt, manage, external, shell, exitVars, sessionVars,
                   owner, slips, faults>>

-----------------------------------------------------------------------------
(* Submission                                                              *)

(* _submit, when nothing refuses the text                                  *)
Submit ==
    /\ Plain /\ editor # {} /\ Slash \notin editor
    /\ ~busy /\ manage.at = "none" /\ attach = None /\ ~SessionUnsaved
    /\ prompt' = [at |-> "created", text |-> editor, images |-> draft,
                  grown |-> FALSE]
    /\ busy' = TRUE /\ editor' = {} /\ draft' = {}
    /\ Forgets(editor') /\ GivesUp(cleared)
    /\ UNCHANGED <<stored, source, overlay, queuedImages, attach, manage,
                   external, shell, exitVars, sessionVars, owner, slips,
                   faults>>

(* _keep_refused_submission: without an image the text is only displayed.  *)
SubmitRefused ==
    /\ Plain /\ editor # {} /\ Slash \notin editor /\ draft = {}
    /\ ~busy /\ manage.at = "none" /\ attach = None
    /\ editor' = {} /\ Forgets(editor') /\ GivesUp(editor \union cleared)
    /\ UNCHANGED <<draft, stored, source, overlay, queuedImages, taskVars,
                   exitVars, sessionVars, owner, slips, faults>>

(* _queue_input: steering or a follow-up while the prompt's task is there  *)
QueueInput ==
    /\ Plain /\ editor # {} /\ Slash \notin editor
    /\ prompt.at # "none" /\ attach = None /\ ~SessionUnsaved
    /\ agent' = [agent EXCEPT !.queue = @ \union {Message(editor, draft)}]
    /\ queuedImages' = (queuedImages \union draft) \intersect AllOf(agent'.queue)
    /\ editor' = {} /\ draft' = {}
    /\ Forgets(editor') /\ GivesUp(cleared)
    /\ UNCHANGED <<stored, source, overlay, taskVars, exitVars, shown,
                   known, history, unsaved, backups, owner, slips, faults>>

(* Mutant: a rejected prompt gives back its text but not its images.       *)
MutTextOnly ==
    /\ editor' = Joined(editor \union prompt.text)
    /\ UNCHANGED draft
    /\ Forgets(editor')

(* _restore_rejected                                                       *)
RestoreRejected ==
    /\ editor' = Joined(editor \union prompt.text)
    /\ draft' = draft \union prompt.images
    /\ Forgets(editor')

(* _prompt: its first step either starts the agent's run or is rejected.   *)
(* A record committed since the submission passes for the prompt's own; an *)
(* exit requested meanwhile has not counted what is now given back.        *)
PromptStarts ==
    /\ prompt.at = "created"
    /\ \/ /\ ~SessionUnsaved /\ ~AgentBusy
          /\ prompt' = [prompt EXCEPT !.at = "waiting"]
          /\ agent' = [agent EXCEPT !.at = "opening", !.signal = FALSE]
          /\ UNCHANGED <<editor, cleared, draft, busy, slips>>
       \/ /\ SessionUnsaved \/ AgentBusy
          /\ \/ /\ prompt.grown
                /\ Slips(prompt.text \union prompt.images)
                /\ UNCHANGED <<editor, cleared, draft>>
             \/ /\ ~prompt.grown
                /\ RestoreRejected
                /\ Slips(cleared \union (IF exit = "none" THEN {} ELSE
                                         prompt.text \union prompt.images))
          /\ prompt' = NoPrompt /\ busy' = FALSE
          /\ UNCHANGED agent
    /\ UNCHANGED <<stored, source, overlay, queuedImages, attach, manage,
                   external, shell, exitVars, shown, known, history,
                   unsaved, backups, owner, given, faults>>

(* _settle_activity, when the run the prompt waited for is over            *)
PromptSettles ==
    /\ prompt.at = "ended"
    /\ prompt' = NoPrompt /\ busy' = FALSE
    /\ UNCHANGED <<draftVars, attach, manage, external, shell, exitVars,
                   sessionVars, ghostVars>>

(* _take_queued_image                                                      *)
TakeQueuedImages ==
    /\ draft' = draft \union (Queued \intersect queuedImages)
    /\ queuedImages' = queuedImages \ Queued

(* What _recall_queued leaves in an editor holding text                    *)
Recalled(text) == Joined(text \union (Queued \intersect Texts))

(* _recall_queued                                                          *)
Recall ==
    /\ agent.queue # {}
    /\ editor' = Recalled(editor)
    /\ TakeQueuedImages /\ Forgets(editor')
    /\ Slips(cleared \ cleared')

AltUp ==
    /\ Plain /\ Recall
    /\ agent' = [agent EXCEPT !.queue = {}]
    /\ UNCHANGED <<stored, source, overlay, taskVars, exitVars, shown,
                   known, history, unsaved, backups, owner, given, faults>>

-----------------------------------------------------------------------------
(* The user's shell                                                        *)

(* _start_shell                                                            *)
StartShell ==
    /\ Plain /\ editor # {} /\ Slash \notin editor
    /\ manage.at = "none" /\ shell.at = "none" /\ prompt.at # "created"
    /\ agent.at # "manual" /\ ~SessionUnsaved
    /\ shell' = [at |-> "running", text |-> editor]
    /\ editor' = {} /\ Forgets(editor') /\ GivesUp(cleared)
    /\ UNCHANGED <<draft, stored, source, overlay, queuedImages, busy, prompt,
                   attach, manage, external, exitVars, sessionVars, owner,
                   slips, faults>>

(* _run_shell: the record of an ended shell goes to the agent, which       *)
(* commits it at once when idle and at its next boundary otherwise.        *)
ShellEnds ==
    /\ shell.at \in {"running", "aborting"}
    /\ \/ /\ ~AgentBusy
          /\ agent' = [agent EXCEPT !.at = "recording", !.signal = FALSE]
          /\ shell' = [shell EXCEPT !.at = "recording"]
       \/ /\ agent.at \in {"opening", "running"}
          /\ agent' = [agent EXCEPT !.customs = @ \union shell.text]
          /\ shell' = NoShell
    /\ UNCHANGED <<draftVars, busy, prompt, attach, manage, external,
                   exitVars, shown, known, history, unsaved, backups,
                   ghostVars>>

-----------------------------------------------------------------------------
(* What the screen sees of the agent's run                                 *)

Committed(m) ==
    /\ history' = [history EXCEPT ![shown] = @ \union {m}]
    /\ prompt' = [prompt EXCEPT !.grown = prompt.at # "none"]

(* The commit of messages is saved, or leaves the session unsaved; then    *)
(* every further commit fails with the same error.                         *)
SaveFails(messages) ==
    /\ SessionUnsaved \/ faults < MaxFaults
    /\ faults' = IF SessionUnsaved THEN faults ELSE faults + 1
    /\ unsaved' = [unsaved EXCEPT ![shown] = @ \union messages \union {Reply}]
SaveHolds == ~SessionUnsaved /\ UNCHANGED <<unsaved, faults>>

RecordCommitted ==
    /\ agent.at = "recording"
    /\ agent' = [agent EXCEPT !.at = "recorded"]
    /\ Committed(Message(shell.text, {}))
    /\ (SaveHolds \/ SaveFails({Message(shell.text, {})}))
    /\ UNCHANGED <<draftVars, busy, attach, manage, external, shell, exitVars,
                   shown, known, backups, owner, given, slips>>

RecordSettles ==
    /\ agent.at = "recorded"
    /\ agent' = [agent EXCEPT !.at = "idle"]
    /\ shell' = NoShell
    /\ UNCHANGED <<draftVars, busy, prompt, attach, manage, external, exitVars,
                   shown, known, history, unsaved, backups, ghostVars>>

(* The run is over: an accepted record is flushed before it settles.       *)
Settled == [agent EXCEPT !.at = "idle", !.customs = {}]
WithRecords(messages) ==
    messages \union (IF agent.customs = {} THEN {}
                     ELSE {Message(agent.customs, {})})

(* The prompt is committed, and the run goes on if that is saved.          *)
PromptCommitted ==
    /\ agent.at = "opening" /\ ~agent.signal
    /\ history' = [history EXCEPT ![shown] =
                      WithRecords(@ \union {Message(prompt.text, prompt.images)})]
    /\ \/ /\ SaveHolds
          /\ agent' = [agent EXCEPT !.at = "running", !.customs = {}]
          /\ prompt' = [prompt EXCEPT !.text = {}, !.images = {}]
       \/ /\ SaveFails(history'[shown] \ history[shown])
          /\ agent' = Settled
          /\ prompt' = [NoPrompt EXCEPT !.at = "ended"]
    /\ UNCHANGED <<draftVars, busy, attach, manage, external, shell, exitVars,
                   shown, known, backups, owner, given, slips>>

(* Before that commit a run flushes records and may summarize old history; *)
(* an abort or a failed save there ends it without the prompt.             *)
PromptDropped ==
    /\ agent.at = "opening"
    /\ Slips(prompt.text \union prompt.images)
    /\ history' = [history EXCEPT ![shown] = WithRecords(@)]
    /\ \/ agent.signal /\ SaveHolds
       \/ SaveFails(history'[shown] \ history[shown])
    /\ agent' = Settled
    /\ prompt' = [NoPrompt EXCEPT !.at = "ended"]
    /\ UNCHANGED <<draftVars, busy, attach, manage, external, shell, exitVars,
                   shown, known, backups, owner, given>>

Drain(m) ==
    /\ agent.at = "running" /\ ~agent.signal /\ m \in agent.queue
    /\ agent' = [agent EXCEPT !.queue = @ \ {m}]
    /\ history' = [history EXCEPT ![shown] = @ \union {m}]
    /\ SaveHolds
    /\ UNCHANGED <<draftVars, taskVars, exitVars, shown, known, backups,
                   owner, given, slips>>

RunEnds ==
    /\ agent.at = "running"
    /\ history' = [history EXCEPT ![shown] = WithRecords(@)]
    /\ (SaveHolds \/ SaveFails(history'[shown] \ history[shown]))
    /\ agent' = Settled
    /\ prompt' = [NoPrompt EXCEPT !.at = "ended"]
    /\ UNCHANGED <<draftVars, busy, attach, manage, external, shell, exitVars,
                   shown, known, backups, owner, given, slips>>

-----------------------------------------------------------------------------
(* Management commands                                                     *)

Task(kind, target, copy) ==
    [at |-> "created", kind |-> kind, target |-> target, copy |-> copy,
     cancelling |-> FALSE]

(* /new and /clone open an unused conversation, /resume a saved one; a     *)
(* fork copies what came before one of the messages.                       *)
Replacements ==
    {Task("new", c, {}) : c \in Convs \ known}
        \union {Task("clone", c, {}) : c \in Convs \ known}
        \union {Task("resume", c, {}) : c \in known \ Unsaved}
Forks == {Task("fork", c, {m}) : c \in Convs \ known, m \in history[shown]}

(* _run_command for /new, /resume <reference>, /fork <entry> and /clone    *)
StartReplacement ==
    /\ Plain /\ editor = {Slash} /\ ManagementIdle
    /\ editor' = {} /\ busy' = TRUE
    /\ manage' \in Replacements \union Forks
    /\ UNCHANGED <<cleared, draft, stored, source, overlay, queuedImages,
                   prompt, attach, external, shell, exitVars, sessionVars,
                   ghostVars>>

(* /compact                                                                *)
StartCompact ==
    /\ Plain /\ editor = {Slash} /\ ManagementIdle /\ ~SessionUnsaved
    /\ editor' = {} /\ busy' = TRUE
    /\ manage' = Task("compact", shown, {})
    /\ UNCHANGED <<cleared, draft, stored, source, overlay, queuedImages,
                   prompt, attach, external, shell, exitVars, sessionVars,
                   ghostVars>>

(* /save and /export, of the current or a retained session                 *)
StartSave(kind, c) ==
    /\ Plain /\ editor = {Slash} /\ manage.at = "none"
    /\ c \in known \intersect (Unsaved \union {shown})
    /\ editor' = {} /\ manage' = Task(kind, c, {})
    /\ UNCHANGED <<cleared, draft, stored, source, overlay, queuedImages,
                   busy, prompt, attach, external, shell, exitVars,
                   sessionVars, ghostVars>>

(* /resume and /fork without an argument open a selector over an editor of *)
(* its own; a second Escape in an empty editor does so as well.            *)
OpenSelector(kind) ==
    /\ Plain
    /\ \/ kind = "resume" /\ manage.at = "none" /\ editor = {Slash}
       \/ kind = "fork" /\ ManagementIdle /\ editor \in {{}, {Slash}}
    /\ editor' = {} /\ overlay' = kind
    /\ UNCHANGED <<cleared, draft, stored, source, queuedImages, taskVars,
                   exitVars, sessionVars, ghostVars>>

(* _selector_key and _fork_selector_key on Escape.  What the selector's    *)
(* editor holds by now is not the source draft's.                          *)
LeaveSelector(kind) ==
    /\ Selecting(kind)
    /\ overlay' = "none" /\ editor' = cleared /\ cleared' = {}
    /\ Slips(editor)
    /\ UNCHANGED <<draft, stored, source, queuedImages, taskVars, exitVars,
                   sessionVars, owner, given, faults>>

ChooseInSelector(kind) ==
    /\ Selecting(kind) /\ ManagementIdle
    /\ overlay' = "none" /\ editor' = {} /\ busy' = TRUE
    /\ manage' \in IF kind = "fork" THEN Forks
                   ELSE {t \in Replacements : t.kind = "resume"}
    /\ Slips(editor)
    /\ UNCHANGED <<cleared, draft, stored, source, queuedImages, prompt,
                   attach, external, shell, exitVars, sessionVars, owner,
                   given, faults>>

(* The cleared line, the queued inputs and the editor become the source    *)
(* draft.                                                                  *)
SetAside ==
    /\ source' = Recalled(editor \union cleared)
    /\ TakeQueuedImages

(* _replace_current up to _apply_selection, which may ask for trust        *)
ReplacementPrepares ==
    /\ manage.at = "created" /\ manage.kind \notin {"compact", "save", "export"}
    /\ SetAside
    /\ editor' = {} /\ cleared' = {}
    /\ agent' = [agent EXCEPT !.queue = {}]
    /\ \E at \in {"trust", "waiting"} : manage' = [manage EXCEPT !.at = at]
    /\ UNCHANGED <<stored, overlay, busy, prompt, attach, external, shell,
                   exitVars, shown, known, history, unsaved, backups, owner,
                   given, slips, faults>>

(* It stops before that, with the draft where it was.                      *)
ReplacementRefused ==
    /\ manage.at = "created" /\ manage.kind \notin {"compact", "save", "export"}
    /\ manage' = NoTask /\ busy' = FALSE
    /\ UNCHANGED <<draftVars, prompt, attach, external, shell, exitVars,
                   sessionVars, ghostVars>>

TrustAnswered ==
    /\ manage.at = "trust" /\ KeyRead
    /\ manage' = [manage EXCEPT !.at = "waiting"]
    /\ UNCHANGED <<draftVars, busy, prompt, attach, external, shell, exitVars,
                   sessionVars, ghostVars>>

(* What the source editor holds at the end of a switch                     *)
SourceText == Joined(source \union editor \union cleared)

SwitchOver ==
    /\ manage' = NoTask /\ busy' = FALSE
    /\ source' = {} /\ cleared' = {}
    /\ UNCHANGED <<overlay, prompt, attach, external, shell, exitVars, backups,
                   given, slips, faults>>

(* _replace_current, when the old session is still current                 *)
ReplacementFails ==
    /\ manage.at = "waiting" \/ (manage.at = "trust" /\ manage.cancelling)
    /\ manage.kind \notin {"compact", "save", "export"}
    /\ editor' = SourceText
    /\ SwitchOver
    /\ UNCHANGED <<draft, stored, queuedImages, shown, known, agent, history,
                   unsaved, owner>>

(* The draft of the conversation that is current now, and of the old one   *)
SwitchDrafts(c, state) ==
    /\ editor' = state.text /\ draft' = state.images
    /\ stored' = [stored EXCEPT ![shown] = Message(SourceText, draft),
                                ![c] = EmptyDraft]

(* _replace_current, when the runtime has published another session        *)
ReplacementPublished ==
    /\ manage.at = "waiting"
    /\ manage.kind \notin {"compact", "save", "export"}
    /\ LET c == manage.target
       IN  /\ IF c = shown
              THEN /\ editor' = SourceText /\ UNCHANGED <<draft, stored>>
              ELSE SwitchDrafts(c, IF manage.kind = "fork"
                                   THEN CHOOSE m \in manage.copy : TRUE
                                   ELSE stored[c])
           /\ history' = [history EXCEPT ![c] =
                             IF manage.kind = "clone" THEN history[shown]
                             ELSE @]
           /\ owner' = [i \in Items |-> IF i \in AllOf(manage.copy)
                                        THEN owner[i] \union {c} ELSE owner[i]]
           /\ shown' = c /\ known' = known \union {c}
    /\ queuedImages' = {} /\ agent' = IdleAgent
    /\ SwitchOver
    /\ UNCHANGED unsaved

(* _compact_command                                                        *)
CompactStarts ==
    /\ manage.at = "created" /\ manage.kind = "compact" /\ ~AgentBusy
    /\ manage' = [manage EXCEPT !.at = "waiting"]
    /\ agent' = [agent EXCEPT !.at = "manual", !.signal = FALSE]
    /\ UNCHANGED <<draftVars, busy, prompt, attach, external, shell, exitVars,
                   shown, known, history, unsaved, backups, ghostVars>>

(* A summary that is committed may still fail to be saved, also when the   *)
(* screen is closing; an aborted compaction commits nothing.               *)
ManualEnds ==
    /\ agent.at = "manual"
    /\ agent' = Settled
    /\ SaveHolds \/ (SaveFails({}) /\ ~agent.signal)
    /\ UNCHANGED <<draftVars, taskVars, exitVars, shown, known, history,
                   backups, owner, given, slips>>

CompactSettles ==
    /\ manage.at = "waiting" /\ manage.kind = "compact"
    /\ agent.at = "idle" \/ manage.cancelling
    /\ manage' = NoTask /\ busy' = FALSE
    /\ UNCHANGED <<draftVars, prompt, attach, external, shell, exitVars,
                   sessionVars, ghostVars>>

(* _save_command: the complete history is saved, or backed up beside it.   *)
SaveEnds ==
    /\ manage.at = "created" /\ manage.kind \in {"save", "export"}
    /\ manage' = NoTask
    /\ \/ UNCHANGED <<unsaved, backups>>
       \/ /\ manage.kind = "save" /\ unsaved' = [unsaved EXCEPT ![manage.target] = {}]
          /\ UNCHANGED backups
       \/ /\ manage.kind = "export" /\ UNCHANGED unsaved
          /\ backups' = [backups EXCEPT ![manage.target] =
                            {history[manage.target]}]
    /\ UNCHANGED <<draftVars, busy, prompt, attach, external, shell, exitVars,
                   shown, known, agent, history, ghostVars>>

-----------------------------------------------------------------------------
(* Escape                                                                  *)

(* Cancelling a task before its first step ends it without running it, and *)
(* without what its finally clause would have put back.                    *)
CancelManagement ==
    IF manage.at = "created" THEN manage' = NoTask
    ELSE manage' = [manage EXCEPT !.cancelling = TRUE]

(* _escape_action                                                          *)
EscapeCompaction ==
    /\ Plain /\ agent.at = "manual" /\ ~agent.signal
    /\ agent' = [agent EXCEPT !.signal = TRUE]
    /\ UNCHANGED <<draftVars, taskVars, exitVars, shown, known, history,
                   unsaved, backups, ghostVars>>

EscapeManagement ==
    /\ Plain /\ agent.at # "manual"
    /\ manage.at # "none" /\ ~manage.cancelling
    /\ CancelManagement
    /\ UNCHANGED <<draftVars, busy, prompt, attach, external, shell, exitVars,
                   sessionVars, ghostVars>>

EscapeWork ==
    /\ Plain /\ agent.at # "manual" /\ manage.at = "none"
    /\ \/ Recall
       \/ /\ agent.queue = {}
          /\ UNCHANGED <<editor, draft, queuedImages, cleared, slips>>
    /\ agent' = [agent EXCEPT !.queue = {}, !.signal = @ \/ AgentBusy]
    /\ shell' = IF ~AgentBusy /\ shell.at = "running"
                THEN [shell EXCEPT !.at = "aborting"] ELSE shell
    /\ UNCHANGED <<stored, source, overlay, busy, prompt, attach, manage,
                   external, exitVars, shown, known, history, unsaved,
                   backups, owner, given, faults>>

-----------------------------------------------------------------------------
(* The way out                                                             *)

(* _request_exit with confirm, from a screen whose editor holds text       *)
AskOrExit(text) ==
    IF Unsubmitted(text) # {} THEN confirm' = TRUE /\ UNCHANGED exit
    ELSE exit' = "requested" /\ UNCHANGED confirm

(* Ctrl+D in an empty editor, the second Ctrl+C and /quit                  *)
RequestExit ==
    /\ Plain /\ editor \in {{}, {Slash}}
    /\ editor' = {}
    /\ AskOrExit({})
    /\ \/ UNCHANGED discard
       \/ editor = {Slash} /\ discard' = TRUE
    /\ UNCHANGED <<cleared, draft, stored, source, overlay, queuedImages,
                   taskVars, sessionVars, ghostVars>>

(* Ctrl+D in the session selector, which is left first                     *)
SelectorExit ==
    /\ Selecting("resume")
    /\ overlay' = "none" /\ editor' = {}
    /\ Slips(editor)
    /\ AskOrExit({})
    /\ UNCHANGED <<cleared, draft, stored, source, queuedImages, taskVars,
                   discard, sessionVars, owner, given, faults>>

(* Ctrl+D while trust is asked for: an exit that does not ask              *)
TrustExit ==
    /\ manage.at = "trust" /\ KeyRead
    /\ exit' = "requested"
    /\ Slips(Unsubmitted(editor))
    /\ UNCHANGED <<draftVars, taskVars, confirm, discard, sessionVars, owner,
                   given, faults>>

(* A process signal or a closed input: the user gives everything up.       *)
SignalExit ==
    /\ exit = "none"
    /\ exit' = "requested"
    /\ given' = given \union Seen
    /\ UNCHANGED <<draftVars, taskVars, confirm, discard, sessionVars, owner,
                   slips, faults>>

(* _answer_exit_confirm                                                    *)
ConfirmExit ==
    /\ KeyRead /\ confirm
    /\ confirm' = FALSE /\ exit' = "requested"
    /\ GivesUp(Unsubmitted(editor))
    /\ agent' = [agent EXCEPT !.queue = {}]
    /\ attach' = None /\ draft' = {} /\ cleared' = {}
    /\ stored' = [c \in Convs |-> EmptyDraft]
    /\ source' = {}
    /\ UNCHANGED <<editor, overlay, queuedImages, busy, prompt, manage,
                   external, shell, discard, shown, known, history, unsaved,
                   backups, owner, slips, faults>>

KeepEditing ==
    /\ KeyRead /\ confirm
    /\ confirm' = FALSE /\ discard' = FALSE
    /\ IF cleared = {} THEN UNCHANGED <<editor, cleared, slips>>
       ELSE editor' = cleared /\ cleared' = {} /\ Slips(editor)
    /\ UNCHANGED <<draft, stored, source, overlay, queuedImages, taskVars,
                   exit, sessionVars, owner, given, faults>>

(* Mutant: an open question is left for the user to answer.                *)
MutQuestionKept ==
    [manage EXCEPT !.cancelling = @ \/ manage.at \in {"created", "waiting"}]

Cancelled == [manage EXCEPT !.cancelling = @ \/ manage.at # "none"]

(* _shutdown: attachment, external editor and management are cancelled;    *)
(* tasks created before it have taken their first steps.                   *)
ShutdownStarts ==
    /\ exit = "requested"
    /\ prompt.at # "created" /\ manage.at # "created"
    /\ exit' = "joining"
    /\ attach' = None /\ external' = FALSE
    /\ manage' = Cancelled
    /\ UNCHANGED <<draftVars, busy, prompt, shell, confirm, discard,
                   sessionVars, ghostVars>>

ShutdownAborts ==
    /\ exit = "joining" /\ manage.at = "none"
    /\ exit' = "waiting"
    /\ overlay' = IF overlay = "resume" THEN "none" ELSE overlay
    /\ editor' = IF overlay = "resume" THEN {} ELSE editor
    /\ Slips(editor \ editor')
    /\ agent' = [agent EXCEPT !.signal = @ \/ prompt.at # "none"]
    /\ shell' = IF shell.at = "running" THEN [shell EXCEPT !.at = "aborting"]
                ELSE shell
    /\ UNCHANGED <<cleared, draft, stored, source, queuedImages, busy, prompt,
                   attach, manage, external, confirm, discard, shown, known,
                   history, unsaved, backups, owner, given, faults>>

(* The sessions that have to be saved before the screen may close          *)
Uncovered ==
    IF discard THEN {} ELSE {c \in Unsaved : history[c] \notin backups[c]}

ShutdownSaves ==
    /\ exit = "waiting" /\ prompt.at = "none" /\ shell.at = "none"
    /\ \E saved \in SUBSET Uncovered :
          /\ unsaved' = [c \in Convs |-> IF c \in saved THEN {} ELSE unsaved[c]]
          /\ IF saved = Uncovered
             THEN exit' = "closing" /\ UNCHANGED discard
             ELSE exit' = "none" /\ discard' = FALSE
    /\ UNCHANGED <<draftVars, taskVars, confirm, shown, known, agent,
                   history, backups, ghostVars>>

(* AgentSessionRuntime.close aborts and awaits what the agent still does.  *)
RuntimeCloses ==
    /\ exit = "closing"
    /\ IF AgentBusy
       THEN /\ ~agent.signal
            /\ agent' = [agent EXCEPT !.signal = TRUE] /\ UNCHANGED exit
       ELSE exit' = "done" /\ UNCHANGED agent
    /\ UNCHANGED <<draftVars, taskVars, confirm, discard, shown, known,
                   history, unsaved, backups, ghostVars>>

-----------------------------------------------------------------------------

ScreenInit ==
    /\ editor = {} /\ cleared = {} /\ draft = {} /\ source = {}
    /\ stored = [c \in Convs |-> EmptyDraft]
    /\ overlay = "none" /\ confirm = FALSE /\ queuedImages = {}
    /\ busy = FALSE /\ prompt = NoPrompt /\ attach = None /\ manage = NoTask
    /\ external = FALSE /\ shell = NoShell
    /\ exit = "none" /\ discard = FALSE
    /\ shown = CHOOSE c \in Convs : TRUE
    /\ known = {shown}
    /\ agent = IdleAgent
    /\ history = [c \in Convs |-> {}]
    /\ unsaved = [c \in Convs |-> {}] /\ backups = [c \in Convs |-> {}]
    /\ owner = [i \in Items |-> {}]
    /\ given = {} /\ slips = {} /\ faults = 0 /\ commands = 0

Selectors == {"resume", "fork"}

(* Keys the bound is about                                                 *)
BoundedKeys ==
    \/ TypeSlash \/ CtrlC \/ OpenExternal \/ RequestExit \/ SignalExit
    \/ editor = {} /\ OpenSelector("fork")

FreeKeys ==
    \/ \E t \in Texts : Type(t)
    \/ \E i \in Images : StartAttachment(i)
    \/ ClearAttachments
    \/ Submit \/ SubmitRefused \/ QueueInput \/ AltUp \/ StartShell
    \/ StartReplacement \/ StartCompact
    \/ \E kind \in {"save", "export"}, c \in Convs : StartSave(kind, c)
    \/ \E kind \in Selectors :
          \/ editor # {} /\ OpenSelector(kind)
          \/ LeaveSelector(kind) \/ ChooseInSelector(kind)
    \/ TrustAnswered
    \/ EscapeCompaction \/ EscapeManagement \/ EscapeWork
    \/ SelectorExit \/ TrustExit
    \/ ConfirmExit \/ KeepEditing

Keys ==
    \/ commands < MaxCommands /\ BoundedKeys /\ commands' = commands + 1
    \/ FreeKeys /\ UNCHANGED commands

AgentSteps ==
    \/ RecordCommitted \/ RecordSettles
    \/ PromptCommitted \/ PromptDropped \/ RunEnds \/ ManualEnds
    \/ \E m \in Messages : Drain(m)

ScreenTasks ==
    \/ ExternalReturns \/ AttachmentEnds
    \/ PromptStarts \/ PromptSettles \/ ShellEnds
    \/ ReplacementPrepares \/ ReplacementRefused \/ ReplacementFails
    \/ ReplacementPublished
    \/ CompactStarts \/ CompactSettles \/ SaveEnds

Shutdown ==
    \/ ShutdownStarts \/ ShutdownAborts \/ ShutdownSaves \/ RuntimeCloses

Tasks == AgentSteps \/ ScreenTasks \/ Shutdown

ScreenNext ==
    \/ Keys
    \/ Tasks /\ UNCHANGED commands

(* The event loop does not rest while a task can run, and the agent's      *)
(* activities come to an end: requests and tools time out or are aborted.  *)
(* Nobody owes the screen a key.                                           *)
ScreenSpec == ScreenInit /\ [][ScreenNext]_allVars
FairScreenSpec == ScreenSpec /\ WF_screenVars(Tasks)

-----------------------------------------------------------------------------
(* Properties                                                              *)

ScreenTypeOK ==
    /\ editor \subseteq Texts \union {Slash}
    /\ cleared \subseteq Texts \union {Slash}
    /\ draft \subseteq Images /\ source \subseteq Texts \union {Slash}
    /\ stored \in [Convs -> Drafts]
    /\ overlay \in Selectors \union {"none"}
    /\ confirm \in BOOLEAN /\ busy \in BOOLEAN /\ external \in BOOLEAN
    /\ queuedImages \subseteq Images
    /\ attach \in Images \union {None}
    /\ exit \in {"none", "requested", "joining", "waiting", "closing", "done"}
    /\ agent.at \in {"idle", "opening", "running", "recording", "recorded",
                     "manual"}
    /\ agent.queue \subseteq Messages /\ agent.customs \subseteq Texts
    /\ shown \in known /\ known \subseteq Convs
    /\ unsaved \in [Convs -> SUBSET Messages]
    /\ history \in [Convs -> SUBSET Messages]

InHistories == UNION {AllOf(history[c]) : c \in Convs}

(* Everything the screen, a task or the agent still holds                  *)
StillHeld ==
    Unsubmitted(editor) \union agent.customs \union shell.text
        \union prompt.text \union prompt.images

(* What the user typed or attached is on the screen, with a task, in the   *)
(* agent's queues or in a history until the user gives it up; after the    *)
(* exit it is in a history.  Nothing is dropped but at the places the      *)
(* slips name.                                                             *)
NothingDropped ==
    Seen \subseteq given \union slips \union InHistories
                       \union (IF exit = "done" THEN {} ELSE StillHeld)

(* Text and images stay with the conversation they were typed in, or were  *)
(* copied to by a fork, through switches, recalls and rejected prompts.    *)
DraftsStayHome ==
    /\ \A i \in (editor \union cleared \union draft \union source
                    \union Queued) \intersect Items : shown \in owner[i]
    /\ \A c \in Convs : \A i \in Contents(stored[c]) \intersect Items :
          c \in owner[i]

(* The screen closes only when every message of the user is saved, is in a *)
(* backup of the whole history, or is abandoned by the user.               *)
ExitCoversHistories ==
    exit = "done" =>
        discard \/ \A c \in Convs : \/ AllOf(unsaved[c]) = {}
                                     \/ history[c] \in backups[c]

(* A requested exit closes the screen or gives it back to the user.        *)
ExitSettles == exit = "requested" ~> exit \in {"none", "done"}

(* interactive.md: nothing is dropped without a decision of the user.      *)
AsksBeforeDropping == slips = {}

(* A screen that is busy has something to wait for.                        *)
BusyHasTask == busy => prompt.at # "none" \/ manage.at # "none"

(* The user loses nothing, together: what was typed is somewhere until it  *)
(* is given up, drafts stay with their conversation, and the exit waits    *)
(* for every unsaved history.                                              *)
NothingLost == NothingDropped /\ DraftsStayHome /\ ExitCoversHistories

=============================================================================
