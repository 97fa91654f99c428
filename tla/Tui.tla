-------------------------------- MODULE Tui --------------------------------
(***************************************************************************)
(* The terminal UI of internal/tui.  Update takes one message at a time    *)
(* and returns the next Model and commands; every command is a daemon call *)
(* in a goroutine of its own whose answer comes back as a message, so      *)
(* answers arrive in any order and find the Model in any mode.             *)
(*                                                                         *)
(* `m' is the Model, `flight' the calls that have not been answered yet.   *)
(* Texts are told apart only by where they come from: the stored value of  *)
(* a scope, something typed, nothing.  The cursor, the rail and the picker *)
(* are the choice of a row; layout, flashes and the audit rows are left    *)
(* out.  A key that only flashes a refusal is no step.  What the daemon    *)
(* answers (ok, auth_required, another error) is a free choice.            *)
(***************************************************************************)
EXTENDS Naturals, FiniteSets

CONSTANTS
    Scopes,        \* vault/project/env triples, existing or not
    Existing,      \* the scopes there are when the UI starts
    Default,       \* the default scope, which cannot be renamed or deleted
    Names,         \* entries, in every scope
    Fresh,         \* a name no entry has
    None,          \* no scope, no name
    RevealTicks,   \* ticks a revealed value stays (7 seconds)
    MaxKeys,       \* bound of the model: keys pressed
    MaxFlight      \* bound of the model: unanswered calls

ASSUME TuiAssumption ==
    /\ Existing \subseteq Scopes /\ Default \in Existing
    /\ Fresh \notin Names /\ None \notin Scopes \cup Names
    /\ RevealTicks \in Nat /\ MaxKeys \in Nat /\ MaxFlight \in Nat \ {0}

VARIABLES
    m,        \* Model
    flight,   \* daemon calls in progress
    keys,     \* keys pressed so far
    quit,     \* how the program ended: "no", "clean", "forced"
    doomed,   \* history: scopes this UI renamed or asked the daemon to delete
    refused   \* history: what the daemon answered with auth_required

vars == <<m, flight, keys, quit, doomed, refused>>

Modes == {"normal", "insert", "add", "rename", "reveal", "confirm", "picker",
          "command", "search", "audit", "help", "scoperename", "auth",
          "approvals", "annotations"}

Text == Scopes \cup Names \cup {Fresh, "typed", ""}

\* editBuf; `at' is history, the scope the draft was opened in.
EditBuf == [kind : {"none", "new", "insert", "rename"},
            name : Names \cup {Fresh, ""}, value : Text, orig : Text,
            at : Scopes \cup {None}]
NoEdit == [kind |-> "none", name |-> "", value |-> "", orig |-> "", at |-> None]

\* editBuf.Dirty
Dirty(b) ==
    \/ b.kind = "new" /\ (b.name # "" \/ b.value # "")
    \/ b.kind = "rename" /\ b.value # "" /\ b.value # b.orig
    \/ b.kind = "insert" /\ b.value # b.orig

RevealState == [name : Names \cup {Fresh, "", None}, value : Text, left : 0..RevealTicks]
NoReveal == [name |-> None, value |-> "", left |-> 0]
Revealing(n, v) == [name |-> n, value |-> v, left |-> RevealTicks]

AuthKinds == {"none", "get", "put", "delete", "rename", "approve", "annotation"}
RetryKinds == {"get", "put", "delete", "rename"}
AuthReqState == [kind : AuthKinds, prior : Modes, scope : Scopes \cup {None},
                 name : Names \cup {Fresh, ""}]
NoAuth == [kind |-> "none", prior |-> "normal", scope |-> None, name |-> ""]
AuthReq(kind, prior, s, n) == [kind |-> kind, prior |-> prior, scope |-> s, name |-> n]

\* A parked annotation call is a closure over the scope and the name of its view.
Parked == [op : {"none", "load", "op", "history"}, scope : Scopes \cup {None}, name : Names \cup {None}]
Nothing == [op |-> "none", scope |-> None, name |-> None]
AnnState == [name : Names \cup {None}, scope : Scopes \cup {None}, pw : BOOLEAN, pending : Parked,
             line : {"list", "typing", "confirm"}]
NoAnn == [name |-> None, scope |-> None, pw |-> FALSE, pending |-> Nothing, line |-> "list"]

\* Model: the fields that decide what a key or an answer does.  `entriesOf' is
\* the scope whose listing is on the screen, `rail' the scopes of the tree.
Model == [mode : Modes, scope : Scopes, rail : SUBSET Scopes, entriesOf : Scopes \cup {None},
          edit : EditBuf, reveal : RevealState,
          confirm : Names \cup Scopes \cup {None}, fromEdit : BOOLEAN,
          searchAudit : BOOLEAN, renaming : Scopes \cup {None}, auth : AuthReqState, ann : AnnState,
          pendingApproval : BOOLEAN]

\* `pw' is an annotation call with a password; `wiped' a put whose value was zeroed
\* before it was sent.
Call(kind, op, s, n) ==
    [kind |-> kind, op |-> op, scope |-> s, name |-> n, pw |-> FALSE, wiped |-> FALSE]
Ops == AuthKinds \cup {"load", "op", "history", "describe"}
Calls == [kind : {"entries", "value", "op", "renamed", "deleted", "decided",
                  "retry", "ann"},
          op : Ops, scope : Scopes \cup {None}, name : Names \cup Scopes \cup {Fresh, "", None},
          pw : BOOLEAN, wiped : BOOLEAN]

\* What is asked of the daemon, with or without a password.
Asked(op, s, n) == [op |-> op, scope |-> s, name |-> n]

\* The commands of data.go: what is asked, with the context of the answer.
LoadEntriesCmd(s) == Call("entries", "load", s, None)
GetValueCmd(s, n) == Call("value", "get", s, n)
OpCmd(op, s, n) == Call("op", op, s, n)
ScopeRenameCmd(old, new) == Call("renamed", "rename", old, new)
ScopeDeleteCmd(s) == Call("deleted", "delete", s, None)
DecideApprovalCmd == Call("decided", "approve", None, None)
AuthRetryCmd(ar) == Call("retry", ar.kind, ar.scope, ar.name)
AnnCmd(p, pw) ==
    [kind |-> "ann", op |-> p.op, scope |-> p.scope, name |-> p.name, pw |-> pw, wiped |-> FALSE]

\* The value of a refused put is one slice, which the overlay and its repeats share:
\* to zero it empties the repeats that were not sent yet, any of those in flight.
Repeats(ar) ==
    {c \in flight : c.kind = "retry" /\ c.op = "put" /\ ar.kind = "put"
                       /\ c.scope = ar.scope /\ c.name = ar.name}
Zeroed(W) == (flight \ W) \cup {[c EXCEPT !.wiped = TRUE] : c \in W}

\* A key: the next Model, what becomes of the flight, and the calls it starts.
KeyWith(calls, next, cmds) ==
    /\ quit = "no" /\ keys < MaxKeys
    /\ m' = next /\ flight' = calls \cup cmds /\ keys' = keys + 1
    /\ Cardinality(flight') <= MaxFlight
    /\ UNCHANGED <<quit, doomed, refused>>
Key(next, cmds) == KeyWith(flight, next, cmds)

\* An answer: the call leaves the flight.
AnswerWith(calls, c, next, cmds) ==
    /\ quit = "no" /\ c \in flight
    /\ m' = next /\ flight' = (calls \ {c}) \cup cmds
    /\ UNCHANGED <<keys, quit, refused>>
Answer(c, next, cmds) == AnswerWith(flight, c, next, cmds)

\* The answer auth_required.
Refusal(c, next) ==
    /\ quit = "no" /\ c \in flight
    /\ m' = next /\ flight' = flight \ {c}
    /\ refused' = refused \cup {Asked(c.op, c.scope, c.name)}
    /\ UNCHANGED <<keys, quit>>

Rows == IF m.entriesOf = None THEN {} ELSE Names     \* currentEntry can be any

\* loadCurrentScope
LoadCurrentScope(md, s) ==
    Key([md EXCEPT !.scope = s, !.entriesOf = None], {LoadEntriesCmd(s)})

-----------------------------------------------------------------------------
(* Answers.                                                                *)

\* Mutation: a listing is shown whatever scope it was asked for.
EntriesLoadedAlways(c) ==
    /\ c.kind = "entries"
    /\ \/ Answer(c, m, {})
       \/ Answer(c, [m EXCEPT !.entriesOf = c.scope], {})
    /\ UNCHANGED doomed

\* entriesLoadedMsg: a listing of another scope than the current is dropped.
EntriesLoaded(c) ==
    /\ c.kind = "entries"
    /\ \/ Answer(c, m, {})
       \/ Answer(c, [m EXCEPT !.entriesOf = IF c.scope = m.scope THEN c.scope ELSE @], {})
    /\ UNCHANGED doomed

EntryValue(c) ==
    /\ c.kind = "value"
    /\ \/ Refusal(c, [m EXCEPT !.mode = "auth", !.auth = AuthReq("get", m.mode, c.scope, c.name)])
       \/ Answer(c, m, {})
       \/ /\ m.mode = "reveal" /\ m.reveal.name = c.name
          /\ Answer(c, [m EXCEPT !.reveal = Revealing(c.name, c.scope)], {})
       \/ /\ m.mode = "insert" /\ m.edit.name = c.name /\ m.edit.value = ""
          /\ m.edit.kind # "new"
          /\ Answer(c, [m EXCEPT !.edit.value = c.scope, !.edit.orig = c.scope], {})
    /\ UNCHANGED doomed

\* Mutation: the retry context is taken from the Model when the answer lands.
OpCompleteCurrentScope(c) ==
    /\ c.kind = "op" /\ c.op # "describe"
    /\ Refusal(c, [m EXCEPT !.mode = "auth", !.auth = AuthReq(c.op, "normal", m.scope, c.name)])
    /\ UNCHANGED doomed

\* opCompleteMsg: auth_required opens the overlay with the context the call
\* carries; any other answer also drops the context that is there.
OpComplete(c) ==
    /\ c.kind = "op"
    /\ \/ /\ c.op # "describe"
          /\ Refusal(c, [m EXCEPT !.mode = "auth", !.auth = AuthReq(c.op, "normal", c.scope, c.name)])
       \/ Answer(c, [m EXCEPT !.auth = NoAuth], {})
       \/ Answer(c, [m EXCEPT !.auth = NoAuth], {LoadEntriesCmd(m.scope)})
    /\ UNCHANGED doomed

\* scopeRenamedMsg and applyScopeRename: the active scope follows the rename.
ScopeRenamed(c) ==
    /\ c.kind = "renamed"
    /\ \/ Answer(c, m, {}) /\ UNCHANGED doomed
       \/ /\ Answer(c, [m EXCEPT !.scope = IF @ = c.scope THEN c.name ELSE @,
                                 !.rail = (@ \ {c.scope}) \cup {c.name}], {})
          /\ doomed' = doomed \cup {c.scope}

\* scopeChangedMsg: only the rail is reloaded.
ScopeDeleted(c) ==
    /\ c.kind = "deleted"
    /\ Answer(c, m, {}) \/ Answer(c, [m EXCEPT !.rail = @ \ {c.scope}], {})
    /\ UNCHANGED doomed

\* approvalDecidedMsg: an answer takes the view to the queue from any mode.
ApprovalDecided(c) ==
    /\ c.kind = "decided"
    /\ \/ Answer(c, m, {})
       \/ Answer(c, [m EXCEPT !.mode = "approvals", !.pendingApproval = FALSE], {})
    /\ UNCHANGED doomed

\* handleAuthRetry: success dismisses the overlay that is open now, and zeroes the
\* value it holds.
AuthRetried(c) ==
    LET ar == m.auth
        prefill == ar.prior = "insert" /\ m.edit.kind # "none" /\ m.edit.name = c.name IN
    /\ c.kind = "retry"
    /\ \/ Answer(c, m, {})
       \/ /\ c.op = "get" /\ ar.kind # "none"
          /\ ar.prior # "reveal" /\ prefill
          /\ \E W \in SUBSET Repeats(ar) :
               AnswerWith(Zeroed(W), c, [m EXCEPT !.auth = NoAuth, !.mode = "insert",
                                                  !.edit.value = c.scope, !.edit.orig = c.scope], {})
       \/ /\ c.op = "get" /\ ar.kind # "none"
          /\ ar.prior = "reveal" \/ ~prefill
          /\ \E W \in SUBSET Repeats(ar) :
               AnswerWith(Zeroed(W), c, [m EXCEPT !.auth = NoAuth, !.mode = "reveal",
                                                  !.reveal = Revealing(ar.name, c.scope)], {})
       \/ /\ c.op = "get" /\ ar.kind = "none"
          /\ Answer(c, [m EXCEPT !.auth = NoAuth, !.mode = "normal"], {})
       \/ /\ c.op # "get"
          /\ \E W \in SUBSET (Repeats(ar) \ {c}) :
               AnswerWith(Zeroed(W), c, [m EXCEPT !.auth = NoAuth, !.mode = "normal"],
                          {LoadEntriesCmd(m.scope)})
    /\ UNCHANGED doomed

\* A call on the variable of the open view.
OfView(op) == [op |-> op, scope |-> m.ann.scope, name |-> m.ann.name]

\* annFromOverlay: a refused password stays in the overlay, the view's copy goes.
InAnnOverlay == m.mode = "auth" /\ m.auth.kind = "annotation"
AnnRetryAgain == [m EXCEPT !.ann.pw = FALSE]
AnnLeaveOverlay == IF InAnnOverlay
                     THEN [m EXCEPT !.mode = "annotations", !.auth = NoAuth] ELSE m
AnnAskPassword(md) == [md EXCEPT !.mode = "auth",
                                 !.auth = AuthReq("annotation", "annotations", None, "")]

\* handleAnnLoaded, handleAnnHistory, handleAnnOp.
AnnAnswered(c) ==
    /\ c.kind = "ann"
    /\ \/ m.ann.name = None /\ Answer(c, m, {})
       \/ /\ m.ann.name # None /\ InAnnOverlay           \* auth_required or wrong
          /\ Refusal(c, AnnRetryAgain)
       \/ /\ m.ann.name # None /\ ~InAnnOverlay /\ c.op # "load" /\ ~m.ann.pw
          /\ Refusal(c, AnnAskPassword(m))               \* auth_required
       \/ m.ann.name # None /\ Answer(c, AnnLeaveOverlay, {})   \* error, or shown
       \/ /\ m.ann.name # None /\ c.op = "op"            \* written
          /\ Answer(c, [AnnLeaveOverlay EXCEPT !.ann.pending = Nothing], {AnnCmd(OfView("load"), m.ann.pw)})
    /\ UNCHANGED doomed

\* Mutation: the countdown is not looked at.
TickForever ==
    /\ quit = "no" /\ m.mode = "reveal" /\ m.reveal.left > 0
    /\ m' = [m EXCEPT !.reveal.left = @ - 1]
    /\ UNCHANGED <<flight, keys, quit, doomed, refused>>

\* tickMsg: every branch asks for the next tick.  A tick that finds nothing to
\* count down changes nothing.
Tick ==
    /\ quit = "no" /\ m.mode = "reveal" /\ m.reveal.name # None
    /\ m' = IF m.reveal.left = 0
              THEN [m EXCEPT !.mode = "normal", !.reveal = NoReveal]
              ELSE [m EXCEPT !.reveal.left = @ - 1]
    /\ UNCHANGED <<flight, keys, quit, doomed, refused>>

Receive == \E c \in flight :
    \/ EntriesLoaded(c) \/ EntryValue(c) \/ OpComplete(c) \/ ScopeRenamed(c)
    \/ ScopeDeleted(c) \/ ApprovalDecided(c) \/ AuthRetried(c) \/ AnnAnswered(c)

-----------------------------------------------------------------------------
(* NORMAL.                                                                 *)

Exit(how) == /\ quit = "no" /\ quit' = how
             /\ UNCHANGED <<m, flight, keys, doomed, refused>>

\* startEdit: a draft of the same name is resumed, a dirty one of another
\* name refuses.
StartEdit(n) ==
    /\ m.mode = "normal"
    /\ IF m.edit.kind = "insert" /\ m.edit.name = n
         THEN Key([m EXCEPT !.mode = "insert"], {})
         ELSE /\ ~Dirty(m.edit)
              /\ Key([m EXCEPT !.mode = "insert",
                               !.edit = [NoEdit EXCEPT !.kind = "insert", !.name = n,
                                                       !.at = m.scope]],
                     {GetValueCmd(m.scope, n)})

\* Mutation: adding does not look for a draft.
StartAddOverDraft ==
    /\ m.mode = "normal"
    /\ Key([m EXCEPT !.mode = "add",
                     !.edit = [NoEdit EXCEPT !.kind = "new", !.at = m.scope]], {})

StartAdd ==
    /\ m.mode = "normal" /\ ~Dirty(m.edit)
    /\ Key([m EXCEPT !.mode = "add",
                     !.edit = [NoEdit EXCEPT !.kind = "new", !.at = m.scope]], {})

StartRename(n) ==
    /\ m.mode = "normal" /\ ~Dirty(m.edit)
    /\ Key([m EXCEPT !.mode = "rename",
                     !.edit = [kind |-> "rename", name |-> n, value |-> n,
                               orig |-> n, at |-> m.scope]], {})

StartReveal(n) ==
    /\ m.mode = "normal"
    /\ Key([m EXCEPT !.mode = "reveal", !.reveal = Revealing(n, "")],
           {GetValueCmd(m.scope, n)})

\* "dd" on a row of the list.
StartDelete(n) ==
    m.mode = "normal" /\ Key([m EXCEPT !.mode = "confirm", !.confirm = n], {})

StartScopeRename(s) ==
    /\ m.mode = "normal" /\ s # Default
    /\ Key([m EXCEPT !.mode = "scoperename", !.renaming = s], {})

StartScopeDelete(s) ==
    /\ m.mode = "normal" /\ s # Default
    /\ Key([m EXCEPT !.mode = "confirm", !.confirm = s], {})

\* openAnnotations: an inherited row's notes are the default environment's.
OpenAnnotations(n, inherited) ==
    /\ m.mode = "normal" /\ (inherited => m.scope # Default)
    /\ LET s == IF inherited THEN Default ELSE m.scope IN
       Key([m EXCEPT !.mode = "annotations", !.ann = [NoAnn EXCEPT !.name = n, !.scope = s]],
           {AnnCmd([op |-> "load", scope |-> s, name |-> n], FALSE)})

Activate(s) == m.mode = "normal" /\ LoadCurrentScope(m, s)

OpenScopePicker == m.mode = "normal" /\ Key([m EXCEPT !.mode = "picker"], {})

KeyScopePicker(s) ==
    /\ m.mode = "picker"
    /\ \/ Key([m EXCEPT !.mode = "normal"], {})
       \/ LoadCurrentScope([m EXCEPT !.mode = "normal"], s)

\* u, ctrl+r and p on the draft: undo, redo, paste.
ChangeDraft(v) ==
    /\ m.mode = "normal" /\ m.edit.kind # "none"
    /\ Key([m EXCEPT !.edit.value = v], {})

\* The full-screen views and the search line.
Look(md) == m.mode = "normal" /\ Key([m EXCEPT !.mode = md], {})
KeySearch ==
    /\ m.mode = "search"
    /\ Key([m EXCEPT !.mode = IF m.searchAudit THEN "audit" ELSE "normal",
                     !.searchAudit = FALSE], {})
KeyAudit ==
    /\ m.mode = "audit"
    /\ \/ Key([m EXCEPT !.mode = "normal"], {})
       \/ Key([m EXCEPT !.mode = "search", !.searchAudit = TRUE], {})
KeyHelp == m.mode = "help" /\ Key([m EXCEPT !.mode = "normal"], {})

\* q: refused while a draft is dirty.  The guards of the other keys are in
\* KeyNormal.
KeyNormalQuit == m.mode = "normal" /\ ~Dirty(m.edit) /\ Exit("clean")

KeyNormal ==
    \/ \E n \in Rows : \/ StartEdit(n) \/ StartRename(n) \/ StartReveal(n)
                       \/ StartDelete(n)
                       \/ \E inh \in BOOLEAN : OpenAnnotations(n, inh)
    \/ \E s \in m.rail :
          Activate(s) \/ StartScopeRename(s) \/ StartScopeDelete(s)
    \/ StartAdd \/ OpenScopePicker
    \/ \E v \in {"", "typed", m.edit.orig} : ChangeDraft(v)
    \/ \E md \in {"search", "audit", "help", "approvals"} : Look(md)
    \/ KeyNormalQuit

-----------------------------------------------------------------------------
(* INSERT, ADD, RENAME and the command line.                               *)

EditModes == {"insert", "add", "rename"}

\* keyInsert: typing, backspace and paste change the active field.
TypeText(v) ==
    /\ m.mode \in EditModes /\ m.edit.kind # "none"
    /\ m.edit.kind = "rename" => m.mode = "rename"   \* the name field alone is not saved
    /\ \/ v \in {"", "typed"} /\ Key([m EXCEPT !.edit.value = v], {})
       \/ /\ m.edit.kind = "new" /\ v \in Names \cup {Fresh, ""}
          /\ Key([m EXCEPT !.edit.name = v], {})

\* Esc keeps a dirty draft.
KeyInsertEsc ==
    /\ m.mode \in EditModes
    /\ Key([m EXCEPT !.mode = "normal",
                     !.edit = IF Dirty(@) THEN @ ELSE NoEdit], {})

OpenCommand ==
    /\ m.mode \in EditModes \cup {"normal"}
    /\ Key([m EXCEPT !.mode = "command",
                     !.fromEdit = m.mode \in EditModes], {})

KeyCommandEsc ==
    /\ m.mode = "command"
    /\ Key([m EXCEPT !.mode = IF ~m.fromEdit \/ m.edit.kind = "none" THEN "normal"
                              ELSE IF m.edit.kind = "new" THEN "add" ELSE "insert",
                     !.fromEdit = FALSE], {})

\* commitEdit: the draft goes when the call is made, to the scope there is now.
CommitEdit ==
    LET b == m.edit
        done == [m EXCEPT !.mode = "normal", !.edit = NoEdit, !.fromEdit = FALSE] IN
    \/ /\ b.kind = "new" /\ (b.name = "" \/ b.name \in Rows)       \* name required, taken
       /\ Key([m EXCEPT !.mode = "add", !.fromEdit = FALSE], {})
    \/ /\ b.kind = "new" /\ b.name # "" /\ b.name \notin Rows
       /\ Key(done, {OpCmd("put", m.scope, b.name)})
    \/ b.kind = "insert" /\ Key(done, {OpCmd("put", m.scope, b.name)})
    \/ b.kind = "rename" /\ ~Dirty(b) /\ Key(done, {})
    \/ b.kind = "rename" /\ Dirty(b) /\ Key(done, {OpCmd("rename", m.scope, b.name)})

\* Mutation: :q does not look at the draft.
QuitCommandBlind ==
    LET out == [m EXCEPT !.mode = "normal", !.edit = NoEdit, !.fromEdit = FALSE] IN
    IF m.fromEdit THEN Key(out, {}) ELSE Exit("clean")

\* :q
QuitCommand ==
    LET back == [m EXCEPT !.mode = "normal", !.fromEdit = FALSE] IN
    IF Dirty(m.edit) THEN Key(back, {})
    ELSE IF m.fromEdit THEN Key([back EXCEPT !.edit = NoEdit], {})
    ELSE Exit("clean")

\* :q!
ForceQuitCommand ==
    IF m.fromEdit
      THEN Key([m EXCEPT !.mode = "normal", !.edit = NoEdit, !.fromEdit = FALSE], {})
      ELSE Exit("forced")

\* runCommand
RunCommand ==
    LET back == [m EXCEPT !.mode = "normal", !.fromEdit = FALSE] IN
    /\ m.mode = "command"
    /\ \/ m.edit.kind # "none" /\ CommitEdit                       \* :w, :wq
       \/ m.edit.kind = "none" /\ Exit("clean")                    \* :wq
       \/ QuitCommand \/ ForceQuitCommand
       \/ \E s \in m.rail : LoadCurrentScope(back, s)            \* :vault, :project, :env
       \/ LoadCurrentScope(back, m.scope)                          \* :reload
       \/ \E n \in Rows : Key(back, {OpCmd("describe", m.scope, n)})  \* :describe, :note
       \/ \E md \in {"audit", "help", "normal"} : Key([back EXCEPT !.mode = md], {})

KeyCommand == KeyCommandEsc \/ RunCommand

-----------------------------------------------------------------------------
(* The other modes.                                                        *)

KeyReveal ==
    /\ m.mode = "reveal"
    /\ \/ Key([m EXCEPT !.mode = "normal", !.reveal = NoReveal], {})
       \/ Key([m EXCEPT !.reveal = Revealing(@.name, @.value)], {})        \* R
       \/ Key([m EXCEPT !.mode = "insert", !.reveal = NoReveal,       \* e
                        !.edit = [kind |-> "insert", name |-> m.reveal.name,
                                  value |-> m.reveal.value, orig |-> m.reveal.value,
                                  at |-> m.scope]], {})

\* Mutation: the active scope is left empty.
ClearScopeToNothing(s) == IF m.scope = s THEN None ELSE m.scope

\* clearScopeIfDeleted: the active scope leaves the scope that is to go.
ClearScopeIfDeleted(s) == IF m.scope = s THEN Default ELSE m.scope

KeyConfirm ==
    LET back == [m EXCEPT !.mode = "normal", !.confirm = None] IN
    /\ m.mode = "confirm"
    /\ \/ Key(back, {})
       \/ m.confirm \in Names /\ Key(back, {OpCmd("delete", m.scope, m.confirm)})
       \/ /\ m.confirm \in Scopes /\ quit = "no" /\ keys < MaxKeys
          /\ keys' = keys + 1
          /\ m' = [back EXCEPT !.scope = ClearScopeIfDeleted(m.confirm)]
          /\ flight' = flight \cup {ScopeDeleteCmd(m.confirm)}
          /\ Cardinality(flight') <= MaxFlight
          /\ doomed' = doomed \cup {m.confirm}
          /\ UNCHANGED <<quit, refused>>

KeyScopeRename(new) ==
    LET back == [m EXCEPT !.mode = "normal", !.renaming = None] IN
    /\ m.mode = "scoperename"
    /\ Key(back, {}) \/ Key(back, {ScopeRenameCmd(m.renaming, new)})

\* keyApprovals: a refusal or a revocation is sent as it is, a yes asks for the
\* password first.
KeyApprovals ==
    /\ m.mode = "approvals"
    /\ \/ Key([m EXCEPT !.mode = "normal"], {})
       \/ Key(m, {DecideApprovalCmd})
       \/ Key([m EXCEPT !.mode = "auth", !.pendingApproval = TRUE,
                        !.auth = AuthReq("approve", "approvals", None, "")], {})

\* keyAuthRequired: Enter repeats, with the password, the call the overlay holds, the
\* decision that is parked, or the call the view parked last.
KeyAuthRequired ==
    LET ar == m.auth
        ann == ar.kind = "annotation" /\ m.ann.name # None IN
    /\ m.mode = "auth"
    /\ \/ ar.kind = "none" /\ Key([m EXCEPT !.mode = "normal"], {})
       \/ /\ ar.kind # "none"                                      \* esc
          /\ \E W \in SUBSET Repeats(ar) :
               KeyWith(Zeroed(W), [m EXCEPT !.mode = IF ann THEN "annotations" ELSE "normal",
                                            !.auth = NoAuth,
                                            !.ann.pending = IF ann THEN Nothing ELSE @], {})
       \/ ar.kind \in RetryKinds /\ Key(m, {AuthRetryCmd(ar)})
       \/ ar.kind = "approve" /\ m.pendingApproval /\ Key(m, {DecideApprovalCmd})
       \/ /\ ann /\ m.ann.pending # Nothing                        \* annRetryWithPassword
          /\ Key([m EXCEPT !.ann.pw = TRUE], {AnnCmd(m.ann.pending, TRUE)})

\* annRun: the call is parked in case it needs the password.
AnnRun(op) ==
    Key([m EXCEPT !.ann.line = "list", !.ann.pending = OfView(op)], {AnnCmd(OfView(op), m.ann.pw)})

CloseAnnotations ==
    Key([m EXCEPT !.mode = "normal", !.ann = NoAnn], {LoadEntriesCmd(m.scope)})

KeyAnnotations ==
    /\ m.mode = "annotations"
    /\ CASE m.ann.line = "typing" ->                               \* annSubmit
              AnnRun("op") \/ Key([m EXCEPT !.ann.line = "list"], {})
         [] m.ann.line = "confirm" ->
              AnnRun("op") \/ Key([m EXCEPT !.ann.line = "list"], {})
         [] OTHER ->
              \/ CloseAnnotations
              \/ \E l \in {"typing", "confirm"} : Key([m EXCEPT !.ann.line = l], {})
              \/ AnnRun("history")
              \/ Key(m, {AnnCmd(OfView("load"), m.ann.pw)})
              \/ Key(AnnAskPassword([m EXCEPT !.ann.pending = OfView("load")]), {})

CtrlC ==
    \/ m.mode \in EditModes \cup {"normal", "scoperename"} /\ Exit("forced")
    \/ /\ m.mode = "auth" /\ m.auth.kind # "none"                 \* zeroes the value
       /\ quit = "no" /\ quit' = "forced"
       /\ \E W \in SUBSET Repeats(m.auth) : flight' = Zeroed(W)
       /\ UNCHANGED <<m, keys, doomed, refused>>

HandleKey ==
    \/ KeyNormal \/ KeyInsertEsc \/ OpenCommand \/ KeyCommand \/ KeySearch
    \/ \E v \in Names \cup {Fresh, "typed", ""} : TypeText(v)
    \/ KeyReveal \/ KeyConfirm \/ KeyAudit \/ KeyHelp \/ KeyApprovals
    \/ \E s \in m.rail : KeyScopePicker(s)
    \/ \E s \in Scopes \ (m.rail \cup doomed) : KeyScopeRename(s)
    \/ KeyAuthRequired \/ KeyAnnotations \/ CtrlC

\* NewModel and Model.Init
TuiInit ==
    /\ m = [mode |-> "normal", scope |-> Default, rail |-> Existing,
            searchAudit |-> FALSE, entriesOf |-> None,
            edit |-> NoEdit, reveal |-> NoReveal, confirm |-> None,
            fromEdit |-> FALSE, renaming |-> None, auth |-> NoAuth,
            ann |-> NoAnn, pendingApproval |-> FALSE]
    /\ flight = {LoadEntriesCmd(Default)}
    /\ quit = "no" /\ keys = 0 /\ doomed = {} /\ refused = {}

TuiNext == HandleKey \/ Receive \/ Tick

TuiSpec == TuiInit /\ [][TuiNext]_vars /\ WF_vars(Tick)

-----------------------------------------------------------------------------
(* Properties.                                                             *)

\* Type correctness of the Model and of the calls.
TuiTypeOK ==
    /\ m \in Model /\ flight \subseteq Calls
    /\ quit \in {"no", "clean", "forced"}
    /\ doomed \subseteq Scopes /\ keys \in 0..MaxKeys
    /\ \A a \in refused : \E c \in Calls : a = Asked(c.op, c.scope, c.name)

\* "Only apply if it matches our current scope (drop stale)" (update.go:88):
\* however answers overtake scope changes, the rows on the screen are a
\* listing of the active scope, except after a rename or a delete of the scope
\* they came from, which moves the active scope and keeps the rows.
ListingIsOfTheScope == m.entriesOf \in {None, m.scope} \cup doomed

\* A get, put, delete or rename that the overlay repeats with the password is one the
\* daemon refused: the same request, on the same name of the same scope, whatever the
\* user did since, whichever answers came first and replaced the overlay (opCompleteMsg:
\* the context was captured at dispatch, so that a later call cannot clobber it).
RetryRepeatsARefusedCall ==
    \A c \in flight : c.kind = "retry" => Asked(c.op, c.scope, c.name) \in refused

\* The same of a value: a put that is repeated carries what was refused.
RetryCarriesTheValue == \A c \in flight : c.kind = "retry" => ~c.wiped

\* The same of the notes: what their overlay repeats was refused, or reads what was
\* withheld.
NotesRepeatWasRefused ==
    [][\A c \in flight' \ flight : m.mode = "auth" /\ c.kind = "ann" /\ c.op # "load"
          => Asked(c.op, c.scope, c.name) \in refused]_vars

\* q, :q and :wq never end the program with a dirty draft (spec 8.4.3, 8.4.6);
\* only ctrl+c and :q! do.
CleanQuitLosesNothing == quit = "clean" => ~Dirty(m.edit)

\* No answer and no key of the list view takes a dirty draft away: it goes by
\* a command (:w, :wq, :q!), or when a revealed value is edited instead.
DraftLeavesOnPurpose ==
    [][Dirty(m.edit) /\ <<m.edit.kind, m.edit.at>>' # <<m.edit.kind, m.edit.at>>
         => m.mode \in {"command", "reveal"}]_vars

\* A revealed value does not stay once the user lets the keys be: the countdown
\* ends in every case, overlays, late answers and prolongations included.
RevealEnds == (m.mode = "reveal") ~> (m.mode # "reveal" \/ quit # "no")

\* Spec 8.4.9: a dirty draft of a different entry refuses, only the same entry
\* resumes it.  An entry is a name in a scope.
DraftIsOfThisEntry ==
    m.mode = "insert" /\ m.edit.kind = "insert" /\ Dirty(m.edit)
        => m.edit.at \in {m.scope} \cup doomed
=============================================================================
