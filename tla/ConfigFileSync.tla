--------------------------- MODULE ConfigFileSync ---------------------------
(***************************************************************************)
(* Configuration files: their content and edit history in the database,    *)
(* the copies on the hosts, and syncConfigFileToAttachedServices, which    *)
(* copies the one to the other.  Callers of the sync are the sync-all      *)
(* route, the automatic re-sync after a secret or a variable changes, and  *)
(* the batches of module SyncBatch.                                        *)
(*                                                                         *)
(* A content is a version number.  What is written to a host is a content  *)
(* with the value, also a version number, of the one secret a file may     *)
(* refer to.  The comparison of lastSyncedAt with updatedAt, the only use  *)
(* of either, is kept as the status it yields.                             *)
(***************************************************************************)
EXTENDS Integers, FiniteSets

CONSTANTS
    Files,          \* ConfigFile rows
    ServiceFiles,   \* ServiceFile rows: the attachments of files to services
    FileOf,         \* [ServiceFiles -> Files]
    ServiceOf,      \* [ServiceFiles -> the service it is attached to]
    OverrideOf,     \* [ServiceFiles -> a deployment, or None for a base row]
    Deployments,    \* ServiceDeployment rows, each on a server of its own
    DeployedBy,     \* [Deployments -> the service deployed]
    AutoResync,     \* the files with autoResync that refer to the secret
    Editors,        \* operators editing files
    Callers,        \* requests for a sync that are not automatic re-syncs
    Outdated,       \* files edited since they were last synced
    MaxVersion,     \* versions of contents: 0 .. MaxVersion
    MaxEdits,       \* bound on the edits of contents
    MaxSecret,      \* bound on the updates of the secret
    None

ASSUME SyncAssumption ==
    /\ FileOf \in [ServiceFiles -> Files]
    /\ OverrideOf \in [ServiceFiles -> Deployments \cup {None}]
    /\ None \notin Deployments
    /\ DOMAIN DeployedBy = Deployments
    /\ \A r \in ServiceFiles : OverrideOf[r] # None => DeployedBy[OverrideOf[r]] = ServiceOf[r]
    /\ AutoResync \subseteq Files /\ Outdated \subseteq Files
    /\ Outdated # {} => MaxVersion > 0
    /\ {MaxVersion, MaxEdits, MaxSecret} \subseteq Nat

Versions == 0 .. MaxVersion
Secrets  == 0 .. MaxSecret
Gone     == -1     \* the content of a deleted file

Resyncs == (1 .. MaxSecret) \X Files    \* the re-sync of a file for an update
Syncers == Callers \cup Resyncs
Targets == ServiceFiles \X Deployments  \* a row's path on a deployment's server

VARIABLES
    content,     \* ConfigFile.content, Gone once the row is deleted
    history,     \* contents in the FileHistory rows of each file
    syncStatus,  \* what comparing lastSyncedAt with updatedAt says of each row
    host,        \* what each target holds on its server: <<content, secret>>
    sync,        \* the run of syncConfigFileToAttachedServices of each syncer
    editor,      \* the PATCH or restore request of each editor
    edits,       \* number of edits begun
    secret,      \* the version of the secret
    resynced,    \* updates whose automatic re-sync has been started
    ever         \* history variable: every content each file has had

fileVars   == <<content, history, syncStatus, ever>>
editorVars == <<editor, edits>>
secretVars == <<secret, resynced>>
syncVars   == <<content, history, syncStatus, host, sync, editor, edits, secret, resynced, ever>>

-----------------------------------------------------------------------------
(* Which targets a sync of a file writes. *)

RowsOf(f) == {r \in ServiceFiles : FileOf[r] = f}

\* The deployments with an override row of the file.
Covered(f) == {OverrideOf[r] : r \in RowsOf(f)} \ {None}

\* Mutant of Pairs: a service with an override gets nothing from its base row.
PairsBaseOrOverride(f) ==
    {t \in RowsOf(f) \X Deployments :
        \/ OverrideOf[t[1]] = t[2]
        \/ /\ OverrideOf[t[1]] = None
           /\ DeployedBy[t[2]] = ServiceOf[t[1]]
           /\ \A q \in RowsOf(f) : ServiceOf[q] = ServiceOf[t[1]] => OverrideOf[q] = None}

\* An override row goes to its deployment; a base row to every deployment of
\* its service that no override row covers.
Pairs(f) ==
    {t \in RowsOf(f) \X Deployments :
        \/ OverrideOf[t[1]] = t[2]
        \/ /\ OverrideOf[t[1]] = None
           /\ DeployedBy[t[2]] = ServiceOf[t[1]]
           /\ t[2] \notin Covered(f)}

DeriveSyncStatus(ok, bad) ==
    IF ok + bad = 0 THEN "no_targets"
    ELSE IF bad = 0 THEN "ok"
    ELSE IF ok = 0 THEN "failed" ELSE "partial"

\* What is written: a file that does not refer to the secret does not show it.
Rendered(f, c, s) == <<c, IF f \in AutoResync THEN s ELSE 0>>

-----------------------------------------------------------------------------
NoSync == [pc |-> "idle", file |-> None, content |-> Gone, todo |-> {}, at |-> None,
           seen |-> 0, ok |-> 0, bad |-> 0, outcome |-> None, quiet |-> TRUE]
NoEdit == [pc |-> "idle", file |-> None, seen |-> Gone, new |-> Gone]

\* What the hosts have of a file before anything happens: version 0 of an
\* outdated file, whose content is version 1, and nothing of the others.
HostAtStart(f) == <<IF f \in Outdated THEN 0 ELSE Gone, 0>>

Init ==
    /\ content = [f \in Files |-> IF f \in Outdated THEN 1 ELSE 0]
    /\ history = [f \in Files |-> 0 .. content[f] - 1]
    /\ syncStatus = [r \in ServiceFiles |-> IF FileOf[r] \in Outdated THEN "pending" ELSE "never"]
    /\ host = [t \in Targets |-> HostAtStart(FileOf[t[1]])]
    /\ sync = [p \in Syncers |-> NoSync]
    /\ editor = [e \in Editors |-> NoEdit]
    /\ edits = 0
    /\ secret = 0
    /\ resynced = 0
    /\ ever = [f \in Files |-> 0 .. content[f]]

\* Syncs of f that are under way are no longer undisturbed.
Disturbed(f) == [p \in Syncers |-> IF sync[p].file = f THEN [sync[p] EXCEPT !.quiet = FALSE]
                                   ELSE sync[p]]

\* Writes v over the content of f: updatedAt moves past every lastSyncedAt.
Store(f, v) ==
    /\ content' = [content EXCEPT ![f] = v]
    /\ ever' = [ever EXCEPT ![f] = @ \cup {v}]
    /\ syncStatus' = [r \in ServiceFiles |->
                        IF FileOf[r] = f /\ syncStatus[r] = "synced" THEN "pending"
                        ELSE syncStatus[r]]
    /\ sync' = Disturbed(f)

-----------------------------------------------------------------------------
(* PATCH /api/config-files/:id and POST .../restore/:historyId. *)

\* The handler reads the row.
PatchBegin(e, f, v) ==
    /\ editor[e].pc = "idle"
    /\ edits < MaxEdits
    /\ content[f] # Gone
    /\ edits' = edits + 1
    /\ editor' = [editor EXCEPT ![e] =
                    [pc |-> IF v = content[f] THEN "write" ELSE "save",
                     file |-> f, seen |-> content[f], new |-> v]]
    /\ UNCHANGED <<fileVars, host, sync, secretVars>>

\* The handler reads the row and the history entry; it saves the content even
\* when it equals the one restored.
RestoreBegin(e, f, v) ==
    /\ editor[e].pc = "idle"
    /\ edits < MaxEdits
    /\ content[f] # Gone
    /\ v \in history[f]
    /\ edits' = edits + 1
    /\ editor' = [editor EXCEPT ![e] =
                    [pc |-> "save", file |-> f, seen |-> content[f], new |-> v]]
    /\ UNCHANGED <<fileVars, host, sync, secretVars>>

\* Mutant of EditSave: the new content is saved in place of the old one.
EditSaveNew(e) ==
    /\ editor[e].pc = "save"
    /\ LET f == editor[e].file IN
       IF content[f] = Gone
       THEN /\ editor' = [editor EXCEPT ![e] = NoEdit]
            /\ UNCHANGED history
       ELSE /\ history' = [history EXCEPT ![f] = @ \cup {editor[e].new}]
            /\ editor' = [editor EXCEPT ![e].pc = "write"]
    /\ UNCHANGED <<content, syncStatus, ever, host, sync, edits, secretVars>>

\* The FileHistory row; the foreign key refuses it once the file is deleted.
EditSave(e) ==
    /\ editor[e].pc = "save"
    /\ LET f == editor[e].file IN
       IF content[f] = Gone
       THEN /\ editor' = [editor EXCEPT ![e] = NoEdit]
            /\ UNCHANGED history
       ELSE /\ history' = [history EXCEPT ![f] = @ \cup {editor[e].seen}]
            /\ editor' = [editor EXCEPT ![e].pc = "write"]
    /\ UNCHANGED <<content, syncStatus, ever, host, sync, edits, secretVars>>

\* The transaction that writes the content; 404 when the file is deleted.
EditWrite(e) ==
    /\ editor[e].pc = "write"
    /\ LET f == editor[e].file IN
       IF content[f] = Gone THEN UNCHANGED <<content, ever, syncStatus, sync>>
       ELSE Store(f, editor[e].new)
    /\ editor' = [editor EXCEPT ![e] = NoEdit]
    /\ UNCHANGED <<history, host, edits, secretVars>>

\* DELETE /api/config-files/:id; history and attachments go with the row.
Delete(f) ==
    /\ content[f] # Gone
    /\ edits < MaxEdits
    /\ edits' = edits + 1
    /\ content' = [content EXCEPT ![f] = Gone]
    /\ history' = [history EXCEPT ![f] = {}]
    /\ ever' = [ever EXCEPT ![f] = {}]
    /\ sync' = Disturbed(f)
    /\ UNCHANGED <<syncStatus, host, editor, secretVars>>

-----------------------------------------------------------------------------
(* syncConfigFileToAttachedServices. *)

\* Reads the file with its attachments; no file, no outcome.
SyncBegin(p, f) ==
    /\ IF p \in Callers THEN sync[p].pc = "idle" ELSE sync[p].pc = "called" /\ sync[p].file = f
    /\ sync' = [q \in Syncers |->
         IF q = p
         THEN IF content[f] = Gone THEN [NoSync EXCEPT !.pc = "done", !.file = f, !.outcome = "null"]
              ELSE [NoSync EXCEPT !.pc = "pairs", !.file = f, !.content = content[f],
                    !.todo = Pairs(f),
                    !.quiet = \A o \in Syncers \ {p} : sync[o].file = f => sync[o].pc = "done"]
         ELSE Disturbed(f)[q]]
    /\ UNCHANGED <<fileVars, host, editorVars, secretVars>>

\* The next pair: its placeholders are resolved with the values of this moment.
SyncRender(p, t) ==
    /\ sync[p].pc = "pairs"
    /\ t \in sync[p].todo
    /\ sync' = [sync EXCEPT ![p].pc = "write", ![p].todo = @ \ {t}, ![p].at = t,
                            ![p].seen = secret]
    /\ UNCHANGED <<fileVars, host, editorVars, secretVars>>

\* No client, no connection, no directory, a missing secret, a template error
\* or a failed write: the pair is counted as failed.
SyncPairFails(p, t) ==
    /\ sync[p].pc = "pairs"
    /\ t \in sync[p].todo
    /\ sync' = [sync EXCEPT ![p].todo = @ \ {t}, ![p].bad = @ + 1]
    /\ UNCHANGED <<fileVars, host, editorVars, secretVars>>

SyncWrite(p) ==
    /\ sync[p].pc = "write"
    /\ host' = [host EXCEPT ![sync[p].at] =
                  Rendered(sync[p].file, sync[p].content, sync[p].seen)]
    /\ sync' = [sync EXCEPT ![p].pc = "record"]
    /\ UNCHANGED <<fileVars, editorVars, secretVars>>

\* lastSyncedAt; the update fails when the row went away with its file.
SyncRecord(p) ==
    /\ sync[p].pc = "record"
    /\ IF content[sync[p].file] = Gone
       THEN /\ sync' = [sync EXCEPT ![p].pc = "pairs", ![p].bad = @ + 1]
            /\ UNCHANGED syncStatus
       ELSE /\ sync' = [sync EXCEPT ![p].pc = "pairs", ![p].ok = @ + 1]
            /\ syncStatus' = [syncStatus EXCEPT ![sync[p].at[1]] = "synced"]
    /\ UNCHANGED <<content, history, ever, host, editorVars, secretVars>>

SyncEnd(p) ==
    /\ sync[p].pc = "pairs"
    /\ sync[p].todo = {}
    /\ sync' = [sync EXCEPT ![p].pc = "done",
                            ![p].outcome = DeriveSyncStatus(sync[p].ok, sync[p].bad)]
    /\ UNCHANGED <<fileVars, host, editorVars, secretVars>>

\* The steps of a sync that has begun.
SyncStep(p) ==
    \/ \E t \in sync[p].todo : SyncRender(p, t) \/ SyncPairFails(p, t)
    \/ SyncWrite(p) \/ SyncRecord(p) \/ SyncEnd(p)

-----------------------------------------------------------------------------
(* The automatic re-sync after a secret or a variable changed. *)

UpdateSecret ==
    /\ secret < MaxSecret
    /\ secret' = secret + 1
    /\ sync' = [p \in Syncers |-> [sync[p] EXCEPT !.quiet = FALSE]]
    /\ UNCHANGED <<fileVars, host, editorVars, resynced>>

\* triggerAutoResyncForKey: a sync of every file that refers to the key, all
\* called at once.
TriggerAutoResync ==
    /\ resynced < secret
    /\ resynced' = resynced + 1
    /\ sync' = [p \in Syncers |->
         IF p \in {<<resynced + 1, f>> : f \in {g \in AutoResync : content[g] # Gone}}
         THEN [NoSync EXCEPT !.pc = "called", !.file = p[2]]
         ELSE sync[p]]
    /\ UNCHANGED <<fileVars, host, editorVars, secret>>

-----------------------------------------------------------------------------
Edit ==
    \E e \in Editors :
        \/ \E f \in Files, v \in Versions : PatchBegin(e, f, v) \/ RestoreBegin(e, f, v)
        \/ EditSave(e) \/ EditWrite(e)

Next ==
    \/ Edit
    \/ \E f \in Files : Delete(f)
    \/ \E p \in Callers, f \in Files : SyncBegin(p, f)
    \/ \E p \in Resyncs : SyncBegin(p, p[2])
    \/ \E p \in Syncers : SyncStep(p)
    \/ UpdateSecret \/ TriggerAutoResync

Spec == Init /\ [][Next]_syncVars

-----------------------------------------------------------------------------
(* Properties. *)

\* An editor, re-syncs and syncs interleave, and still every content a file
\* ever had is its content or in its history: a handler saves what it read
\* before its own transaction replaces it.
NothingLost == \A f \in Files : content[f] # Gone => ever[f] \subseteq history[f] \cup {content[f]}

\* The target that must show file f on deployment d: the override row of d,
\* else the base row of its service.
Shows(f, d) ==
    LET own == {r \in RowsOf(f) : OverrideOf[r] = d}
    IN  IF own # {} THEN own
        ELSE {r \in RowsOf(f) : OverrideOf[r] = None /\ ServiceOf[r] = DeployedBy[d]}

\* A sync that nothing disturbed and that reports "ok" has left the current
\* content, with the current secret, on every deployment of every service the
\* file is attached to, and every row it wrote says "synced".
UndisturbedSyncDelivers ==
    \A p \in Syncers :
        (sync[p].pc = "done" /\ sync[p].outcome = "ok" /\ sync[p].quiet) =>
            LET f == sync[p].file IN
            \A d \in Deployments : \A r \in Shows(f, d) :
                /\ host[<<r, d>>] = Rendered(f, content[f], secret)
                /\ syncStatus[r] = "synced"
=============================================================================
