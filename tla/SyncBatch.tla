------------------------------ MODULE SyncBatch ------------------------------
(***************************************************************************)
(* POST /api/sync/batch: a batch of config-file syncs, run in order, with  *)
(* the operations before a failure undone when rollbackOnFailure is set,   *)
(* and replayed when the same Idempotency-Key comes again.  The batches    *)
(* are callers of the sync of module ConfigFileSync and run among edits,   *)
(* other syncs and other batches.                                          *)
(***************************************************************************)
EXTENDS ConfigFileSync, Sequences, SequencesExt

CONSTANTS
    Batches,            \* batch requests, which call the sync as themselves
    OpsOf,              \* [Batches -> non-empty sequences of Files]
    RollbackOnFailure,  \* [Batches -> BOOLEAN]
    KeyOf,              \* [Batches -> an Idempotency-Key, or None]
    EnvOf,              \* [Files -> the environment of a file]
    MaxCrashes          \* bound on the crashes of the process

ASSUME BatchAssumption ==
    /\ Batches = Callers
    /\ \A b \in Batches : OpsOf[b] \in Seq(Files) \ {<<>>} /\ RollbackOnFailure[b] \in BOOLEAN
    /\ DOMAIN EnvOf = Files
    /\ MaxCrashes \in Nat

VARIABLES
    row,      \* the SyncBatch row of a request with its operations
    batch,    \* the handler and executeBatch of a request
    crashes

batchVars == <<row, batch>>
vars == <<syncVars, batchVars, crashes>>

-----------------------------------------------------------------------------
BodyOf(b) == <<OpsOf[b], RollbackOnFailure[b]>>
Ops(b)    == DOMAIN OpsOf[b]

NoRow == [status |-> "none", keyed |-> FALSE, ops |-> <<>>]
NewRow(b, s) == [status |-> s, keyed |-> s = "pending" /\ KeyOf[b] # None,
                 ops |-> [i \in Ops(b) |-> s]]

\* The request whose row has the same key and the same body, if there is one.
SameBody(b) == {q \in Batches : row[q].keyed /\ KeyOf[q] = KeyOf[b] /\ BodyOf(q) = BodyOf(b)}
OtherBody(b) == {q \in Batches : row[q].keyed /\ KeyOf[q] = KeyOf[b] /\ BodyOf(q) # BodyOf(b)}

NoBatches ==
    /\ row = [b \in Batches |-> NoRow]
    /\ batch = [b \in Batches |-> [pc |-> "lookup", i |-> 1, snap |-> [f \in Files |-> Gone],
                                   done |-> <<>>, fail |-> 0, reply |-> NoRow]]
    /\ crashes = 0

BatchInit == Init /\ NoBatches

-----------------------------------------------------------------------------
(* The route and the first half of executeBatch. *)

\* Answers from the row q, as it is now.
Replay(b, q) ==
    /\ batch' = [batch EXCEPT ![b].pc = "replied", ![b].reply = row[q]]
    /\ UNCHANGED row

\* lookupIdempotentBatch: replay, 409, or go on.
Lookup(b) ==
    /\ batch[b].pc = "lookup"
    /\ IF KeyOf[b] # None /\ SameBody(b) # {}
       THEN \E q \in SameBody(b) : Replay(b, q)
       ELSE /\ batch' = [batch EXCEPT ![b].pc =
                           IF KeyOf[b] # None /\ OtherBody(b) # {} THEN "conflict" ELSE "preload"]
            /\ UNCHANGED row
    /\ UNCHANGED <<syncVars, crashes>>

\* The files of the batch are read; a batch over two environments is stored
\* as failed, without its key.
Preload(b) ==
    /\ batch[b].pc = "preload"
    /\ LET found == {f \in ToSet(OpsOf[b]) : content[f] # Gone}
           mixed == Cardinality({EnvOf[f] : f \in found}) > 1
       IN  /\ row' = IF mixed THEN [row EXCEPT ![b] = NewRow(b, "failed")] ELSE row
           /\ batch' = [batch EXCEPT ![b].pc = IF mixed THEN "done" ELSE "create",
                                     ![b].snap = content]
    /\ UNCHANGED <<syncVars, crashes>>

\* Mutant of Create: no unique index on the key and the body.
CreateAlways(b) ==
    /\ batch[b].pc = "create"
    /\ row' = [row EXCEPT ![b] = NewRow(b, "pending")]
    /\ batch' = [batch EXCEPT ![b].pc = "op"]
    /\ UNCHANGED <<syncVars, crashes>>

\* The row, pending, with its operations.  The unique index refuses a second
\* row with the same key and body: the request is answered from the first.
Create(b) ==
    /\ batch[b].pc = "create"
    /\ IF KeyOf[b] # None /\ SameBody(b) # {}
       THEN \E q \in SameBody(b) : Replay(b, q)
       ELSE /\ row' = [row EXCEPT ![b] = NewRow(b, "pending")]
            /\ batch' = [batch EXCEPT ![b].pc = "op"]
    /\ UNCHANGED <<syncVars, crashes>>

-----------------------------------------------------------------------------
(* The operations, in order. *)

FileAt(b) == OpsOf[b][batch[b].i]

\* Records operation i as failed: the loop stops, or goes on, by the flag.
OpFailed(b) ==
    LET i == batch[b].i IN
    /\ row' = [row EXCEPT ![b].ops[i] = "failed"]
    /\ batch' = [batch EXCEPT
         ![b].fail = IF @ = 0 THEN i ELSE @,
         ![b].pc = IF RollbackOnFailure[b] \/ i = Len(OpsOf[b]) THEN "decide" ELSE "op",
         ![b].i = i + 1]

OpMissing(b) ==
    /\ batch[b].pc = "op"
    /\ batch[b].snap[FileAt(b)] = Gone
    /\ OpFailed(b)
    /\ UNCHANGED <<syncVars, crashes>>

OpCall(b) ==
    /\ batch[b].pc = "op"
    /\ batch[b].snap[FileAt(b)] # Gone
    /\ SyncBegin(b, FileAt(b))
    /\ batch' = [batch EXCEPT ![b].pc = "wait"]
    /\ UNCHANGED <<row, crashes>>

\* The outcome of the sync: anything but "ok" is a failure.
OpDone(b) ==
    /\ batch[b].pc = "wait"
    /\ sync[b].pc = "done"
    /\ sync' = [sync EXCEPT ![b] = NoSync]
    /\ IF sync[b].outcome = "ok"
       THEN LET i == batch[b].i IN
            /\ row' = [row EXCEPT ![b].ops[i] = "ok"]
            /\ batch' = [batch EXCEPT ![b].done = Append(@, i), ![b].i = i + 1,
                           ![b].pc = IF i = Len(OpsOf[b]) THEN "decide" ELSE "op"]
       ELSE OpFailed(b)
    /\ UNCHANGED <<fileVars, host, editorVars, secretVars, crashes>>

-----------------------------------------------------------------------------
(* What happens next: nothing, the undoing of what was done, or a summary. *)

Finish(b, s) ==
    /\ row' = [row EXCEPT ![b].status = s]
    /\ batch' = [batch EXCEPT ![b].pc = "done"]

\* Mutant of DecideUndo: the operations that never ran are left pending.
DecideUndoNoSkip(b) ==
    /\ batch[b].pc = "decide"
    /\ batch[b].fail # 0 /\ RollbackOnFailure[b]
    /\ batch' = [batch EXCEPT ![b].pc = "undo", ![b].i = Len(batch[b].done)]
    /\ UNCHANGED <<row, syncVars, crashes>>

\* Operations that were never tried are skipped; the undoing begins with the
\* last one that was done.
DecideUndo(b) ==
    /\ batch[b].pc = "decide"
    /\ batch[b].fail # 0 /\ RollbackOnFailure[b]
    /\ row' = [row EXCEPT ![b].ops = [i \in Ops(b) |->
                 IF i > batch[b].fail /\ @[i] = "pending" THEN "skipped" ELSE @[i]]]
    /\ batch' = [batch EXCEPT ![b].pc = "undo", ![b].i = Len(batch[b].done)]
    /\ UNCHANGED <<syncVars, crashes>>

DecideEnd(b) ==
    /\ batch[b].pc = "decide"
    /\ batch[b].fail = 0 \/ ~RollbackOnFailure[b]
    /\ Finish(b, IF batch[b].fail = 0 THEN "ok"
                 ELSE IF "ok" \in ToSet(row[b].ops) THEN "partial" ELSE "failed")
    /\ UNCHANGED <<syncVars, crashes>>

Undone(b) == batch[b].done[batch[b].i]

UndoResult(b, s) ==
    /\ row' = [row EXCEPT ![b].ops[Undone(b)] = s]
    /\ batch' = [batch EXCEPT ![b].pc = "undo", ![b].i = @ - 1]

\* Mutant of UndoRestore: the history row holds the content taken at the start.
UndoRestoreKeepsSnap(b) ==
    /\ batch[b].pc = "undo" /\ batch[b].i > 0
    /\ LET f == OpsOf[b][Undone(b)] IN
       /\ content[f] # Gone
       /\ history' = [history EXCEPT ![f] = @ \cup {batch[b].snap[f]}]
       /\ Store(f, batch[b].snap[f])
    /\ batch' = [batch EXCEPT ![b].pc = "restored"]
    /\ UNCHANGED <<host, editorVars, secretVars, row, crashes>>

\* The transaction: a history row with the content of this moment, and the
\* content taken at the start of the batch put back.
UndoRestore(b) ==
    /\ batch[b].pc = "undo" /\ batch[b].i > 0
    /\ LET f == OpsOf[b][Undone(b)] IN
       /\ content[f] # Gone
       /\ history' = [history EXCEPT ![f] = @ \cup {content[f]}]
       /\ Store(f, batch[b].snap[f])
    /\ batch' = [batch EXCEPT ![b].pc = "restored"]
    /\ UNCHANGED <<host, editorVars, secretVars, row, crashes>>

\* The transaction fails, always so when the file is deleted.
UndoFails(b) ==
    /\ batch[b].pc = "undo" /\ batch[b].i > 0
    /\ UndoResult(b, "rollback_failed")
    /\ UNCHANGED <<syncVars, crashes>>

UndoCall(b) ==
    /\ batch[b].pc = "restored"
    /\ SyncBegin(b, OpsOf[b][Undone(b)])
    /\ batch' = [batch EXCEPT ![b].pc = "resync"]
    /\ UNCHANGED <<row, crashes>>

\* Mutant of UndoDone: a restore that reached no host counts as done.
UndoDoneAlways(b) ==
    /\ batch[b].pc = "resync"
    /\ sync[b].pc = "done"
    /\ sync' = [sync EXCEPT ![b] = NoSync]
    /\ UndoResult(b, "rolled_back")
    /\ UNCHANGED <<fileVars, host, editorVars, secretVars, crashes>>

UndoDone(b) ==
    /\ batch[b].pc = "resync"
    /\ sync[b].pc = "done"
    /\ sync' = [sync EXCEPT ![b] = NoSync]
    /\ UndoResult(b, IF sync[b].outcome = "ok" THEN "rolled_back" ELSE "rollback_failed")
    /\ UNCHANGED <<fileVars, host, editorVars, secretVars, crashes>>

UndoEnd(b) ==
    /\ batch[b].pc = "undo" /\ batch[b].i = 0
    /\ Finish(b, IF "rollback_failed" \in ToSet(row[b].ops) THEN "partial" ELSE "rolled_back")
    /\ UNCHANGED <<syncVars, crashes>>

-----------------------------------------------------------------------------
\* The process dies: every handler with its sync is lost, the rows stay.
Crash ==
    /\ crashes < MaxCrashes
    /\ crashes' = crashes + 1
    /\ batch' = [b \in Batches |->
         IF batch[b].pc \in {"lookup", "done", "replied", "conflict"} THEN batch[b]
         ELSE [batch[b] EXCEPT !.pc = "lost"]]
    /\ sync' = [p \in Syncers |-> IF sync[p].pc = "idle" THEN NoSync
                                  ELSE [NoSync EXCEPT !.pc = "done", !.outcome = "lost"]]
    /\ editor' = [e \in Editors |-> NoEdit]
    /\ resynced' = secret
    /\ UNCHANGED <<content, history, syncStatus, ever, host, edits, secret, row>>

Run(b) ==
    \/ Lookup(b) \/ Preload(b) \/ Create(b)
    \/ OpMissing(b) \/ OpCall(b) \/ OpDone(b)
    \/ DecideUndo(b) \/ DecideEnd(b)
    \/ UndoRestore(b) \/ UndoFails(b) \/ UndoCall(b) \/ UndoDone(b) \/ UndoEnd(b)

\* What goes on around the batches; a sync of one file on its own is a batch
\* of one operation without rollback.
Around ==
    \/ Edit
    \/ \E f \in Files : Delete(f)
    \/ \E p \in Syncers : SyncStep(p)

BatchNext ==
    \/ \E b \in Batches : Run(b)
    \/ Around /\ UNCHANGED <<batchVars, crashes>>
    \/ Crash

BatchSpec == BatchInit /\ [][BatchNext]_vars

-----------------------------------------------------------------------------
(* Properties. *)

\* The status of a batch that has ended says what became of its operations.
\* With rollback: everything "ok", or one operation failed, all after it were
\* skipped, none before it stands, and "partial" exactly when an undo failed.
\* Without: every operation was tried.
Tells(b, x) ==
    LET all == ToSet(x.ops) IN
    /\ x.status = "ok" <=> all = {"ok"}
    /\ x.status = "failed" => all = {"failed"}
    /\ (RollbackOnFailure[b] /\ x.status \in {"rolled_back", "partial"}) =>
         /\ \E k \in Ops(b) :
              /\ x.ops[k] = "failed"
              /\ \A i \in Ops(b) : i < k => x.ops[i] \in {"rolled_back", "rollback_failed"}
              /\ \A i \in Ops(b) : i > k => x.ops[i] = "skipped"
         /\ x.status = "partial" <=> "rollback_failed" \in all
    /\ ~RollbackOnFailure[b] => all \subseteq {"ok", "failed"}
StatusTellsOps ==
    \A b \in Batches : row[b].status \notin {"none", "pending"} => Tells(b, row[b])

\* An operation is marked "rolled_back" only when the content from before the
\* batch is on every host of the file again, unless somebody else edited or
\* synced the file between the restore and this step.
UndoneIsPushed ==
    \A b \in Batches : \A i \in DOMAIN row[b].ops :
        LET x == OpsOf[b][i] IN
        (/\ row[b].ops[i] = "ok" /\ row'[b].ops[i] = "rolled_back"
         /\ sync[b].quiet /\ content[x] = batch[b].snap[x]) =>
            \A t \in Pairs(x) : host[t][1] = batch[b].snap[x]

\* What a batch reports is what happened: its status tells what became of every
\* operation, and one marked "rolled_back" has its old content on every host
\* again, unless somebody else edited or synced the file meanwhile.
BatchReportsTruly == [][UndoneIsPushed /\ StatusTellsOps']_vars

\* However its requests interleave, and whether or not the process dies, one
\* key with one body stands for one batch: a second request is answered from
\* the row of the first and syncs nothing.
KeyRunsOnce ==
    \A b, q \in Batches :
        (b # q /\ KeyOf[b] # None /\ KeyOf[b] = KeyOf[q] /\ BodyOf(b) = BodyOf(q)) =>
            ~(row[b].keyed /\ row[q].keyed)
=============================================================================
