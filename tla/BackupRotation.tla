--------------------------- MODULE BackupRotation ---------------------------
(***************************************************************************)
(* The retention of the backups of one database: which backups a policy    *)
(* keeps, and the passes of rotateDatabase that delete the others, started *)
(* by the daily sweep, after a scheduled backup, by a change of the policy *)
(* or by hand, while backups complete and operators pin and delete them.   *)
(*                                                                         *)
(* A backup is the number of its place in the order of creation.           *)
(***************************************************************************)
EXTENDS Integers, FiniteSets, FiniteSetsExt

CONSTANTS
    Count,       \* backups are 1 .. Count
    Manual,      \* the backups of type manual; the others are scheduled
    SizeOf,      \* [Backups -> Nat]
    Periods,     \* period tiers (day, week, month, year)
    BucketOf,    \* [Periods -> [Backups -> Nat]], the periodKey of createdAt
    Tier,        \* [Periods -> Nat]: daily, weekly, monthly, yearly
    KeepLast, MinFloor,
    MaxTotal,    \* maxTotalBytes, or NoCap
    NoCap,
    Rotators,    \* passes that may run at the same time
    MaxPasses, MaxPins, MaxDeletes,
    MaxFaults    \* calls that fail and restarts of the process

Backups == 1 .. Count

ASSUME RotationAssumption ==
    /\ Count \in Nat /\ Manual \subseteq Backups
    /\ SizeOf \in [Backups -> Nat] /\ Tier \in [Periods -> Nat]
    /\ BucketOf \in [Periods -> [Backups -> Nat]]
    /\ MaxTotal = NoCap \/ MaxTotal \in Nat
    /\ \A p \in Periods : \A b, c \in Backups : b < c => BucketOf[p][b] <= BucketOf[p][c]
    /\ KeepLast \in Nat /\ MinFloor \in Nat \ {0}
    /\ {MaxPasses, MaxPins, MaxDeletes, MaxFaults} \subseteq Nat

VARIABLES
    status,    \* the rows: "running" (still to complete), "completed", "gone"
    pinned,    \* isPinned
    file,      \* whether the dump is in the storage
    rot,       \* the pass of each rotator
    user,      \* the backup a user is deleting whose file is already removed
    pruned,    \* history variable: rows that rotation has deleted
    inert,     \* autoApplied: a policy of the upgrade that nobody has saved yet
    orphans,   \* history variable: files a user may have left behind, as logged
    broken,    \* history variable: deletions that broke off with the file removed
    stable,    \* history variable: nothing but the last pass has changed a row
    overlapped, \* history variable: a pass began while another one was under way
    passes, pins, deletes, faults

bounds == <<passes, pins, deletes, faults>>
vars == <<status, pinned, file, rot, user, inert, pruned, orphans, broken, stable, overlapped, bounds>>

-----------------------------------------------------------------------------
(* Which candidates are kept. *)

Newest(C, n) == {b \in C : Cardinality({c \in C : c > b}) < n}

\* The newest backup in each of the n most recent buckets that have one.
SelectPeriodTier(C, p, n) ==
    {b \in C : /\ \A c \in C : BucketOf[p][c] = BucketOf[p][b] => c <= b
               /\ Cardinality({BucketOf[p][c] : c \in {d \in C : BucketOf[p][d] > BucketOf[p][b]}}) < n}

SelectKeep(C) == Newest(C, KeepLast) \cup UNION {SelectPeriodTier(C, p, Tier[p]) : p \in Periods}

\* The newest of the others are added until exempt and kept reach the floor.
ApplyFloor(C, keep, exempt) ==
    keep \cup Newest(C \ keep, MinFloor - Cardinality(exempt) - Cardinality(keep))

\* The bytes of a set of backups, each a backup and a position in its file, and
\* their number: the sum of the sizes.
Bytes(S) == UNION {{b} \X (1 .. SizeOf[b]) : b \in S}
Total(S) == Cardinality(Bytes(S))

\* Mutant of ApplySizeCap: the floor does not protect what is kept.
ApplySizeCapNoFloor(keep, exempt) ==
    IF MaxTotal = NoCap THEN keep
    ELSE {b \in keep : Total(exempt) + Total({c \in keep : c >= b}) <= MaxTotal}

\* Mutant of ApplySizeCap: one backup at most is evicted.
ApplySizeCapOne(keep, exempt) ==
    IF MaxTotal = NoCap \/ Total(exempt \cup keep) <= MaxTotal
       \/ Cardinality(exempt) + Cardinality(keep) - 1 < MinFloor
    THEN keep ELSE {b \in keep : \E c \in keep : c < b}

\* The oldest are evicted while the total is over the cap and the floor allows
\* it: b stays when, with everything older evicted, one of the two stops.
ApplySizeCap(keep, exempt) ==
    IF MaxTotal = NoCap THEN keep
    ELSE {b \in keep : LET rest == {c \in keep : c >= b} IN
            \/ Total(exempt) + Total(rest) <= MaxTotal
            \/ Cardinality(exempt) + Cardinality(rest) - 1 < MinFloor}

Keep(C, exempt) == ApplySizeCap(ApplyFloor(C, SelectKeep(C), exempt), exempt)

-----------------------------------------------------------------------------
Completed  == {b \in DOMAIN status : status[b] = "completed"}
Candidates == {b \in Completed : b \notin Manual /\ ~pinned[b]}
Exempt     == {b \in Completed : b \in Manual \/ pinned[b]}

\* A pass between its first query and its end.
Underway(r) == rot[r].pc \notin {"idle", "load"}

Idle == [pc |-> "idle", cands |-> {}, prune |-> {}]

Init ==
    /\ status \in [Backups -> {"running", "completed"}]
    /\ pinned = [b \in Backups |-> FALSE]
    /\ file = [b \in Backups |-> status[b] = "completed"]
    /\ rot = [r \in Rotators |-> Idle]
    /\ user = 0
    /\ inert \in BOOLEAN
    /\ pruned = {} /\ orphans = {} /\ broken = {}
    /\ stable = FALSE /\ overlapped = FALSE
    /\ passes = 0 /\ pins = 0 /\ deletes = 0 /\ faults = 0

-----------------------------------------------------------------------------
(* rotateDatabase. *)

\* The first query: completed, scheduled, not pinned.  A pass of the sweep or
\* after a backup leaves an inert policy alone; one by hand does not.
Load(r, automatic) ==
    /\ \/ /\ rot[r].pc = "idle" /\ passes < MaxPasses
          /\ ~(automatic /\ inert)
          /\ passes' = passes + 1
       \/ /\ rot[r].pc = "load" /\ ~automatic
          /\ UNCHANGED passes
    /\ rot' = [rot EXCEPT ![r] = [Idle EXCEPT !.pc = "exempt", !.cands = Candidates]]
    /\ stable' = (\A q \in Rotators \ {r} : rot[q].pc = "idle")
    /\ overlapped' = (overlapped \/ \E q \in Rotators \ {r} : Underway(q))
    /\ UNCHANGED <<status, pinned, file, user, inert, pruned, orphans, broken, pins, deletes, faults>>

\* The second query, for the exempt backups, and the decision.
Decide(r) ==
    /\ rot[r].pc = "exempt"
    /\ rot' = [rot EXCEPT ![r].pc = "prune",
                          ![r].prune = rot[r].cands \ Keep(rot[r].cands, Exempt)]
    /\ UNCHANGED <<status, pinned, file, user, inert, pruned, orphans, broken, stable, overlapped, bounds>>

Current(r) == Max(rot[r].prune)

\* Whether b is between the deletion of its file and that of its row.
Deleting(b) == user = b \/ \E r \in Rotators : rot[r].pc = "row" /\ Current(r) = b

Fails ==
    /\ faults < MaxFaults
    /\ faults' = faults + 1
    /\ stable' = FALSE

\* pruneBackup reads the row; one that is gone counts as pruned.
PruneFind(r) ==
    /\ rot[r].pc = "prune" /\ rot[r].prune # {}
    /\ rot' = IF status[Current(r)] = "gone"
              THEN [rot EXCEPT ![r].prune = @ \ {Current(r)}]
              ELSE [rot EXCEPT ![r].pc = "file"]
    /\ UNCHANGED <<status, pinned, file, user, inert, pruned, orphans, broken, stable, overlapped, bounds>>

\* deleteBackupArtifact; a file that is already gone counts as deleted.
PruneFile(r) ==
    /\ rot[r].pc = "file"
    /\ file' = [file EXCEPT ![Current(r)] = FALSE]
    /\ rot' = [rot EXCEPT ![r].pc = "row"]
    /\ UNCHANGED <<status, pinned, user, inert, pruned, orphans, broken, stable, overlapped, bounds>>

\* Mutant of PruneFileFails: the row is deleted although the file is not.
PruneFileFailsGoesOn(r) ==
    /\ rot[r].pc = "file"
    /\ Fails
    /\ rot' = [rot EXCEPT ![r].pc = "row"]
    /\ UNCHANGED <<status, pinned, file, user, inert, pruned, orphans, broken, overlapped, passes, pins, deletes>>

\* The file cannot be deleted, or it was and the answer is lost: the row stays
\* for the next pass.
PruneFileFails(r) ==
    /\ rot[r].pc = "file"
    /\ Fails
    /\ rot' = [rot EXCEPT ![r].pc = "prune", ![r].prune = @ \ {Current(r)}]
    /\ \/ UNCHANGED <<file, broken>>
       \/ /\ file' = [file EXCEPT ![Current(r)] = FALSE]
          /\ broken' = broken \cup {Current(r)}
    /\ UNCHANGED <<status, pinned, user, inert, pruned, orphans, overlapped, passes, pins, deletes>>

\* The delete of the row; it throws when the row is gone, and the pass ends.
PruneRow(r) ==
    /\ rot[r].pc = "row"
    /\ LET b == Current(r) IN
       IF status[b] = "gone"
       THEN /\ rot' = [rot EXCEPT ![r] = Idle]
            /\ stable' = FALSE
            /\ UNCHANGED <<status, pruned>>
       ELSE /\ status' = [status EXCEPT ![b] = "gone"]
            /\ pruned' = pruned \cup {b}
            /\ rot' = [rot EXCEPT ![r].pc = "prune", ![r].prune = @ \ {b}]
            /\ UNCHANGED stable
    /\ UNCHANGED <<pinned, file, user, inert, orphans, broken, overlapped, bounds>>

\* A query throws, or the delete of the row, or the search for the SSH key: the
\* pass ends there.
PassFails(r) ==
    /\ rot[r].pc # "idle"
    /\ Fails
    /\ rot' = [rot EXCEPT ![r] = Idle]
    /\ broken' = IF rot[r].pc = "row" THEN broken \cup {Current(r)} ELSE broken
    /\ UNCHANGED <<status, pinned, file, user, inert, pruned, orphans, overlapped, passes, pins, deletes>>

PruneEnd(r) ==
    /\ rot[r].pc = "prune" /\ rot[r].prune = {}
    /\ rot' = [rot EXCEPT ![r] = Idle]
    /\ UNCHANGED <<status, pinned, file, user, inert, pruned, orphans, broken, stable, overlapped, bounds>>

-----------------------------------------------------------------------------
(* What goes on around the passes. *)

Complete(b) ==
    /\ status[b] = "running"
    /\ status' = [status EXCEPT ![b] = "completed"]
    /\ file' = [file EXCEPT ![b] = TRUE]
    /\ stable' = FALSE
    /\ UNCHANGED <<pinned, rot, user, inert, pruned, orphans, broken, overlapped, bounds>>

\* PUT /api/databases/:id/backups/:backupId/pin.
Pin(b) ==
    /\ status[b] # "gone"
    /\ pins < MaxPins
    /\ pins' = pins + 1
    /\ pinned' = [pinned EXCEPT ![b] = ~@]
    /\ stable' = FALSE
    /\ UNCHANGED <<status, file, rot, user, inert, pruned, orphans, broken, overlapped, passes, deletes, faults>>

\* PUT /api/databases/:id/backup-policy: the policy is saved and applied.
SavePolicy(r) ==
    /\ rot[r].pc = "idle" /\ passes < MaxPasses
    /\ passes' = passes + 1
    /\ inert' = FALSE
    /\ rot' = [rot EXCEPT ![r].pc = "load"]
    /\ UNCHANGED <<status, pinned, file, user, pruned, orphans, broken, overlapped, stable, pins, deletes, faults>>

\* DELETE /api/databases/:id/backup-policy: back to the global default.
RevertPolicy ==
    /\ inert
    /\ inert' = FALSE
    /\ UNCHANGED <<status, pinned, file, rot, user, pruned, orphans, broken, stable, overlapped, bounds>>

\* deleteBackup: the file first, if it can be reached, and then the row in any
\* case; the file that is left is logged.  Module BackupRuns has the deletion of
\* a backup that is not completed.
DeleteFile(b) ==
    /\ status[b] = "completed"
    /\ user = 0
    /\ deletes < MaxDeletes
    /\ deletes' = deletes + 1
    /\ \/ /\ file' = [file EXCEPT ![b] = FALSE]
          /\ UNCHANGED <<orphans, faults>>
       \/ /\ faults < MaxFaults
          /\ faults' = faults + 1
          /\ orphans' = orphans \cup {b}
          /\ UNCHANGED file \/ file' = [file EXCEPT ![b] = FALSE]
    /\ user' = b
    /\ stable' = FALSE
    /\ UNCHANGED <<status, pinned, rot, inert, pruned, broken, overlapped, passes, pins>>

DeleteRow ==
    /\ user # 0
    /\ status' = [status EXCEPT ![user] = "gone"]
    /\ user' = 0
    /\ stable' = FALSE
    /\ UNCHANGED <<pinned, file, rot, inert, pruned, orphans, broken, overlapped, bounds>>

\* The delete of the row throws; the user is told.
DeleteRowFails ==
    /\ user # 0
    /\ Fails
    /\ user' = 0
    /\ broken' = broken \cup {user}
    /\ UNCHANGED <<status, pinned, file, rot, inert, pruned, orphans, overlapped, passes, pins, deletes>>

\* The process restarts: passes and deletions stop where they are.
Crash ==
    /\ Fails
    /\ rot' = [r \in Rotators |-> Idle]
    /\ user' = 0
    /\ broken' = broken \cup {b \in Backups : Deleting(b)}
    /\ UNCHANGED <<status, pinned, file, inert, pruned, orphans, overlapped, passes, pins, deletes>>

Pass(r) ==
    \/ \E automatic \in BOOLEAN : Load(r, automatic)
    \/ Decide(r) \/ PruneFind(r) \/ PruneFile(r) \/ PruneFileFails(r)
    \/ PruneRow(r) \/ PruneEnd(r) \/ PassFails(r)

Next ==
    \/ \E r \in Rotators : Pass(r) \/ SavePolicy(r)
    \/ \E b \in Backups : Complete(b) \/ Pin(b) \/ DeleteFile(b)
    \/ DeleteRow \/ DeleteRowFails \/ RevertPolicy \/ Crash

Spec == Init /\ [][Next]_vars

-----------------------------------------------------------------------------
(* Properties. *)

\* applyFloor and applySizeCap: one pass after the other never leaves fewer
\* completed backups than the floor, although candidates and exempt backups are
\* read in two queries, files are deleted one by one, calls fail and backups
\* complete meanwhile (until somebody pins or deletes one).
FloorKept ==
    pins = 0 /\ deletes = 0 /\ ~overlapped /\ pruned # {} => Cardinality(Completed) >= MinFloor

\* docs/guides/databases.md: "A hard safety floor: always keep at least N
\* most-recent successful backups, no matter what the tiers select".
HardFloor == pruned # {} => Cardinality(Completed) >= MinFloor

\* A row and its file live and die together, whoever deletes, whatever call
\* fails and whenever the process dies: a completed backup without its file is
\* one that is being deleted, or whose deletion broke off with the file already
\* removed (the code does not undo that, nor mark the row); a file that cannot
\* be deleted keeps its row; and no file outlives its row but one a user's
\* deletion gave up on, as the log says.
RowsAndFiles ==
    \A b \in DOMAIN status :
        /\ status[b] = "completed" => file[b] \/ Deleting(b) \/ b \in broken
        /\ status[b] = "gone" => ~file[b] \/ b \in orphans

AtRest == stable /\ passes > 0 /\ \A r \in Rotators : rot[r].pc = "idle"

\* A pass that nothing disturbed is final: the next one would delete nothing.
PassIsFinal == AtRest => Candidates \subseteq Keep(Candidates, Exempt)

\* After such a pass the cap is exceeded only when the floor or the exempt
\* backups stand in the way, the cases of cappedButUnreachable.
CapHonoured ==
    (AtRest /\ MaxTotal # NoCap /\ Total(Completed) > MaxTotal) =>
        Candidates = {} \/ Cardinality(Completed) <= MinFloor

\* A pass of rotation that nothing disturbed is final: the next one would
\* delete nothing, and the cap on the bytes is exceeded only when the floor or
\* the exempt backups stand in the way.
RotationFinal == PassIsFinal /\ CapHonoured
=============================================================================
