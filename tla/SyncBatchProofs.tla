--------------------------- MODULE SyncBatchProofs ---------------------------
(***************************************************************************)
(* For any number of files, attachments, hosts, callers, re-syncs and      *)
(* batches: no content of a file is lost, a sync that nothing disturbed    *)
(* and that reports "ok" has delivered the file, a batch reports what      *)
(* became of its operations, and an Idempotency-Key stands for one batch.  *)
(***************************************************************************)
EXTENDS SyncBatch, SequenceTheorems, TLAPS

-----------------------------------------------------------------------------
(* Files and their history. *)

EditRecords == [pc : {"idle", "save", "write"}, file : Files \cup {None}, seen : Int, new : Int]

FileTypes ==
    /\ content \in [Files -> Int]
    /\ history \in [Files -> SUBSET Int]
    /\ ever \in [Files -> SUBSET Int]
    /\ editor \in [Editors -> EditRecords]

\* What an editor is about to write over is in the history, or becomes part of
\* it first, or is the same.
Saved(e) ==
    LET f == editor[e].file IN
    /\ editor[e].pc # "idle" => f \in Files
    /\ editor[e].pc = "save" /\ content[f] # Gone => content[f] \in history[f] \cup {editor[e].seen}
    /\ editor[e].pc = "write" /\ content[f] # Gone => content[f] \in history[f] \cup {editor[e].new}

Recorded == \A f \in Files : content[f] # Gone => content[f] \in ever[f]

\* The inductive invariant for the contents.
HistoryInv == FileTypes /\ NothingLost /\ Recorded /\ \A e \in Editors : Saved(e)

\* One operator edits at a time: two PATCH requests that have read the same
\* content save it twice, and the content that the first one writes not at all.
SoleEditor == \A d, e \in Editors : d = e

\* The contents that may be stored, and the start.
LEMMA VersionsAreNumbers ==
    /\ Versions \subseteq Int /\ Gone \in Int
    /\ NoEdit \in EditRecords
BY SyncAssumption DEF Versions, Gone, NoEdit, EditRecords

\* The invariant for the contents holds at the start.
LEMMA HistoryInit == Init => HistoryInv
<1> SUFFICES ASSUME Init PROVE HistoryInv
    OBVIOUS
<1>1. FileTypes
    BY VersionsAreNumbers DEF Init, FileTypes
<1>2. NothingLost /\ Recorded
    BY DEF Init, NothingLost, Recorded
<1>3. \A e \in Editors : Saved(e)
    BY DEF Init, Saved, NoEdit
<1> QED
    BY <1>1, <1>2, <1>3 DEF HistoryInv

\* A step that changes neither files nor editors.
LEMMA HistoryStutter ==
    ASSUME HistoryInv, UNCHANGED <<content, history, ever, editor>> PROVE HistoryInv'
BY DEF HistoryInv, FileTypes, NothingLost, Recorded, Saved

\* PATCH and restore keep what they replace.
LEMMA EditKeepsHistory ==
    ASSUME SoleEditor, HistoryInv, Edit PROVE HistoryInv'
<1>0. PICK e \in Editors :
        \/ \E f \in Files, v \in Versions : PatchBegin(e, f, v) \/ RestoreBegin(e, f, v)
        \/ EditSave(e) \/ EditWrite(e)
    BY DEF Edit
<1>a. Editors = {e}
    BY DEF SoleEditor
<1>1. ASSUME NEW f \in Files, NEW v \in Versions, PatchBegin(e, f, v) \/ RestoreBegin(e, f, v)
      PROVE  HistoryInv'
    <2>1. /\ UNCHANGED <<content, history, ever>> /\ content[f] # Gone
          /\ editor' = [editor EXCEPT ![e] =
               [pc |-> editor'[e].pc, file |-> f, seen |-> content[f], new |-> v]]
          /\ editor'[e].pc \in {"save", "write"} /\ (editor'[e].pc = "write" => v = content[f])
        BY <1>1 DEF PatchBegin, RestoreBegin, fileVars, HistoryInv, FileTypes
    <2>2. FileTypes'
        BY <2>1, VersionsAreNumbers DEF HistoryInv, FileTypes, EditRecords
    <2>3. Saved(e)'
        BY <2>1 DEF HistoryInv, FileTypes, Saved
    <2> QED
        BY <1>a, <2>1, <2>2, <2>3 DEF HistoryInv, NothingLost, Recorded
<1>2. CASE EditSave(e)
    <2>1. UNCHANGED <<content, ever>> /\ editor[e].pc = "save" /\ editor[e].file \in Files
        BY <1>2 DEF EditSave, HistoryInv, Saved
    <2>2. CASE content[editor[e].file] = Gone
        <3>1. editor' = [editor EXCEPT ![e] = NoEdit] /\ UNCHANGED history
            BY <1>2, <2>2 DEF EditSave
        <3>2. FileTypes' /\ editor'[e].pc = "idle"
            BY <2>1, <3>1, VersionsAreNumbers DEF HistoryInv, FileTypes, NoEdit
        <3> QED
            BY <1>a, <2>1, <3>1, <3>2 DEF HistoryInv, NothingLost, Recorded, Saved
    <2>3. CASE content[editor[e].file] # Gone
        <3>1. /\ history' = [history EXCEPT ![editor[e].file] = @ \cup {editor[e].seen}]
              /\ editor' = [editor EXCEPT ![e].pc = "write"]
            BY <1>2, <2>3 DEF EditSave
        <3>2. FileTypes'
            BY <2>1, <3>1 DEF HistoryInv, FileTypes, EditRecords
        <3>3. \A f \in Files : history[f] \subseteq history'[f]
            BY <2>1, <3>1 DEF HistoryInv, FileTypes
        <3>4. Saved(e)'
            BY <2>1, <2>3, <3>1 DEF HistoryInv, FileTypes, EditRecords, Saved
        <3> QED
            BY <1>a, <2>1, <3>2, <3>3, <3>4 DEF HistoryInv, NothingLost, Recorded
    <2> QED
        BY <2>2, <2>3
<1>3. CASE EditWrite(e)
    <2>1. UNCHANGED history /\ editor[e].pc = "write" /\ editor[e].file \in Files
          /\ editor' = [editor EXCEPT ![e] = NoEdit]
        BY <1>3 DEF EditWrite, HistoryInv, Saved
    <2>2. editor' \in [Editors -> EditRecords] /\ editor'[e].pc = "idle"
        BY <2>1, VersionsAreNumbers DEF HistoryInv, FileTypes, NoEdit
    <2>3. CASE content[editor[e].file] = Gone
        BY <1>3, <1>a, <2>1, <2>2, <2>3
        DEF EditWrite, HistoryInv, FileTypes, NothingLost, Recorded, Saved
    <2>4. CASE content[editor[e].file] # Gone
        <3>1. PICK f \in Files, v \in Int : f = editor[e].file /\ v = editor[e].new
            BY <2>1 DEF HistoryInv, FileTypes, EditRecords
        <3>2. content' = [content EXCEPT ![f] = v] /\ ever' = [ever EXCEPT ![f] = @ \cup {v}]
            BY <1>3, <2>4, <3>1 DEF EditWrite, Store
        <3>3. content[f] \in history[f] \cup {v}
            BY <2>1, <2>4, <3>1 DEF HistoryInv, Saved
        <3>4. FileTypes'
            BY <2>1, <2>2, <3>2 DEF HistoryInv, FileTypes
        <3>5. NothingLost' /\ Recorded'
            BY <2>1, <2>4, <3>1, <3>2, <3>3 DEF HistoryInv, FileTypes, NothingLost, Recorded
        <3> QED
            BY <1>a, <2>2, <3>4, <3>5 DEF HistoryInv, Saved
    <2> QED
        BY <2>3, <2>4
<1> QED
    BY <1>0, <1>1, <1>2, <1>3

\* A deleted file stays deleted, and has no history to keep.
LEMMA DeleteKeepsHistory ==
    ASSUME HistoryInv, NEW f \in Files, Delete(f) PROVE HistoryInv'
<1>1. /\ UNCHANGED editor /\ content' = [content EXCEPT ![f] = Gone]
      /\ history' = [history EXCEPT ![f] = {}] /\ ever' = [ever EXCEPT ![f] = {}]
    BY DEF Delete
<1>2. FileTypes'
    BY <1>1, VersionsAreNumbers DEF HistoryInv, FileTypes
<1>3. /\ content'[f] = Gone
      /\ \A g \in Files \ {f} : content'[g] = content[g] /\ history'[g] = history[g] /\ ever'[g] = ever[g]
    BY <1>1 DEF HistoryInv, FileTypes
<1>4. NothingLost' /\ Recorded'
    BY <1>3 DEF HistoryInv, NothingLost, Recorded
<1>5. \A e \in Editors : Saved(e)'
    BY <1>1, <1>3 DEF HistoryInv, Saved
<1> QED
    BY <1>2, <1>4, <1>5 DEF HistoryInv

\* Neither syncs nor changes of the secret touch the contents.
LEMMA SyncLeavesFiles ==
    ASSUME \/ \E p, f : SyncBegin(p, f)
           \/ \E p : SyncStep(p)
           \/ UpdateSecret \/ TriggerAutoResync
    PROVE  UNCHANGED <<content, history, ever, editor>>
BY DEF SyncBegin, SyncStep, SyncRender, SyncPairFails, SyncWrite, SyncRecord, SyncEnd,
       UpdateSecret, TriggerAutoResync, fileVars, editorVars

-----------------------------------------------------------------------------
(* Syncs. *)

SyncPcs  == {"idle", "called", "pairs", "write", "record", "done"}
Outcomes == {None, "null", "lost", "no_targets", "ok", "failed", "partial"}
SyncRecords ==
    [pc : SyncPcs, file : Files \cup {None}, content : Int, todo : SUBSET Targets,
     at : Targets \cup {None}, seen : Int, ok : Nat, bad : Nat, outcome : Outcomes, quiet : BOOLEAN]

SyncTypes ==
    /\ content \in [Files -> Int]
    /\ syncStatus \in [ServiceFiles -> {"never", "pending", "synced"}]
    /\ host \in [Targets -> Int \X Int]
    /\ sync \in [Syncers -> SyncRecords]
    /\ secret \in Int

Busy == {"pairs", "write", "record"}

\* The pair that a sync is working on.
AtHand(p) == IF sync[p].pc \in {"write", "record"} THEN {sync[p].at} ELSE {}

\* A sync writes the pairs of its own file.
OwnPairs(p) ==
    /\ sync[p].pc = "called" => sync[p].file \in Files
    /\ sync[p].pc \in Busy => /\ sync[p].file \in Files
                              /\ sync[p].todo \cup AtHand(p) \subseteq Pairs(sync[p].file)

\* What a sync has delivered while nothing disturbed it: nobody else writes to
\* the targets of its file, it read the content and the secret of this moment,
\* and what is not on the hosts yet is still to do or has been counted.
Delivered(p) ==
    LET f == sync[p].file
        now == Rendered(f, content[f], secret)
    IN  sync[p].quiet /\ (sync[p].pc \in Busy \/ (sync[p].pc = "done" /\ sync[p].outcome = "ok")) =>
          /\ f \in Files /\ content[f] = sync[p].content
          /\ \A q \in Syncers \ {p} : sync[q].file = f => sync[q].pc \notin Busy
          /\ sync[p].pc \in {"write", "record"} => sync[p].seen = secret
          /\ sync[p].pc = "record" => host[sync[p].at] = now
          /\ sync[p].bad = 0 =>
               \A t \in Pairs(f) \ (sync[p].todo \cup AtHand(p)) :
                 host[t] = now /\ syncStatus[t[1]] = "synced"
          /\ sync[p].pc = "done" => sync[p].bad = 0 /\ sync[p].todo = {}

\* The inductive invariant for the syncs.
SyncInv == SyncTypes /\ \A p \in Syncers : OwnPairs(p) /\ Delivered(p)

\* The ranges of what syncs handle; a target belongs to one file.
LEMMA SyncFacts ==
    /\ NoSync \in SyncRecords /\ Gone \in Int
    /\ \A f \in Files : Pairs(f) \subseteq Targets
    /\ \A f, c, s : f \in Files /\ c \in Int /\ s \in Int => Rendered(f, c, s) \in Int \X Int
    /\ \A f, g \in Files : \A t \in Pairs(f) : t \in Pairs(g) => f = g
    /\ \A f \in Files : \A t \in Pairs(f) : t \in Targets /\ t[1] \in ServiceFiles /\ FileOf[t[1]] = f
<1>1. NoSync \in SyncRecords /\ Gone \in Int
    BY DEF NoSync, Gone, SyncRecords, SyncPcs, Outcomes
<1>2. \A f \in Files : \A t \in Pairs(f) : t \in Targets /\ t[1] \in ServiceFiles /\ FileOf[t[1]] = f
    BY DEF Pairs, RowsOf, Targets
<1>3. \A f, c, s : f \in Files /\ c \in Int /\ s \in Int => Rendered(f, c, s) \in Int \X Int
    BY DEF Rendered
<1> QED
    BY <1>1, <1>2, <1>3

\* The invariant for the syncs holds at the start.
LEMMA SyncInit == Init => SyncInv
<1> SUFFICES ASSUME Init PROVE SyncInv
    OBVIOUS
<1>1. content \in [Files -> Int] /\ secret \in Int
    BY DEF Init
<1>2. syncStatus \in [ServiceFiles -> {"never", "pending", "synced"}]
    BY DEF Init
<1>3. host \in [Targets -> Int \X Int]
    BY SyncFacts DEF Init, HostAtStart
<1>4. sync \in [Syncers -> SyncRecords] /\ \A p \in Syncers : sync[p].pc = "idle"
    BY SyncFacts DEF Init, NoSync
<1>5. \A p \in Syncers : OwnPairs(p) /\ Delivered(p)
    BY <1>4 DEF OwnPairs, Delivered, Busy
<1> QED
    BY <1>1, <1>2, <1>3, <1>4, <1>5 DEF SyncInv, SyncTypes

\* The syncs of f are disturbed and nothing else happens to any of them.
LEMMA DisturbedSyncs ==
    ASSUME SyncTypes, NEW f, NEW s, s = Disturbed(f)
    PROVE  /\ s \in [Syncers -> SyncRecords]
           /\ \A o \in Syncers :
                /\ sync[o].file # f => s[o] = sync[o]
                /\ s[o].file = sync[o].file /\ s[o].pc = sync[o].pc
                /\ s[o].todo = sync[o].todo /\ s[o].at = sync[o].at
                /\ s[o].quiet => sync[o].file # f
<1>1. ASSUME NEW p \in Syncers
      PROVE  /\ s[p] \in SyncRecords
             /\ sync[p].file # f => s[p] = sync[p]
             /\ s[p].file = sync[p].file /\ s[p].pc = sync[p].pc
             /\ s[p].todo = sync[p].todo /\ s[p].at = sync[p].at
             /\ s[p].quiet => sync[p].file # f
    <2>1. sync[p] \in SyncRecords
        BY DEF SyncTypes
    <2>2. s[p] = IF sync[p].file = f THEN [sync[p] EXCEPT !.quiet = FALSE] ELSE sync[p]
        BY DEF Disturbed
    <2> QED
        BY <2>1, <2>2 DEF SyncRecords
<1>2. s = [p \in Syncers |-> s[p]]
    BY DEF Disturbed
<1>3. s \in [Syncers -> SyncRecords]
    BY <1>1, <1>2
<1> QED
    BY <1>1, <1>3

\* A new content, or none, for f: the syncs of f are disturbed, and the others
\* do not depend on it.
LEMMA StoreKeepsSyncs ==
    ASSUME SyncInv, NEW f \in Files, content' \in [Files -> Int],
           syncStatus' \in [ServiceFiles -> {"never", "pending", "synced"}],
           UNCHANGED <<host, secret>>, sync' = Disturbed(f),
           \A g \in Files \ {f} : content'[g] = content[g],
           \A r \in ServiceFiles : FileOf[r] # f => syncStatus'[r] = syncStatus[r]
    PROVE  SyncInv'
<1>0. SyncTypes
    BY DEF SyncInv
<1>1. /\ sync' \in [Syncers -> SyncRecords]
      /\ \A o \in Syncers :
           /\ sync[o].file # f => sync'[o] = sync[o]
           /\ sync'[o].file = sync[o].file /\ sync'[o].pc = sync[o].pc
           /\ sync'[o].todo = sync[o].todo /\ sync'[o].at = sync[o].at
           /\ sync'[o].quiet => sync[o].file # f
    <2>1. PICK s : s = Disturbed(f) /\ s = sync'
        OBVIOUS
    <2>2. /\ s \in [Syncers -> SyncRecords]
          /\ \A o \in Syncers :
               /\ sync[o].file # f => s[o] = sync[o]
               /\ s[o].file = sync[o].file /\ s[o].pc = sync[o].pc
               /\ s[o].todo = sync[o].todo /\ s[o].at = sync[o].at
               /\ s[o].quiet => sync[o].file # f
        BY <1>0, <2>1, DisturbedSyncs, Zenon
    <2> QED
        BY <2>1, <2>2, Zenon
<1>2. SyncTypes'
    BY <1>0, <1>1 DEF SyncTypes
<1>3. ASSUME NEW p \in Syncers PROVE OwnPairs(p)' /\ Delivered(p)'
    <2>1. /\ sync'[p].file = sync[p].file /\ sync'[p].pc = sync[p].pc
          /\ sync'[p].todo = sync[p].todo /\ sync'[p].at = sync[p].at
        BY <1>1, Zenon
    <2>2. OwnPairs(p)'
        BY <2>1 DEF SyncInv, OwnPairs, AtHand
    <2>3. CASE ~sync'[p].quiet
        BY <2>2, <2>3 DEF Delivered
    <2>4. CASE sync'[p].quiet
        <3>1. sync[p].file # f /\ sync'[p] = sync[p]
            BY <1>1, <2>4, Zenon
        <3>2. \A q \in Syncers : sync'[q].file = sync[q].file /\ sync'[q].pc = sync[q].pc
            BY <1>1, Zenon
        <3>3. sync[p].file \in Files =>
                /\ content'[sync[p].file] = content[sync[p].file]
                /\ \A t \in Pairs(sync[p].file) : syncStatus'[t[1]] = syncStatus[t[1]]
            BY <3>1, SyncFacts
        <3>4. Delivered(p)
            BY DEF SyncInv
        <3>5. Delivered(p)'
            BY <3>1, <3>2, <3>3, <3>4 DEF Delivered, AtHand
        <3> QED
            BY <2>2, <3>5
    <2> QED
        BY <2>3, <2>4
<1> QED
    BY <1>2, <1>3 DEF SyncInv

\* A step that changes nothing the syncs depend on.
LEMMA SyncStutter ==
    ASSUME SyncInv, UNCHANGED <<content, syncStatus, host, sync, secret>> PROVE SyncInv'
<1>1. SyncTypes'
    BY DEF SyncInv, SyncTypes
<1>2. ASSUME NEW p \in Syncers PROVE OwnPairs(p)' /\ Delivered(p)'
    <2>1. OwnPairs(p) /\ Delivered(p)
        BY DEF SyncInv
    <2>2. OwnPairs(p)'
        BY <2>1 DEF OwnPairs, AtHand
    <2>3. Delivered(p)'
        BY <2>1 DEF Delivered, AtHand
    <2> QED
        BY <2>2, <2>3
<1> QED
    BY <1>1, <1>2 DEF SyncInv

\* Syncs that are called, forgotten or lost.
LEMMA RestKeepsSyncs ==
    ASSUME SyncInv, sync' \in [Syncers -> SyncRecords], UNCHANGED <<content, syncStatus, host, secret>>,
           \A p \in Syncers :
             \/ sync'[p] = sync[p]
             \/ sync'[p].pc = "idle"
             \/ sync'[p].pc = "called" /\ sync'[p].file \in Files
             \/ sync'[p].pc = "done" /\ sync'[p].outcome # "ok"
    PROVE  SyncInv'
<1>1. SyncTypes'
    BY DEF SyncInv, SyncTypes
<1>2. ASSUME NEW p \in Syncers PROVE OwnPairs(p)' /\ Delivered(p)'
    <2>1. \A q \in Syncers : sync'[q] = sync[q] \/ sync'[q].pc \notin Busy
        BY DEF Busy
    <2>2. CASE sync'[p] = sync[p]
        BY <2>1, <2>2 DEF SyncInv, OwnPairs, Delivered, AtHand
    <2>3. CASE sync'[p] # sync[p]
        BY <2>3 DEF OwnPairs, Delivered, Busy
    <2> QED
        BY <2>2, <2>3
<1> QED
    BY <1>1, <1>2 DEF SyncInv

\* A step of one sync does not disturb those of other files, and those of its
\* own file have been disturbed when it began.
LEMMA OthersKeep ==
    ASSUME SyncInv, NEW p \in Syncers, sync[p].pc \in Busy, sync'[p].file = sync[p].file,
           \A q \in Syncers \ {p} : sync'[q] = sync[q], UNCHANGED <<content, secret>>,
           \A t \in Targets : FileOf[t[1]] # sync[p].file => host'[t] = host[t],
           \A r \in ServiceFiles : FileOf[r] # sync[p].file => syncStatus'[r] = syncStatus[r],
           NEW q \in Syncers \ {p}
    PROVE  OwnPairs(q)' /\ Delivered(q)'
<1>0. OwnPairs(q) /\ Delivered(q) /\ sync'[q] = sync[q]
    BY DEF SyncInv
<1>1. OwnPairs(q)'
    BY <1>0 DEF OwnPairs, AtHand
<1>2. CASE sync[q].file = sync[p].file
    <2>1. ASSUME sync[q].quiet, sync[q].pc \in Busy \/ (sync[q].pc = "done" /\ sync[q].outcome = "ok")
          PROVE  FALSE
        BY <1>0, <1>2, <2>1 DEF Delivered
    <2> QED
        BY <1>0, <1>1, <2>1 DEF Delivered
<1>3. CASE sync[q].file # sync[p].file
    <2>1. \A o \in Syncers \ {q} : sync'[o].file = sync[q].file => sync'[o] = sync[o]
        BY <1>3
    <2>2. ASSUME sync[q].file \in Files
          PROVE  /\ \A t \in Pairs(sync[q].file) : host'[t] = host[t] /\ syncStatus'[t[1]] = syncStatus[t[1]]
                 /\ sync[q].pc = "record" => host'[sync[q].at] = host[sync[q].at]
        <3>1. \A t \in Pairs(sync[q].file) : host'[t] = host[t] /\ syncStatus'[t[1]] = syncStatus[t[1]]
            BY <1>3, <2>2, SyncFacts
        <3> QED
            BY <1>0, <3>1 DEF OwnPairs, AtHand, Busy
    <2>3. Delivered(q)'
        BY <1>0, <2>1, <2>2 DEF Delivered, AtHand
    <2> QED
        BY <1>1, <2>3
<1> QED
    BY <1>1, <1>2, <1>3

\* Reading the file: what other syncs of it do is no longer undisturbed.
LEMMA BeginKeepsSyncs ==
    ASSUME SyncInv, NEW p \in Syncers, NEW f \in Files, SyncBegin(p, f) PROVE SyncInv'
<1>0. SyncTypes /\ UNCHANGED <<content, syncStatus, host, secret>>
    BY DEF SyncInv, SyncBegin, fileVars, secretVars
<1>a. SyncTypes
    BY <1>0
<1>1. PICK s : s = Disturbed(f)
    OBVIOUS
<1>2. /\ s \in [Syncers -> SyncRecords]
      /\ \A o \in Syncers :
           /\ sync[o].file # f => s[o] = sync[o]
           /\ s[o].file = sync[o].file /\ s[o].pc = sync[o].pc
           /\ s[o].todo = sync[o].todo /\ s[o].at = sync[o].at
           /\ s[o].quiet => sync[o].file # f
    BY <1>a, <1>1, DisturbedSyncs
<1>3. PICK quiet \in BOOLEAN : quiet <=> \A o \in Syncers \ {p} : sync[o].file = f => sync[o].pc = "done"
    OBVIOUS
<1>4. PICK x : x = IF content[f] = Gone THEN [NoSync EXCEPT !.pc = "done", !.file = f, !.outcome = "null"]
                   ELSE [NoSync EXCEPT !.pc = "pairs", !.file = f, !.content = content[f],
                         !.todo = Pairs(f), !.quiet = quiet]
    OBVIOUS
<1>5. sync' = [q \in Syncers |-> IF q = p THEN x ELSE s[q]]
    <2>1. quiet = \A o \in Syncers \ {p} : sync[o].file = f => sync[o].pc = "done"
        BY <1>3
    <2> QED
        BY <1>1, <1>4, <2>1 DEF SyncBegin
<1>6. /\ x \in SyncRecords /\ x.file = f
      /\ \/ x.pc = "done" /\ x.outcome = "null"
         \/ /\ x.pc = "pairs" /\ x.content = content[f] /\ x.todo = Pairs(f)
            /\ x.quiet = quiet /\ x.bad = 0
    BY <1>0, <1>4, SyncFacts DEF SyncRecords, SyncTypes, NoSync, SyncPcs, Outcomes
<1>7. sync' \in [Syncers -> SyncRecords] /\ sync'[p] = x /\ \A q \in Syncers \ {p} : sync'[q] = s[q]
    BY <1>2, <1>5, <1>6
<1>8. SyncTypes'
    BY <1>0, <1>7 DEF SyncTypes
<1>9. OwnPairs(p)' /\ Delivered(p)'
    <2>1. OwnPairs(p)'
        BY <1>6, <1>7 DEF OwnPairs, AtHand, Busy
    <2>2. ASSUME x.pc = "pairs", quiet PROVE \A q \in Syncers \ {p} : sync'[q].file = f => sync'[q].pc \notin Busy
        BY <1>2, <1>3, <1>7, <2>2 DEF Busy
    <2>3. Delivered(p)'
        BY <1>0, <1>6, <1>7, <2>2 DEF Delivered, AtHand, Busy
    <2> QED
        BY <2>1, <2>3
<1>10. ASSUME NEW q \in Syncers \ {p} PROVE OwnPairs(q)' /\ Delivered(q)'
    <2>1. OwnPairs(q) /\ Delivered(q)
        BY DEF SyncInv
    <2>2. /\ sync'[q].file = sync[q].file /\ sync'[q].pc = sync[q].pc
          /\ sync'[q].todo = sync[q].todo /\ sync'[q].at = sync[q].at
        BY <1>2, <1>7
    <2>3. OwnPairs(q)'
        BY <2>1, <2>2 DEF OwnPairs, AtHand
    <2>4. CASE ~sync'[q].quiet
        BY <2>3, <2>4 DEF Delivered
    <2>5. CASE sync'[q].quiet
        <3>1. sync[q].file # f /\ sync'[q] = sync[q]
            BY <1>2, <1>7, <2>5, Zenon
        <3>2. \A o \in Syncers \ {q} : sync'[o].file = sync[q].file => sync'[o].pc = sync[o].pc /\ sync[o].file = sync[q].file
            BY <1>2, <1>6, <1>7, <3>1
        <3>3. Delivered(q)'
            BY <1>0, <2>1, <3>1, <3>2 DEF Delivered, AtHand
        <3> QED
            BY <2>3, <3>3
    <2> QED
        BY <2>4, <2>5
<1> QED
    BY <1>8, <1>9, <1>10 DEF SyncInv

\* The steps of a sync: what is not delivered is counted.
LEMMA StepKeepsSyncs ==
    ASSUME SyncInv, NEW p \in Syncers, SyncStep(p) PROVE SyncInv'
<1>0. SyncTypes /\ sync \in [Syncers -> SyncRecords] /\ OwnPairs(p) /\ Delivered(p) /\ UNCHANGED <<content, secret>>
    BY DEF SyncInv, SyncTypes, SyncStep, SyncRender, SyncPairFails, SyncWrite, SyncRecord, SyncEnd, fileVars, secretVars
<1>1. ASSUME NEW t \in sync[p].todo, SyncRender(p, t) PROVE SyncInv'
    <2>1. /\ UNCHANGED <<host, syncStatus>> /\ sync[p].pc = "pairs"
          /\ sync' = [sync EXCEPT ![p].pc = "write", ![p].todo = sync[p].todo \ {t}, ![p].at = t, ![p].seen = secret]
        BY <1>1 DEF SyncRender, fileVars
    <2>2. sync[p].file \in Files /\ sync[p].todo \subseteq Pairs(sync[p].file) /\ t \in Targets
        BY <1>0, <2>1, SyncFacts DEF OwnPairs, Busy
    <2>3. /\ sync' \in [Syncers -> SyncRecords]
          /\ \A q \in Syncers \ {p} : sync'[q] = sync[q]
          /\ sync'[p].pc = "write" /\ sync'[p].todo = sync[p].todo \ {t} /\ sync'[p].at = t
          /\ sync'[p].file = sync[p].file /\ sync'[p].content = sync[p].content /\ sync'[p].seen = secret
          /\ sync'[p].bad = sync[p].bad /\ sync'[p].quiet = sync[p].quiet
        BY <1>0, <2>1, <2>2 DEF SyncRecords, SyncPcs, SyncTypes
    <2>4. SyncTypes'
        BY <1>0, <2>1, <2>3 DEF SyncTypes
    <2>5. OwnPairs(p)' 
        BY <2>2, <2>3 DEF OwnPairs, AtHand, Busy
    <2>6. sync'[p].todo \cup {t} = sync[p].todo
        BY <2>3
    <2>7. Delivered(p)'
        BY <1>0, <2>1, <2>3, <2>6 DEF Delivered, AtHand, Busy
    <2>8. sync[p].pc \in Busy
        BY <2>1 DEF Busy
    <2>9. \A q \in Syncers \ {p} : OwnPairs(q)' /\ Delivered(q)'
        BY <1>0, <2>1, <2>3, <2>8, OthersKeep
    <2> QED
        BY <2>4, <2>5, <2>7, <2>9 DEF SyncInv
<1>2. ASSUME NEW t \in sync[p].todo, SyncPairFails(p, t) PROVE SyncInv'
    <2>1. /\ UNCHANGED <<host, syncStatus>> /\ sync[p].pc = "pairs"
          /\ sync' = [sync EXCEPT ![p].todo = sync[p].todo \ {t}, ![p].bad = sync[p].bad + 1]
        BY <1>2 DEF SyncPairFails, fileVars
    <2>2. sync[p].file \in Files /\ sync[p].todo \subseteq Pairs(sync[p].file) /\ t \in Targets
        BY <1>0, <2>1, SyncFacts DEF OwnPairs, Busy
    <2>3. /\ sync' \in [Syncers -> SyncRecords]
          /\ \A q \in Syncers \ {p} : sync'[q] = sync[q]
          /\ sync'[p].pc = "pairs" /\ sync'[p].todo = sync[p].todo \ {t}
          /\ sync'[p].file = sync[p].file /\ sync'[p].content = sync[p].content
          /\ sync'[p].bad = sync[p].bad + 1 /\ sync[p].bad \in Nat /\ sync'[p].quiet = sync[p].quiet
        BY <1>0, <2>1, <2>2 DEF SyncRecords, SyncPcs, SyncTypes
    <2>4. SyncTypes'
        BY <1>0, <2>1, <2>3 DEF SyncTypes
    <2>5. OwnPairs(p)'
        BY <2>2, <2>3 DEF OwnPairs, AtHand, Busy
    <2>6. sync'[p].bad # 0
        BY <2>3
    <2>7. Delivered(p)'
        BY <1>0, <2>1, <2>3, <2>6 DEF Delivered, AtHand, Busy
    <2>8. sync[p].pc \in Busy
        BY <2>1 DEF Busy
    <2>9. \A q \in Syncers \ {p} : OwnPairs(q)' /\ Delivered(q)'
        BY <1>0, <2>1, <2>3, <2>8, OthersKeep
    <2> QED
        BY <2>4, <2>5, <2>7, <2>9 DEF SyncInv
<1>3. CASE SyncWrite(p)
    <2>1. /\ UNCHANGED syncStatus /\ sync[p].pc = "write"
          /\ sync' = [sync EXCEPT ![p].pc = "record"]
          /\ host' = [host EXCEPT ![sync[p].at] = Rendered(sync[p].file, sync[p].content, sync[p].seen)]
        BY <1>3 DEF SyncWrite, fileVars
    <2>2. sync[p].file \in Files /\ sync[p].todo \cup {sync[p].at} \subseteq Pairs(sync[p].file)
        BY <1>0, <2>1 DEF OwnPairs, AtHand, Busy
    <2>3. /\ sync' \in [Syncers -> SyncRecords]
          /\ \A q \in Syncers \ {p} : sync'[q] = sync[q]
          /\ sync'[p].pc = "record" /\ sync'[p].todo = sync[p].todo /\ sync'[p].at = sync[p].at
          /\ sync'[p].file = sync[p].file /\ sync'[p].content = sync[p].content /\ sync'[p].seen = sync[p].seen
          /\ sync'[p].bad = sync[p].bad /\ sync'[p].quiet = sync[p].quiet
          /\ sync[p].content \in Int /\ sync[p].seen \in Int
        BY <1>0, <2>1 DEF SyncRecords, SyncPcs
    <2>4. /\ sync[p].at \in Targets /\ FileOf[sync[p].at[1]] = sync[p].file
          /\ Rendered(sync[p].file, sync[p].content, sync[p].seen) \in Int \X Int
        BY <2>2, <2>3, SyncFacts
    <2>5. /\ host' \in [Targets -> Int \X Int]
          /\ \A t \in Targets \ {sync[p].at} : host'[t] = host[t]
          /\ host'[sync[p].at] = Rendered(sync[p].file, sync[p].content, sync[p].seen)
        BY <1>0, <2>1, <2>4 DEF SyncTypes
    <2>6. SyncTypes'
        BY <1>0, <2>1, <2>3, <2>5 DEF SyncTypes
    <2>7. OwnPairs(p)'
        BY <2>2, <2>3 DEF OwnPairs, AtHand, Busy
    <2>8. \A t \in Pairs(sync[p].file) : t # sync[p].at => host'[t] = host[t]
        BY <2>2, <2>5, SyncFacts
    <2>9. Delivered(p)'
        BY <1>0, <2>1, <2>2, <2>3, <2>5, <2>8 DEF Delivered, AtHand, Busy
    <2>10. sync[p].pc \in Busy
        BY <2>1 DEF Busy
    <2>11. \A t \in Targets : FileOf[t[1]] # sync[p].file => host'[t] = host[t]
        BY <2>4, <2>5
    <2>12. \A q \in Syncers \ {p} : OwnPairs(q)' /\ Delivered(q)'
        BY <1>0, <2>1, <2>3, <2>10, <2>11, OthersKeep
    <2> QED
        BY <2>6, <2>7, <2>9, <2>12 DEF SyncInv
<1>4. CASE SyncRecord(p)
    <2>0. UNCHANGED host /\ sync[p].pc = "record" /\ sync[p].pc \in Busy
        BY <1>4 DEF SyncRecord, Busy
    <2>1. /\ sync[p].file \in Files /\ sync[p].todo \cup {sync[p].at} \subseteq Pairs(sync[p].file)
          /\ sync[p].at[1] \in ServiceFiles /\ FileOf[sync[p].at[1]] = sync[p].file
        BY <1>0, <2>0, SyncFacts DEF OwnPairs, AtHand, Busy
    <2>2. CASE content[sync[p].file] = Gone
        <3>1. UNCHANGED syncStatus /\ sync' = [sync EXCEPT ![p].pc = "pairs", ![p].bad = sync[p].bad + 1]
            BY <1>4, <2>2 DEF SyncRecord
        <3>2. /\ sync' \in [Syncers -> SyncRecords]
              /\ \A q \in Syncers \ {p} : sync'[q] = sync[q]
              /\ sync'[p].pc = "pairs" /\ sync'[p].todo = sync[p].todo
              /\ sync'[p].file = sync[p].file /\ sync'[p].content = sync[p].content
              /\ sync'[p].bad = sync[p].bad + 1 /\ sync[p].bad \in Nat /\ sync'[p].quiet = sync[p].quiet
            BY <1>0, <3>1 DEF SyncRecords, SyncPcs
        <3>3. SyncTypes'
            BY <1>0, <2>0, <3>1, <3>2 DEF SyncTypes
        <3>4. OwnPairs(p)'
            BY <2>1, <3>2 DEF OwnPairs, AtHand, Busy
        <3>5. sync'[p].bad # 0
            BY <3>2
        <3>6. Delivered(p)'
            BY <1>0, <2>0, <3>1, <3>2, <3>5 DEF Delivered, AtHand, Busy
        <3>7. \A q \in Syncers \ {p} : OwnPairs(q)' /\ Delivered(q)'
            BY <1>0, <2>0, <3>1, <3>2, OthersKeep
        <3> QED
            BY <3>3, <3>4, <3>6, <3>7 DEF SyncInv
    <2>3. CASE content[sync[p].file] # Gone
        <3>1. /\ syncStatus' = [syncStatus EXCEPT ![sync[p].at[1]] = "synced"]
              /\ sync' = [sync EXCEPT ![p].pc = "pairs", ![p].ok = sync[p].ok + 1]
            BY <1>4, <2>3 DEF SyncRecord
        <3>2. /\ sync' \in [Syncers -> SyncRecords]
              /\ \A q \in Syncers \ {p} : sync'[q] = sync[q]
              /\ sync'[p].pc = "pairs" /\ sync'[p].todo = sync[p].todo
              /\ sync'[p].file = sync[p].file /\ sync'[p].content = sync[p].content
              /\ sync'[p].bad = sync[p].bad /\ sync'[p].quiet = sync[p].quiet
            BY <1>0, <3>1 DEF SyncRecords, SyncPcs
        <3>3. /\ syncStatus' \in [ServiceFiles -> {"never", "pending", "synced"}]
              /\ syncStatus'[sync[p].at[1]] = "synced"
              /\ \A r \in ServiceFiles : r # sync[p].at[1] => syncStatus'[r] = syncStatus[r]
              /\ \A r \in ServiceFiles : syncStatus[r] = "synced" => syncStatus'[r] = "synced"
            BY <1>0, <2>1, <3>1 DEF SyncTypes
        <3>4. SyncTypes'
            BY <1>0, <2>0, <3>2, <3>3 DEF SyncTypes
        <3>5. OwnPairs(p)'
            BY <2>1, <3>2 DEF OwnPairs, AtHand, Busy
        <3>6. \A t \in Pairs(sync[p].file) : syncStatus[t[1]] = "synced" => syncStatus'[t[1]] = "synced"
            BY <2>1, <3>3, SyncFacts
        <3>7. Delivered(p)'
            BY <1>0, <2>0, <2>1, <3>2, <3>3, <3>6 DEF Delivered, AtHand, Busy
        <3>8. \A r \in ServiceFiles : FileOf[r] # sync[p].file => syncStatus'[r] = syncStatus[r]
            BY <2>1, <3>3
        <3>9. \A q \in Syncers \ {p} : OwnPairs(q)' /\ Delivered(q)'
            BY <1>0, <2>0, <3>2, <3>8, OthersKeep
        <3> QED
            BY <3>4, <3>5, <3>7, <3>9 DEF SyncInv
    <2> QED
        BY <2>2, <2>3
<1>5. CASE SyncEnd(p)
    <2>0. PICK out : out = DeriveSyncStatus(sync[p].ok, sync[p].bad)
        OBVIOUS
    <2>1. /\ UNCHANGED <<host, syncStatus>> /\ sync[p].pc = "pairs" /\ sync[p].todo = {}
          /\ sync' = [sync EXCEPT ![p].pc = "done", ![p].outcome = out]
        BY <1>5, <2>0 DEF SyncEnd, fileVars
    <2>2. out = "ok" => sync[p].bad = 0
        BY <2>0 DEF DeriveSyncStatus
    <2>a. out \in Outcomes
        BY <2>0 DEF DeriveSyncStatus, Outcomes
    <2>3. /\ sync' \in [Syncers -> SyncRecords]
          /\ \A q \in Syncers \ {p} : sync'[q] = sync[q]
          /\ sync'[p].pc = "done" /\ sync'[p].todo = sync[p].todo
          /\ sync'[p].file = sync[p].file /\ sync'[p].content = sync[p].content
          /\ sync'[p].bad = sync[p].bad /\ sync'[p].quiet = sync[p].quiet
          /\ sync'[p].outcome = out
        <3>1. sync[p] \in SyncRecords
            BY <1>0
        <3>2. PICK x : x = [sync[p] EXCEPT !.pc = "done", !.outcome = out]
            OBVIOUS
        <3>3. x \in SyncRecords
            BY <2>a, <3>1, <3>2 DEF SyncRecords, SyncPcs
        <3>4. /\ x.pc = "done" /\ x.todo = sync[p].todo
              /\ x.file = sync[p].file /\ x.content = sync[p].content
              /\ x.bad = sync[p].bad /\ x.quiet = sync[p].quiet
              /\ x.outcome = out
            BY <3>1, <3>2 DEF SyncRecords
        <3>5. sync' = [sync EXCEPT ![p] = x]
            BY <2>1, <3>2
        <3>6. sync' \in [Syncers -> SyncRecords] /\ sync'[p] = x /\ \A q \in Syncers \ {p} : sync'[q] = sync[q]
            BY <1>0, <3>3, <3>5
        <3> QED
            BY <3>4, <3>6
    <2>4. SyncTypes'
        BY <1>0, <2>1, <2>3 DEF SyncTypes
    <2>5. OwnPairs(p)'
        BY <2>3 DEF OwnPairs, Busy
    <2>6. Delivered(p)'
        BY <1>0, <2>1, <2>2, <2>3 DEF Delivered, AtHand, Busy
    <2>7. sync[p].pc \in Busy
        BY <2>1 DEF Busy
    <2>8. \A q \in Syncers \ {p} : OwnPairs(q)' /\ Delivered(q)'
        BY <1>0, <2>1, <2>3, <2>7, OthersKeep
    <2> QED
        BY <2>4, <2>5, <2>6, <2>8 DEF SyncInv
<1> QED
    BY <1>1, <1>2, <1>3, <1>4, <1>5 DEF SyncStep

\* What editors work on, however many there are.
EditorsInv == FileTypes /\ \A e \in Editors : editor[e].pc # "idle" => editor[e].file \in Files

\* Writing v over the content of f keeps the types.
LEMMA StoreTypes ==
    ASSUME FileTypes, SyncTypes, NEW f \in Files, NEW v \in Int, Store(f, v)
    PROVE  /\ content' \in [Files -> Int] /\ ever' \in [Files -> SUBSET Int]
           /\ \A g \in Files \ {f} : content'[g] = content[g]
           /\ syncStatus' \in [ServiceFiles -> {"never", "pending", "synced"}]
           /\ \A r \in ServiceFiles : FileOf[r] # f => syncStatus'[r] = syncStatus[r]
           /\ sync' = Disturbed(f)
BY DEF Store, FileTypes, SyncTypes

\* An edit disturbs the syncs of its file and no others.
LEMMA EditKeepsSyncs ==
    ASSUME EditorsInv, SyncInv, Edit PROVE EditorsInv' /\ SyncInv'
<1>0. PICK e \in Editors :
        \/ \E f \in Files, v \in Versions : PatchBegin(e, f, v) \/ RestoreBegin(e, f, v)
        \/ EditSave(e) \/ EditWrite(e)
    BY DEF Edit
<1>a. FileTypes /\ SyncTypes
    BY DEF EditorsInv, SyncInv
<1>1. ASSUME NEW f \in Files, NEW v \in Versions, PatchBegin(e, f, v) \/ RestoreBegin(e, f, v)
      PROVE  EditorsInv' /\ SyncInv'
    <2>1. /\ UNCHANGED <<content, history, ever, syncStatus, host, sync, secret>>
          /\ editor' = [editor EXCEPT ![e] =
               [pc |-> editor'[e].pc, file |-> f, seen |-> content[f], new |-> v]]
          /\ editor'[e].pc \in {"save", "write"}
        BY <1>1, <1>a DEF PatchBegin, RestoreBegin, fileVars, secretVars, FileTypes
    <2>2. EditorsInv'
        BY <2>1, VersionsAreNumbers DEF EditorsInv, FileTypes, EditRecords
    <2> QED
        BY <2>1, <2>2, SyncStutter
<1>2. CASE EditSave(e)
    <2>1. /\ UNCHANGED <<content, ever, syncStatus, host, sync, secret>>
          /\ editor[e].pc = "save" /\ editor[e].file \in Files
          /\ \/ editor' = [editor EXCEPT ![e] = NoEdit] /\ UNCHANGED history
             \/ /\ history' = [history EXCEPT ![editor[e].file] = @ \cup {editor[e].seen}]
                /\ editor' = [editor EXCEPT ![e].pc = "write"]
        BY <1>2 DEF EditSave, EditorsInv, secretVars
    <2>2. EditorsInv'
        BY <2>1, VersionsAreNumbers DEF EditorsInv, FileTypes, EditRecords, NoEdit
    <2> QED
        BY <2>1, <2>2, SyncStutter
<1>3. CASE EditWrite(e)
    <2>1. PICK f \in Files, v \in Int : f = editor[e].file /\ v = editor[e].new
        BY <1>3 DEF EditWrite, EditorsInv, FileTypes, EditRecords
    <2>2. /\ UNCHANGED <<history, host, secret>> /\ editor' = [editor EXCEPT ![e] = NoEdit]
          /\ UNCHANGED <<content, ever, syncStatus, sync>> \/ Store(f, v)
        BY <1>3, <2>1 DEF EditWrite, secretVars
    <2>3. editor' \in [Editors -> EditRecords] /\ \A d \in Editors : editor'[d].pc # "idle" => editor'[d].file \in Files
        BY <2>2, VersionsAreNumbers DEF EditorsInv, FileTypes, NoEdit
    <2>4. CASE UNCHANGED <<content, ever, syncStatus, sync>>
        <3>1. EditorsInv'
            BY <2>2, <2>3, <2>4 DEF EditorsInv, FileTypes
        <3> QED
            BY <2>2, <2>4, <3>1, SyncStutter
    <2>5. CASE Store(f, v)
        <3>1. /\ content' \in [Files -> Int] /\ ever' \in [Files -> SUBSET Int]
              /\ \A g \in Files \ {f} : content'[g] = content[g]
              /\ syncStatus' \in [ServiceFiles -> {"never", "pending", "synced"}]
              /\ \A r \in ServiceFiles : FileOf[r] # f => syncStatus'[r] = syncStatus[r]
              /\ sync' = Disturbed(f)
            BY <1>a, <2>5, StoreTypes
        <3>2. EditorsInv'
            BY <2>2, <2>3, <3>1 DEF EditorsInv, FileTypes
        <3>3. SyncInv'
            BY <2>2, <3>1, StoreKeepsSyncs
        <3> QED
            BY <3>2, <3>3
    <2> QED
        BY <2>2, <2>4, <2>5
<1> QED
    BY <1>0, <1>1, <1>2, <1>3

\* So does a deletion.
LEMMA DeleteKeepsSyncs ==
    ASSUME EditorsInv, SyncInv, NEW f \in Files, Delete(f) PROVE EditorsInv' /\ SyncInv'
<1>1. /\ UNCHANGED <<editor, syncStatus, host, secret>> /\ content' = [content EXCEPT ![f] = Gone]
      /\ history' = [history EXCEPT ![f] = {}] /\ ever' = [ever EXCEPT ![f] = {}]
      /\ sync' = Disturbed(f)
    BY DEF Delete, secretVars
<1>2. content' \in [Files -> Int] /\ \A g \in Files \ {f} : content'[g] = content[g]
    BY <1>1, VersionsAreNumbers DEF EditorsInv, FileTypes
<1>3. EditorsInv'
    BY <1>1, <1>2 DEF EditorsInv, FileTypes
<1>4. SyncInv'
    <2>1. syncStatus' \in [ServiceFiles -> {"never", "pending", "synced"}]
        BY <1>1 DEF SyncInv, SyncTypes
    <2> QED
        BY <1>1, <1>2, <2>1, StoreKeepsSyncs
<1> QED
    BY <1>3, <1>4

\* A step that changes neither files nor editors.
LEMMA SyncsLeaveEditors ==
    ASSUME EditorsInv, UNCHANGED <<content, history, ever, editor>> PROVE EditorsInv'
BY DEF EditorsInv, FileTypes

\* A change of the secret disturbs every sync, and its re-syncs are new ones.
LEMMA SecretKeepsSyncs ==
    ASSUME SyncInv, UpdateSecret \/ TriggerAutoResync PROVE SyncInv'
<1>0. SyncTypes /\ sync \in [Syncers -> SyncRecords] /\ UNCHANGED <<content, syncStatus, host>>
    BY DEF SyncInv, SyncTypes, UpdateSecret, TriggerAutoResync, fileVars
<1>1. CASE UpdateSecret
    <2>1. secret' = secret + 1 /\ sync' = [p \in Syncers |-> [sync[p] EXCEPT !.quiet = FALSE]]
        BY <1>1 DEF UpdateSecret
    <2>2. ASSUME NEW p \in Syncers
          PROVE  /\ sync'[p] \in SyncRecords /\ sync'[p].quiet = FALSE
                 /\ sync'[p].file = sync[p].file /\ sync'[p].pc = sync[p].pc
                 /\ sync'[p].todo = sync[p].todo /\ sync'[p].at = sync[p].at
        <3>1. sync[p] \in SyncRecords /\ sync'[p] = [sync[p] EXCEPT !.quiet = FALSE]
            BY <1>0, <2>1
        <3> QED
            BY <3>1 DEF SyncRecords
    <2>3. SyncTypes'
        <3>1. sync' = [p \in Syncers |-> sync'[p]]
            BY <2>1
        <3>2. sync' \in [Syncers -> SyncRecords]
            BY <2>2, <3>1
        <3>3. secret' \in Int
            BY <1>0, <2>1 DEF SyncTypes
        <3> QED
            BY <1>0, <3>2, <3>3 DEF SyncTypes
    <2>4. ASSUME NEW p \in Syncers PROVE OwnPairs(p)' /\ Delivered(p)'
        <3>1. OwnPairs(p)
            BY DEF SyncInv
        <3>2. OwnPairs(p)'
            BY <2>2, <3>1 DEF OwnPairs, AtHand
        <3>3. Delivered(p)'
            BY <2>2 DEF Delivered
        <3> QED
            BY <3>2, <3>3
    <2> QED
        BY <2>3, <2>4 DEF SyncInv
<1>2. CASE TriggerAutoResync
    <2>1. /\ UNCHANGED secret
          /\ sync' = [p \in Syncers |->
               IF p \in {<<resynced + 1, f>> : f \in {g \in AutoResync : content[g] # Gone}}
               THEN [NoSync EXCEPT !.pc = "called", !.file = p[2]]
               ELSE sync[p]]
        BY <1>2 DEF TriggerAutoResync
    <2>2. ASSUME NEW p \in Syncers
          PROVE  /\ sync'[p] \in SyncRecords
                 /\ sync'[p] = sync[p] \/ (sync'[p].pc = "called" /\ sync'[p].file \in Files)
        <3>1. CASE p \in {<<resynced + 1, f>> : f \in {g \in AutoResync : content[g] # Gone}}
            <4>1. sync'[p] = [NoSync EXCEPT !.pc = "called", !.file = p[2]]
                BY <2>1, <3>1
            <4>2. p[2] \in Files
                BY <3>1, SyncAssumption
            <4>3. PICK g : g = p[2]
                OBVIOUS
            <4>4. PICK x : x = [NoSync EXCEPT !.pc = "called", !.file = g]
                OBVIOUS
            <4>5. x \in SyncRecords /\ x.pc = "called" /\ x.file = g
                BY <4>2, <4>3, <4>4, SyncFacts DEF SyncRecords, SyncPcs, NoSync
            <4>6. sync'[p] = x
                BY <4>1, <4>3, <4>4
            <4> QED
                BY <4>2, <4>3, <4>5, <4>6
        <3>2. CASE p \notin {<<resynced + 1, f>> : f \in {g \in AutoResync : content[g] # Gone}}
            BY <1>0, <2>1, <3>2
        <3> QED
            BY <3>1, <3>2
    <2>3. sync' \in [Syncers -> SyncRecords]
        <3>1. sync' = [p \in Syncers |-> sync'[p]]
            BY <2>1
        <3> QED
            BY <2>2, <3>1
    <2> QED
        BY <1>0, <2>1, <2>2, <2>3, RestKeepsSyncs
<1> QED
    BY <1>1, <1>2

\* The steps of module ConfigFileSync.
LEMMA SyncNext == EditorsInv /\ SyncInv /\ [Next]_syncVars => EditorsInv' /\ SyncInv'
<1> SUFFICES ASSUME EditorsInv, SyncInv, [Next]_syncVars PROVE EditorsInv' /\ SyncInv'
    OBVIOUS
<1>1. CASE Edit
    BY <1>1, EditKeepsSyncs
<1>2. ASSUME NEW f \in Files, Delete(f) PROVE EditorsInv' /\ SyncInv'
    BY <1>2, DeleteKeepsSyncs
<1>3. ASSUME NEW p \in Syncers, NEW f \in Files, SyncBegin(p, f) PROVE EditorsInv' /\ SyncInv'
    BY <1>3, BeginKeepsSyncs, SyncLeavesFiles, SyncsLeaveEditors
<1>4. ASSUME NEW p \in Syncers, SyncStep(p) PROVE EditorsInv' /\ SyncInv'
    BY <1>4, StepKeepsSyncs, SyncLeavesFiles, SyncsLeaveEditors
<1>5. CASE UpdateSecret \/ TriggerAutoResync
    BY <1>5, SecretKeepsSyncs, SyncLeavesFiles, SyncsLeaveEditors
<1>6. CASE UNCHANGED syncVars
    BY <1>6, SyncStutter, SyncsLeaveEditors DEF syncVars
<1>7. \A p \in Resyncs : p \in Syncers /\ p[2] \in Files
    BY DEF Resyncs, Syncers
<1>8. Callers \subseteq Syncers
    BY DEF Syncers
<1> QED
    BY <1>1, <1>2, <1>3, <1>4, <1>5, <1>6, <1>7, <1>8 DEF Next

\* What SyncInv says of a sync that has ended.
LEMMA DeliversAll == SyncInv => UndisturbedSyncDelivers
<1> SUFFICES ASSUME SyncInv, NEW p \in Syncers, sync[p].pc = "done", sync[p].outcome = "ok", sync[p].quiet,
                    NEW d \in Deployments, NEW r \in Shows(sync[p].file, d)
             PROVE  /\ host[<<r, d>>] = Rendered(sync[p].file, content[sync[p].file], secret)
                    /\ syncStatus[r] = "synced"
    BY DEF UndisturbedSyncDelivers
<1>1. /\ sync[p].file \in Files
      /\ \A t \in Pairs(sync[p].file) :
           /\ host[t] = Rendered(sync[p].file, content[sync[p].file], secret)
           /\ syncStatus[t[1]] = "synced"
    BY DEF SyncInv, Delivered, AtHand
<1>2. <<r, d>> \in Pairs(sync[p].file)
    <2>1. r \in RowsOf(sync[p].file) /\ r \in ServiceFiles
        BY DEF Shows, RowsOf
    <2>2. CASE OverrideOf[r] = d
        BY <2>1, <2>2 DEF Pairs
    <2>3. CASE OverrideOf[r] # d
        <3>1. /\ {q \in RowsOf(sync[p].file) : OverrideOf[q] = d} = {}
              /\ OverrideOf[r] = None /\ ServiceOf[r] = DeployedBy[d]
            BY <2>3 DEF Shows
        <3>2. d \notin Covered(sync[p].file)
            BY <3>1 DEF Covered
        <3> QED
            BY <2>1, <3>1, <3>2 DEF Pairs
    <2> QED
        BY <2>2, <2>3
<1>3. <<r, d>>[1] = r
    OBVIOUS
<1> QED
    BY <1>1, <1>2, <1>3

-----------------------------------------------------------------------------
(* Batches: what the row of a batch says at every stage of its handler. *)

OpStates  == {"pending", "ok", "failed", "skipped", "rolled_back", "rollback_failed"}
RowStates == {"none", "pending", "ok", "failed", "partial", "rolled_back"}
AllOps    == {<<>>} \cup UNION {[Ops(b) -> OpStates] : b \in Batches}
Rows      == [status : RowStates, keyed : BOOLEAN, ops : AllOps]

Waiting == {"lookup", "preload", "create", "replied", "conflict"}
Trying  == {"op", "wait"}
Undoing == {"undo", "restored", "resync"}
BatchPcs == Waiting \cup Trying \cup Undoing \cup {"decide", "done", "lost"}
BatchRecords ==
    [pc : BatchPcs, i : Int, snap : [Files -> Int], done : Seq(Int), fail : Int, reply : Rows]

BatchTypes == row \in [Batches -> Rows] /\ batch \in [Batches -> BatchRecords]

\* The first n operations were done, and recorded in their order.
DoneUpTo(y, n) == Len(y.done) = n /\ \A k \in 1 .. n : y.done[k] = k

\* The loop over the operations: those before i were tried, the others wait; a
\* batch with rollback has had no failure yet.
InLoop(b, x, y) ==
    /\ x.status = "pending" /\ x.ops \in [Ops(b) -> OpStates]
    /\ y.i \in Ops(b)
    /\ \A k \in Ops(b) : IF k < y.i THEN x.ops[k] \in {"ok", "failed"} ELSE x.ops[k] = "pending"
    /\ y.fail = 0 => \A k \in Ops(b) : k < y.i => x.ops[k] = "ok"
    /\ y.fail # 0 => y.fail \in Ops(b) /\ x.ops[y.fail] = "failed" /\ ~RollbackOnFailure[b]
    /\ RollbackOnFailure[b] => DoneUpTo(y, y.i - 1)

\* The loop has ended.
AfterLoop(b, x, y) ==
    /\ x.status = "pending" /\ x.ops \in [Ops(b) -> OpStates]
    /\ y.fail = 0 => \A k \in Ops(b) : x.ops[k] = "ok"
    /\ y.fail # 0 => y.fail \in Ops(b) /\ x.ops[y.fail] = "failed"
    /\ y.fail # 0 /\ ~RollbackOnFailure[b] => \A k \in Ops(b) : x.ops[k] \in {"ok", "failed"}
    /\ y.fail # 0 /\ RollbackOnFailure[b] =>
         /\ \A k \in Ops(b) : k < y.fail => x.ops[k] = "ok"
         /\ \A k \in Ops(b) : k > y.fail => x.ops[k] = "pending"
         /\ DoneUpTo(y, y.fail - 1)

\* The operations before the failed one are undone from the last to the first.
InUndo(b, x, y) ==
    /\ x.status = "pending" /\ x.ops \in [Ops(b) -> OpStates] /\ RollbackOnFailure[b]
    /\ y.fail \in Ops(b) /\ x.ops[y.fail] = "failed" /\ DoneUpTo(y, y.fail - 1)
    /\ y.i \in 0 .. y.fail - 1 /\ (y.pc # "undo" => y.i # 0)
    /\ \A k \in Ops(b) : k > y.fail => x.ops[k] = "skipped"
    /\ \A k \in Ops(b) : k <= y.i => x.ops[k] = "ok"
    /\ \A k \in Ops(b) : y.i < k /\ k < y.fail => x.ops[k] \in {"rolled_back", "rollback_failed"}

\* The row x of batch b when its handler is at y.
StageOf(b, x, y) ==
    /\ y.pc \in Waiting => x = NoRow /\ y.i = 1 /\ y.fail = 0 /\ y.done = <<>>
    /\ y.pc \in Trying => InLoop(b, x, y)
    /\ y.pc = "decide" => AfterLoop(b, x, y)
    /\ y.pc \in Undoing => InUndo(b, x, y)
    /\ y.pc = "done" => Tells(b, x)
    /\ y.pc = "lost" => x.status \in {"none", "pending"}

Stages == \A b \in Batches : StageOf(b, row[b], batch[b])

\* Operations are numbered from 1, and there is one.
LEMMA OpNumbers ==
    ASSUME NEW b \in Batches
    PROVE  /\ Len(OpsOf[b]) \in Nat \ {0} /\ Ops(b) = 1 .. Len(OpsOf[b]) /\ 1 \in Ops(b)
           /\ \A k \in Ops(b) : k \in Nat \ {0} /\ OpsOf[b][k] \in Files
           /\ RollbackOnFailure[b] \in BOOLEAN /\ b \in Callers /\ b \in Syncers
<1>1. OpsOf[b] \in Seq(Files) /\ OpsOf[b] # <<>> /\ RollbackOnFailure[b] \in BOOLEAN /\ b \in Callers
    BY BatchAssumption
<1>2. Len(OpsOf[b]) \in Nat \ {0} /\ DOMAIN OpsOf[b] = 1 .. Len(OpsOf[b])
    BY <1>1, EmptySeq
<1>3. \A k \in 1 .. Len(OpsOf[b]) : OpsOf[b][k] \in Files
    BY <1>1
<1> QED
    BY <1>1, <1>2, <1>3 DEF Ops, Syncers

\* One batch makes a step, with the row x and the handler y after it.
LEMMA OneBatch ==
    ASSUME BatchTypes, Stages, NEW b \in Batches, NEW x \in Rows, NEW y \in BatchRecords,
           row' = [row EXCEPT ![b] = x], batch' = [batch EXCEPT ![b] = y], StageOf(b, x, y)
    PROVE  BatchTypes' /\ Stages'
<1>1. BatchTypes' /\ row'[b] = x /\ batch'[b] = y
    BY DEF BatchTypes
<1>2. \A q \in Batches \ {b} : row'[q] = row[q] /\ batch'[q] = batch[q]
    BY DEF BatchTypes
<1>3. \A q \in Batches : StageOf(q, row'[q], batch'[q])
    BY <1>1, <1>2 DEF Stages
<1> QED
    BY <1>1, <1>3 DEF Stages

\* Rows with other operations or another status.
LEMMA RowFields ==
    ASSUME NEW r \in Rows, NEW o \in AllOps, NEW s \in RowStates,
           NEW x, x = [r EXCEPT !.ops = o] \/ x = [r EXCEPT !.status = s]
    PROVE  /\ x \in Rows /\ x.keyed = r.keyed
           /\ x = [r EXCEPT !.ops = o] => x.ops = o /\ x.status = r.status
           /\ x = [r EXCEPT !.status = s] => x.status = s /\ x.ops = r.ops
BY DEF Rows

\* The places of a handler.
LEMMA Places ==
    /\ {"lookup", "preload", "create", "replied", "conflict", "op", "wait", "undo", "restored", "resync",
        "decide", "done", "lost"} \subseteq BatchPcs
BY DEF BatchPcs, Waiting, Trying, Undoing

\* The row of a batch as it is created: every operation has the status of the row.
LEMMA NewRows ==
    ASSUME NEW b \in Batches, NEW s \in {"pending", "failed"}
    PROVE  LET x == NewRow(b, s)
           IN  /\ x \in Rows /\ x.status = s /\ x.ops \in [Ops(b) -> OpStates]
               /\ \A k \in Ops(b) : x.ops[k] = s
<1>1. PICK o : o = [i \in Ops(b) |-> s]
    OBVIOUS
<1>2. o \in [Ops(b) -> OpStates] /\ o \in AllOps /\ \A k \in Ops(b) : o[k] = s
    BY <1>1 DEF OpStates, AllOps
<1>3. PICK k \in BOOLEAN : k <=> (s = "pending" /\ KeyOf[b] # None)
    OBVIOUS
<1>4. NewRow(b, s) = [status |-> s, keyed |-> k, ops |-> o]
    BY <1>1, <1>3 DEF NewRow
<1>5. s \in RowStates
    BY DEF RowStates
<1> QED
    BY <1>2, <1>4, <1>5 DEF Rows

\* The operations of a row, after one of them has got a new state.
LEMMA OpsFields ==
    ASSUME NEW b \in Batches, NEW o \in [Ops(b) -> OpStates], NEW k \in Ops(b), NEW s \in OpStates,
           NEW n, n = [o EXCEPT ![k] = s]
    PROVE  /\ n \in [Ops(b) -> OpStates] /\ n \in AllOps
           /\ n[k] = s /\ \A j \in Ops(b) \ {k} : n[j] = o[j]
BY DEF AllOps

\* The route and the first half of executeBatch.
LEMMA BeforeLoop ==
    ASSUME BatchTypes, Stages, NEW b \in Batches, content \in [Files -> Int],
           Lookup(b) \/ Preload(b) \/ Create(b)
    PROVE  BatchTypes' /\ Stages'
<1>0. /\ row[b] \in Rows /\ batch[b] \in BatchRecords /\ StageOf(b, row[b], batch[b])
      /\ row \in [Batches -> Rows] /\ batch \in [Batches -> BatchRecords]
    BY DEF BatchTypes, Stages
<1>1. batch[b].pc \in Waiting
    BY DEF Lookup, Preload, Create, Waiting
<1>2. row[b] = NoRow /\ batch[b].i = 1 /\ batch[b].fail = 0 /\ batch[b].done = <<>>
    BY <1>0, <1>1 DEF StageOf
<1>3. ASSUME NEW q \in Batches, Replay(b, q) PROVE BatchTypes' /\ Stages'
    <2>1. PICK y : y = [batch[b] EXCEPT !.pc = "replied", !.reply = row[q]]
        OBVIOUS
    <2>2. row' = [row EXCEPT ![b] = row[b]] /\ batch' = [batch EXCEPT ![b] = y]
        BY <1>0, <1>3, <2>1 DEF Replay
    <2>3. row[q] \in Rows
        BY <1>0
    <2>4. /\ y \in BatchRecords /\ y.pc = "replied" /\ y.i = batch[b].i /\ y.fail = batch[b].fail
          /\ y.done = batch[b].done
        BY <1>0, <2>1, <2>3 DEF BatchRecords, BatchPcs, Waiting
    <2>5. StageOf(b, row[b], y)
        BY <1>2, <2>4 DEF StageOf, Waiting, Trying, Undoing
    <2> QED
        BY <1>0, <2>2, <2>4, <2>5, OneBatch
<1>4. ASSUME NEW pc \in {"conflict", "preload"}, UNCHANGED row, batch' = [batch EXCEPT ![b].pc = pc]
      PROVE  BatchTypes' /\ Stages'
    <2>1. PICK y : y = [batch[b] EXCEPT !.pc = pc]
        OBVIOUS
    <2>2. row' = [row EXCEPT ![b] = row[b]] /\ batch' = [batch EXCEPT ![b] = y]
        BY <1>0, <1>4, <2>1
    <2>4. /\ y \in BatchRecords /\ y.pc = pc /\ y.i = batch[b].i /\ y.fail = batch[b].fail
          /\ y.done = batch[b].done
        BY <1>0, <2>1 DEF BatchRecords, BatchPcs, Waiting
    <2>5. StageOf(b, row[b], y)
        BY <1>2, <2>4 DEF StageOf, Waiting, Trying, Undoing
    <2> QED
        BY <1>0, <2>2, <2>4, <2>5, OneBatch
<1>5. CASE Lookup(b)
    BY <1>3, <1>4, <1>5 DEF Lookup, SameBody
<1>6. CASE Preload(b)
    <2>1. \/ row' = [row EXCEPT ![b] = NewRow(b, "failed")] /\ batch' = [batch EXCEPT ![b].pc = "done", ![b].snap = content]
          \/ UNCHANGED row /\ batch' = [batch EXCEPT ![b].pc = "create", ![b].snap = content]
        BY <1>6 DEF Preload
    <2>2. CASE row' = [row EXCEPT ![b] = NewRow(b, "failed")] /\ batch' = [batch EXCEPT ![b].pc = "done", ![b].snap = content]
        <3>1. PICK x : x = NewRow(b, "failed")
            OBVIOUS
        <3>2. PICK y : y = [batch[b] EXCEPT !.pc = "done", !.snap = content]
            OBVIOUS
        <3>3. row' = [row EXCEPT ![b] = x] /\ batch' = [batch EXCEPT ![b] = y]
            BY <1>0, <2>2, <3>1, <3>2
        <3>4. y \in BatchRecords /\ y.pc = "done"
            BY <1>0, <3>2 DEF BatchRecords, BatchPcs
        <3>5. x \in Rows /\ x.status = "failed" /\ x.ops \in [Ops(b) -> OpStates] /\ \A k \in Ops(b) : x.ops[k] = "failed"
            BY <3>1, NewRows
        <3>6. ToSet(x.ops) = {"failed"}
            BY <3>5, OpNumbers DEF ToSet
        <3>7. Tells(b, x)
            BY <3>5, <3>6 DEF Tells
        <3>8. StageOf(b, x, y)
            BY <3>4, <3>7 DEF StageOf, Waiting, Trying, Undoing
        <3> QED
            BY <3>3, <3>4, <3>5, <3>8, OneBatch
    <2>3. CASE UNCHANGED row /\ batch' = [batch EXCEPT ![b].pc = "create", ![b].snap = content]
        <3>1. PICK y : y = [batch[b] EXCEPT !.pc = "create", !.snap = content]
            OBVIOUS
        <3>2. row' = [row EXCEPT ![b] = row[b]] /\ batch' = [batch EXCEPT ![b] = y]
            BY <1>0, <2>3, <3>1
        <3>3. /\ y \in BatchRecords /\ y.pc = "create" /\ y.i = batch[b].i /\ y.fail = batch[b].fail
              /\ y.done = batch[b].done
            BY <1>0, <3>1 DEF BatchRecords, BatchPcs, Waiting
        <3>4. StageOf(b, row[b], y)
            BY <1>2, <3>3 DEF StageOf, Waiting, Trying, Undoing
        <3> QED
            BY <1>0, <3>2, <3>3, <3>4, OneBatch
    <2> QED
        BY <2>1, <2>2, <2>3
<1>7. CASE Create(b)
    <2>1. CASE row' = [row EXCEPT ![b] = NewRow(b, "pending")] /\ batch' = [batch EXCEPT ![b].pc = "op"]
        <3>1. PICK x : x = NewRow(b, "pending")
            OBVIOUS
        <3>2. PICK y : y = [batch[b] EXCEPT !.pc = "op"]
            OBVIOUS
        <3>3. row' = [row EXCEPT ![b] = x] /\ batch' = [batch EXCEPT ![b] = y]
            BY <1>0, <2>1, <3>1, <3>2
        <3>4. y \in BatchRecords /\ y.pc = "op" /\ y.i = 1 /\ y.fail = 0 /\ y.done = <<>>
            BY <1>0, <1>2, <3>2 DEF BatchRecords, BatchPcs, Trying
        <3>5. x \in Rows /\ x.status = "pending" /\ x.ops \in [Ops(b) -> OpStates] /\ \A k \in Ops(b) : x.ops[k] = "pending"
            BY <3>1, NewRows
        <3>6. DoneUpTo(y, 0)
            BY <3>4 DEF DoneUpTo
        <3>7. InLoop(b, x, y)
            BY <3>4, <3>5, <3>6, OpNumbers DEF InLoop
        <3>8. StageOf(b, x, y)
            BY <3>4, <3>7 DEF StageOf, Waiting, Trying, Undoing
        <3> QED
            BY <3>3, <3>4, <3>5, <3>8, OneBatch
    <2> QED
        BY <1>3, <1>7, <2>1 DEF Create, SameBody
<1> QED
    BY <1>5, <1>6, <1>7

\* The loop records an operation as failed.
LEMMA FailedInLoop ==
    ASSUME BatchTypes, Stages, NEW b \in Batches, batch[b].pc \in Trying, OpFailed(b)
    PROVE  BatchTypes' /\ Stages'
<1>0. /\ row[b] \in Rows /\ batch[b] \in BatchRecords /\ InLoop(b, row[b], batch[b])
      /\ row \in [Batches -> Rows] /\ batch \in [Batches -> BatchRecords]
    BY DEF BatchTypes, Stages, StageOf
<1>1. PICK i \in Ops(b) : i = batch[b].i
    BY <1>0 DEF InLoop
<1>2. PICK o : o = [row[b].ops EXCEPT ![i] = "failed"]
    OBVIOUS
<1>3. /\ o \in [Ops(b) -> OpStates] /\ o \in AllOps
      /\ o[i] = "failed" /\ \A j \in Ops(b) \ {i} : o[j] = row[b].ops[j]
    <2>1. row[b].ops \in [Ops(b) -> OpStates]
        BY <1>0 DEF InLoop
    <2>2. "failed" \in OpStates
        BY DEF OpStates
    <2> QED
        BY <1>1, <1>2, <2>1, <2>2, OpsFields
<1>4. PICK x : x = [row[b] EXCEPT !.ops = o]
    OBVIOUS
<1>5. x \in Rows /\ x.ops = o /\ x.status = row[b].status
    <2>1. "pending" \in RowStates
        BY DEF RowStates
    <2> QED
        BY <1>0, <1>3, <1>4, <2>1, RowFields
<1>6. PICK fail : fail = IF batch[b].fail = 0 THEN i ELSE batch[b].fail
    OBVIOUS
<1>7. PICK pc : pc = IF RollbackOnFailure[b] \/ i = Len(OpsOf[b]) THEN "decide" ELSE "op"
    OBVIOUS
<1>8. PICK y : y = [batch[b] EXCEPT !.pc = pc, !.i = i + 1, !.fail = fail, !.done = batch[b].done]
    OBVIOUS
<1>9. row' = [row EXCEPT ![b] = x] /\ batch' = [batch EXCEPT ![b] = y]
    <2>1. row' = [row EXCEPT ![b] = x]
        BY <1>0, <1>1, <1>2, <1>4 DEF OpFailed
    <2>2. batch' = [batch EXCEPT ![b] = [batch[b] EXCEPT !.fail = fail, !.pc = pc, !.i = i + 1]]
        BY <1>0, <1>1, <1>6, <1>7 DEF OpFailed
    <2>3. y = [batch[b] EXCEPT !.fail = fail, !.pc = pc, !.i = i + 1]
        BY <1>0, <1>8 DEF BatchRecords
    <2> QED
        BY <2>1, <2>2, <2>3
<1>10. i \in Int /\ batch[b].fail \in Int /\ fail \in Int /\ pc \in {"decide", "op"}
    BY <1>0, <1>1, <1>6, <1>7, OpNumbers DEF BatchRecords
<1>11. y \in BatchRecords /\ y.pc = pc /\ y.fail = fail /\ y.i = i + 1 /\ y.done = batch[b].done
    <2>1. pc \in BatchPcs
        BY <1>7, Places
    <2>2. PICK j \in Int : j = i + 1
        BY <1>10
    <2>3. PICK d \in Seq(Int) : d = batch[b].done
        BY <1>0 DEF BatchRecords
    <2>4. y = [batch[b] EXCEPT !.pc = pc, !.i = j, !.fail = fail, !.done = d]
        BY <1>8, <2>2, <2>3
    <2>5. y \in BatchRecords /\ y.pc = pc /\ y.i = j /\ y.fail = fail /\ y.done = d
        <3>1. batch[b] \in BatchRecords /\ fail \in Int
            BY <1>0, <1>10
        <3> QED
            BY <2>1, <2>4, <3>1 DEF BatchRecords
    <2> QED
        BY <2>2, <2>3, <2>5
<1>12. fail \in Ops(b) /\ fail # 0 /\ o[fail] = "failed" /\ (RollbackOnFailure[b] => fail = i)
    BY <1>0, <1>1, <1>3, <1>6, OpNumbers DEF InLoop
<1>13. /\ \A k \in Ops(b) : k < i => row[b].ops[k] \in {"ok", "failed"}
       /\ \A k \in Ops(b) : k > i => row[b].ops[k] = "pending"
       /\ RollbackOnFailure[b] => \A k \in Ops(b) : k < i => row[b].ops[k] = "ok"
       /\ RollbackOnFailure[b] => DoneUpTo(batch[b], i - 1)
    BY <1>0, <1>1, OpNumbers DEF InLoop
<1>14. \A n : DoneUpTo(y, n) <=> DoneUpTo(batch[b], n)
    BY <1>11 DEF DoneUpTo
<1>15. CASE pc = "decide"
    <2>1. \A k \in Ops(b) : k < i => o[k] = row[b].ops[k]
        BY <1>3, OpNumbers
    <2>2. \A k \in Ops(b) : k > i => o[k] = "pending"
        BY <1>3, <1>13, OpNumbers
    <2>3. ~RollbackOnFailure[b] => \A k \in Ops(b) : k <= i
        BY <1>7, <1>15, OpNumbers
    <2>4. ~RollbackOnFailure[b] => \A k \in Ops(b) : o[k] \in {"ok", "failed"}
        BY <1>3, <1>13, <2>1, <2>3, OpNumbers
    <2>5. AfterLoop(b, x, y)
        BY <1>0, <1>3, <1>5, <1>11, <1>12, <1>13, <1>14, <2>1, <2>2, <2>4 DEF AfterLoop, InLoop
    <2>6. StageOf(b, x, y)
        BY <1>11, <1>15, <2>5 DEF StageOf, Waiting, Trying, Undoing
    <2> QED
        BY <1>5, <1>9, <1>11, <2>6, OneBatch
<1>16. CASE pc = "op"
    <2>1. ~RollbackOnFailure[b] /\ i + 1 \in Ops(b)
        BY <1>1, <1>7, <1>16, OpNumbers
    <2>2. \A k \in Ops(b) : IF k < i + 1 THEN o[k] \in {"ok", "failed"} ELSE o[k] = "pending"
        BY <1>3, <1>13, OpNumbers
    <2>3. InLoop(b, x, y)
        BY <1>0, <1>3, <1>5, <1>11, <1>12, <2>1, <2>2 DEF InLoop
    <2>4. StageOf(b, x, y)
        BY <1>11, <1>16, <2>3 DEF StageOf, Waiting, Trying, Undoing
    <2> QED
        BY <1>5, <1>9, <1>11, <2>4, OneBatch
<1> QED
    BY <1>10, <1>15, <1>16

\* The loop records an operation as done.
LEMMA DoneInLoop ==
    ASSUME BatchTypes, Stages, NEW b \in Batches, batch[b].pc \in Trying,
           NEW i, i = batch[b].i, row' = [row EXCEPT ![b].ops[i] = "ok"],
           batch' = [batch EXCEPT ![b].done = Append(batch[b].done, i), ![b].i = i + 1,
                                  ![b].pc = IF i = Len(OpsOf[b]) THEN "decide" ELSE "op"]
    PROVE  BatchTypes' /\ Stages'
<1>0. /\ row[b] \in Rows /\ batch[b] \in BatchRecords /\ InLoop(b, row[b], batch[b])
      /\ row \in [Batches -> Rows] /\ batch \in [Batches -> BatchRecords]
    BY DEF BatchTypes, Stages, StageOf
<1>1. i \in Ops(b)
    BY <1>0 DEF InLoop
<1>2. PICK o : o = [row[b].ops EXCEPT ![i] = "ok"]
    OBVIOUS
<1>3. /\ o \in [Ops(b) -> OpStates] /\ o \in AllOps
      /\ o[i] = "ok" /\ \A j \in Ops(b) \ {i} : o[j] = row[b].ops[j]
    <2>1. row[b].ops \in [Ops(b) -> OpStates]
        BY <1>0 DEF InLoop
    <2>2. "ok" \in OpStates
        BY DEF OpStates
    <2> QED
        BY <1>1, <1>2, <2>1, <2>2, OpsFields
<1>4. PICK x : x = [row[b] EXCEPT !.ops = o]
    OBVIOUS
<1>5. x \in Rows /\ x.ops = o /\ x.status = row[b].status
    <2>1. "pending" \in RowStates
        BY DEF RowStates
    <2> QED
        BY <1>0, <1>3, <1>4, <2>1, RowFields
<1>6. PICK done : done = Append(batch[b].done, i)
    OBVIOUS
<1>7. PICK pc : pc = IF i = Len(OpsOf[b]) THEN "decide" ELSE "op"
    OBVIOUS
<1>8. PICK y : y = [batch[b] EXCEPT !.pc = pc, !.i = i + 1, !.fail = batch[b].fail, !.done = done]
    OBVIOUS
<1>9. row' = [row EXCEPT ![b] = x] /\ batch' = [batch EXCEPT ![b] = y]
    <2>1. row' = [row EXCEPT ![b] = x]
        BY <1>0, <1>2, <1>4
    <2>2. batch' = [batch EXCEPT ![b] = [batch[b] EXCEPT !.done = done, !.i = i + 1, !.pc = pc]]
        BY <1>0, <1>6, <1>7
    <2>3. y = [batch[b] EXCEPT !.done = done, !.i = i + 1, !.pc = pc]
        BY <1>0, <1>8 DEF BatchRecords
    <2> QED
        BY <2>1, <2>2, <2>3
<1>10. /\ i \in Int /\ batch[b].done \in Seq(Int) /\ pc \in {"decide", "op"}
    BY <1>0, <1>1, <1>7, OpNumbers DEF BatchRecords
<1>11. /\ done \in Seq(Int) /\ Len(done) = Len(batch[b].done) + 1
       /\ done[Len(batch[b].done) + 1] = i
       /\ \A k \in 1 .. Len(batch[b].done) : done[k] = batch[b].done[k]
    <2>1. PICK d \in Seq(Int) : d = batch[b].done
        BY <1>10
    <2>2. /\ Append(d, i) \in Seq(Int) /\ Len(Append(d, i)) = Len(d) + 1
          /\ Append(d, i)[Len(d) + 1] = i /\ \A k \in 1 .. Len(d) : Append(d, i)[k] = d[k]
        BY <1>10, AppendProperties
    <2> QED
        BY <1>6, <2>1, <2>2
<1>12. y \in BatchRecords /\ y.pc = pc /\ y.fail = batch[b].fail /\ y.i = i + 1 /\ y.done = done
    <2>1. pc \in BatchPcs
        BY <1>7, Places
    <2>2. PICK j \in Int : j = i + 1
        BY <1>10
    <2>3. PICK fl \in Int : fl = batch[b].fail
        BY <1>0 DEF BatchRecords
    <2>4. y = [batch[b] EXCEPT !.pc = pc, !.i = j, !.fail = fl, !.done = done]
        BY <1>8, <2>2, <2>3
    <2>5. y \in BatchRecords /\ y.pc = pc /\ y.i = j /\ y.fail = fl /\ y.done = done
        <3>1. batch[b] \in BatchRecords /\ done \in Seq(Int)
            BY <1>0, <1>11
        <3> QED
            BY <2>1, <2>4, <3>1 DEF BatchRecords
    <2> QED
        BY <2>2, <2>3, <2>5
<1>13. RollbackOnFailure[b] => DoneUpTo(y, i)
    <2> SUFFICES ASSUME RollbackOnFailure[b] PROVE DoneUpTo(y, i)
        OBVIOUS
    <2>1. Len(batch[b].done) = i - 1 /\ \A k \in 1 .. i - 1 : batch[b].done[k] = k
        BY <1>0 DEF InLoop, DoneUpTo
    <2>2. Len(done) = i /\ done[i] = i /\ \A k \in 1 .. i - 1 : done[k] = k
        <3>1. (i - 1) + 1 = i
            BY <1>10
        <3> QED
            BY <1>11, <2>1, <3>1
    <2> QED
        BY <1>10, <1>12, <2>2 DEF DoneUpTo
<1>14. /\ \A k \in Ops(b) : IF k < i + 1 THEN o[k] \in {"ok", "failed"} ELSE o[k] = "pending"
       /\ batch[b].fail = 0 => \A k \in Ops(b) : k < i + 1 => o[k] = "ok"
       /\ batch[b].fail # 0 => /\ batch[b].fail \in Ops(b) /\ o[batch[b].fail] = "failed"
                               /\ ~RollbackOnFailure[b]
    <2>1. \A k \in Ops(b) : k \in Int
        BY OpNumbers
    <2>2. \A k \in Ops(b) : IF k < i THEN row[b].ops[k] \in {"ok", "failed"} ELSE row[b].ops[k] = "pending"
        BY <1>0 DEF InLoop
    <2>3. batch[b].fail = 0 => \A k \in Ops(b) : k < i => row[b].ops[k] = "ok"
        BY <1>0 DEF InLoop
    <2>4. batch[b].fail # 0 =>
            /\ batch[b].fail \in Ops(b) /\ row[b].ops[batch[b].fail] = "failed" /\ ~RollbackOnFailure[b]
        BY <1>0 DEF InLoop
    <2>5. row[b].ops[i] = "pending"
        BY <1>1, <2>1, <2>2
    <2>6. ASSUME NEW k \in Ops(b)
          PROVE  IF k < i + 1 THEN o[k] \in {"ok", "failed"} ELSE o[k] = "pending"
        <3>1. CASE k = i
            BY <1>3, <1>10, <3>1
        <3>2. CASE k # i
            <4>1. o[k] = row[b].ops[k] /\ (k < i + 1 <=> k < i)
                BY <1>3, <1>10, <2>1, <3>2
            <4> QED
                BY <2>2, <4>1
        <3> QED
            BY <3>1, <3>2
    <2>7. ASSUME batch[b].fail = 0, NEW k \in Ops(b), k < i + 1 PROVE o[k] = "ok"
        <3>1. CASE k = i
            BY <1>3, <3>1
        <3>2. CASE k # i
            <4>1. o[k] = row[b].ops[k] /\ k < i
                BY <1>3, <1>10, <2>1, <2>7, <3>2
            <4> QED
                BY <2>3, <2>7, <4>1
        <3> QED
            BY <3>1, <3>2
    <2>8. batch[b].fail # 0 => batch[b].fail # i
        BY <2>4, <2>5
    <2> QED
        BY <1>3, <2>4, <2>6, <2>7, <2>8
<1>15. CASE pc = "decide"
    <2>1. \A k \in Ops(b) : k < i + 1
        BY <1>7, <1>15, OpNumbers
    <2>2. AfterLoop(b, x, y)
        BY <1>0, <1>3, <1>5, <1>12, <1>14, <2>1 DEF AfterLoop, InLoop
    <2>3. StageOf(b, x, y)
        BY <1>12, <1>15, <2>2 DEF StageOf, Waiting, Trying, Undoing
    <2> QED
        BY <1>5, <1>9, <1>12, <2>3, OneBatch
<1>16. CASE pc = "op"
    <2>1. i + 1 \in Ops(b)
        BY <1>1, <1>7, <1>16, OpNumbers
    <2>2. RollbackOnFailure[b] => DoneUpTo(y, (i + 1) - 1)
        BY <1>10, <1>13
    <2>3. InLoop(b, x, y)
        BY <1>0, <1>3, <1>5, <1>12, <1>14, <2>1, <2>2 DEF InLoop
    <2>4. StageOf(b, x, y)
        BY <1>12, <1>16, <2>3 DEF StageOf, Waiting, Trying, Undoing
    <2> QED
        BY <1>5, <1>9, <1>12, <2>4, OneBatch
<1> QED
    BY <1>10, <1>15, <1>16

\* The handler waits for a sync it has called, or is about to call one.
LEMMA OnlyMoves ==
    ASSUME BatchTypes, Stages, NEW b \in Batches, NEW pc, UNCHANGED row,
           batch' = [batch EXCEPT ![b].pc = pc],
           \/ batch[b].pc = "op" /\ pc = "wait"
           \/ batch[b].pc = "undo" /\ batch[b].i # 0 /\ pc = "restored"
           \/ batch[b].pc = "restored" /\ pc = "resync"
    PROVE  BatchTypes' /\ Stages'
<1>0. /\ row[b] \in Rows /\ batch[b] \in BatchRecords /\ StageOf(b, row[b], batch[b])
      /\ row \in [Batches -> Rows] /\ batch \in [Batches -> BatchRecords]
    BY DEF BatchTypes, Stages
<1>1. PICK y : y = [batch[b] EXCEPT !.pc = pc]
    OBVIOUS
<1>2. row' = [row EXCEPT ![b] = row[b]] /\ batch' = [batch EXCEPT ![b] = y]
    BY <1>0, <1>1
<1>3. pc \in BatchPcs
    BY Places
<1>4. /\ y \in BatchRecords /\ y.pc = pc /\ y.i = batch[b].i /\ y.fail = batch[b].fail
      /\ y.done = batch[b].done
    BY <1>0, <1>1, <1>3 DEF BatchRecords
<1>5. StageOf(b, row[b], y)
    <2>1. CASE batch[b].pc = "op" /\ pc = "wait"
        <3>1. InLoop(b, row[b], y)
            BY <1>0, <1>4, <2>1 DEF StageOf, Trying, InLoop, DoneUpTo
        <3> QED
            BY <1>4, <2>1, <3>1 DEF StageOf, Waiting, Trying, Undoing
    <2>2. CASE batch[b].pc # "op"
        <3>1. InUndo(b, row[b], batch[b]) /\ batch[b].i # 0
            BY <1>0, <2>2 DEF StageOf, Undoing, InUndo
        <3>2. InUndo(b, row[b], y)
            BY <1>4, <3>1 DEF InUndo, DoneUpTo
        <3> QED
            BY <1>4, <2>2, <3>2 DEF StageOf, Waiting, Trying, Undoing
    <2> QED
        BY <2>1, <2>2
<1> QED
    BY <1>0, <1>2, <1>4, <1>5, OneBatch

\* The states among the operations of a row.
LEMMA AmongOps ==
    ASSUME NEW b \in Batches, NEW o \in [Ops(b) -> OpStates]
    PROVE  \A s : s \in ToSet(o) <=> \E k \in Ops(b) : o[k] = s
BY DEF ToSet

\* The handler ends with a status that tells what became of the operations.
LEMMA Finishes ==
    ASSUME BatchTypes, Stages, NEW b \in Batches, NEW s \in RowStates, Finish(b, s),
           \A x : (x.status = s /\ x.ops = row[b].ops) => Tells(b, x)
    PROVE  BatchTypes' /\ Stages'
<1>0. /\ row[b] \in Rows /\ batch[b] \in BatchRecords
      /\ row \in [Batches -> Rows] /\ batch \in [Batches -> BatchRecords]
    BY DEF BatchTypes
<1>1. PICK x : x = [row[b] EXCEPT !.status = s]
    OBVIOUS
<1>2. x \in Rows /\ x.status = s /\ x.ops = row[b].ops
    BY <1>0, <1>1 DEF Rows
<1>3. PICK y : y = [batch[b] EXCEPT !.pc = "done"]
    OBVIOUS
<1>4. y \in BatchRecords /\ y.pc = "done"
    BY <1>0, <1>3, Places DEF BatchRecords
<1>5. row' = [row EXCEPT ![b] = x] /\ batch' = [batch EXCEPT ![b] = y]
    BY <1>0, <1>1, <1>3 DEF Finish
<1>6. StageOf(b, x, y)
    <2>1. Tells(b, x)
        BY <1>2
    <2> QED
        BY <1>4, <2>1 DEF StageOf, Waiting, Trying, Undoing
<1> QED
    BY <1>2, <1>4, <1>5, <1>6, OneBatch

\* The summary without an undoing.
LEMMA EndWithoutUndo ==
    ASSUME BatchTypes, Stages, NEW b \in Batches, DecideEnd(b)
    PROVE  BatchTypes' /\ Stages'
<1>1. AfterLoop(b, row[b], batch[b])
    BY DEF Stages, StageOf, DecideEnd
<1>2. PICK o \in [Ops(b) -> OpStates] : o = row[b].ops
    BY <1>1 DEF AfterLoop
<1>3. \A s : s \in ToSet(o) <=> \E k \in Ops(b) : o[k] = s
    BY AmongOps
<1>4. CASE batch[b].fail = 0
    <2>1. Finish(b, "ok")
        BY <1>4 DEF DecideEnd
    <2>2. ToSet(o) = {"ok"}
        BY <1>1, <1>2, <1>3, <1>4, OpNumbers DEF AfterLoop
    <2>3. \A x : (x.status = "ok" /\ x.ops = o) => Tells(b, x)
        BY <2>2 DEF Tells
    <2>4. "ok" \in RowStates
        BY DEF RowStates
    <2> QED
        BY <1>2, <2>1, <2>3, <2>4, Finishes
<1>5. CASE batch[b].fail # 0
    <2>1. ~RollbackOnFailure[b]
        BY <1>5 DEF DecideEnd
    <2>2. PICK k \in Ops(b) : o[k] = "failed"
        BY <1>1, <1>2, <1>5 DEF AfterLoop
    <2>3. ToSet(o) \subseteq {"ok", "failed"} /\ "failed" \in ToSet(o)
        BY <1>1, <1>2, <1>3, <1>5, <2>1, <2>2 DEF AfterLoop
    <2>4. CASE "ok" \in ToSet(o)
        <3>1. Finish(b, "partial")
            BY <1>2, <1>5, <2>4 DEF DecideEnd
        <3>2. \A x : (x.status = "partial" /\ x.ops = o) => Tells(b, x)
            BY <2>1, <2>3, <2>4 DEF Tells
        <3>3. "partial" \in RowStates
            BY DEF RowStates
        <3> QED
            BY <1>2, <3>1, <3>2, <3>3, Finishes
    <2>5. CASE "ok" \notin ToSet(o)
        <3>1. Finish(b, "failed")
            BY <1>2, <1>5, <2>5 DEF DecideEnd
        <3>2. ToSet(o) = {"failed"}
            BY <2>3, <2>5
        <3>3. \A x : (x.status = "failed" /\ x.ops = o) => Tells(b, x)
            BY <2>1, <3>2 DEF Tells
        <3>4. "failed" \in RowStates
            BY DEF RowStates
        <3> QED
            BY <1>2, <3>1, <3>3, <3>4, Finishes
    <2> QED
        BY <2>4, <2>5
<1> QED
    BY <1>4, <1>5

\* The summary of a batch that was undone.
LEMMA EndOfUndo ==
    ASSUME BatchTypes, Stages, NEW b \in Batches, UndoEnd(b)
    PROVE  BatchTypes' /\ Stages'
<1>1. InUndo(b, row[b], batch[b]) /\ batch[b].i = 0
    BY DEF Stages, StageOf, UndoEnd, Undoing
<1>2. PICK o \in [Ops(b) -> OpStates] : o = row[b].ops
    BY <1>1 DEF InUndo
<1>3. \A s : s \in ToSet(o) <=> \E k \in Ops(b) : o[k] = s
    BY AmongOps
<1>4. PICK n \in Ops(b) : n = batch[b].fail
    BY <1>1 DEF InUndo
<1>5. /\ o[n] = "failed"
      /\ \A k \in Ops(b) : k < n => o[k] \in {"rolled_back", "rollback_failed"}
      /\ \A k \in Ops(b) : k > n => o[k] = "skipped"
    <2>1. o[n] = "failed" /\ \A k \in Ops(b) : k > n => o[k] = "skipped"
        BY <1>1, <1>2, <1>4 DEF InUndo
    <2>2. \A k \in Ops(b) : 0 < k
        BY OpNumbers
    <2>3. \A k \in Ops(b) : 0 < k /\ k < n => o[k] \in {"rolled_back", "rollback_failed"}
        BY <1>1, <1>2, <1>4 DEF InUndo
    <2> QED
        BY <2>1, <2>2, <2>3
<1>6. "failed" \in ToSet(o)
    BY <1>3, <1>5
<1>7. ASSUME NEW s \in {"partial", "rolled_back"}, s = "partial" <=> "rollback_failed" \in ToSet(o),
             NEW x, x.status = s, x.ops = o
      PROVE  Tells(b, x)
    <2>1. RollbackOnFailure[b]
        BY <1>1 DEF InUndo
    <2> QED
        BY <1>5, <1>6, <1>7, <2>1 DEF Tells
<1>8. PICK s : s = IF "rollback_failed" \in ToSet(o) THEN "partial" ELSE "rolled_back"
    OBVIOUS
<1>9. s \in {"partial", "rolled_back"} /\ s \in RowStates
    BY <1>8 DEF RowStates
<1>10. Finish(b, s)
    BY <1>2, <1>8 DEF UndoEnd
<1>11. \A x : (x.status = s /\ x.ops = o) => Tells(b, x)
    <2>1. s = "partial" <=> "rollback_failed" \in ToSet(o)
        BY <1>8
    <2> QED
        BY <1>7, <1>9, <2>1
<1> QED
    BY <1>2, <1>9, <1>10, <1>11, Finishes

\* The undoing begins: the operations that were never tried are skipped.
LEMMA UndoBegins ==
    ASSUME BatchTypes, Stages, NEW b \in Batches, DecideUndo(b)
    PROVE  BatchTypes' /\ Stages'
<1>0. /\ row[b] \in Rows /\ batch[b] \in BatchRecords /\ AfterLoop(b, row[b], batch[b])
      /\ row \in [Batches -> Rows] /\ batch \in [Batches -> BatchRecords]
    BY DEF BatchTypes, Stages, StageOf, DecideUndo
<1>1. PICK n \in Ops(b) : n = batch[b].fail
    BY <1>0 DEF AfterLoop, DecideUndo
<1>2. PICK o \in [Ops(b) -> OpStates] : o = row[b].ops
    BY <1>0 DEF AfterLoop
<1>3. /\ RollbackOnFailure[b] /\ n # 0 /\ o[n] = "failed" /\ DoneUpTo(batch[b], n - 1)
      /\ \A k \in Ops(b) : k < n => o[k] = "ok"
      /\ \A k \in Ops(b) : k > n => o[k] = "pending"
    BY <1>0, <1>1, <1>2 DEF AfterLoop, DecideUndo
<1>4. PICK p : p = [k \in Ops(b) |-> IF k > n /\ o[k] = "pending" THEN "skipped" ELSE o[k]]
    OBVIOUS
<1>5. /\ p \in [Ops(b) -> OpStates] /\ p[n] = "failed"
      /\ \A k \in Ops(b) : k < n => p[k] = "ok"
      /\ \A k \in Ops(b) : k > n => p[k] = "skipped"
    <2>1. "skipped" \in OpStates
        BY DEF OpStates
    <2>2. \A k \in Ops(b) : p[k] = IF k > n /\ o[k] = "pending" THEN "skipped" ELSE o[k]
        BY <1>4
    <2>3. p \in [Ops(b) -> OpStates]
        BY <1>4, <2>1
    <2>4. \A k \in Ops(b) : k > n => p[k] = "skipped"
        BY <1>3, <2>2
    <2>5. \A k \in Ops(b) : k < n => ~(k > n)
        BY OpNumbers
    <2>6. ~(n > n)
        BY OpNumbers
    <2> QED
        BY <1>3, <2>2, <2>3, <2>4, <2>5, <2>6
<1>6. p \in AllOps
    BY <1>5 DEF AllOps
<1>7. PICK x : x = [row[b] EXCEPT !.ops = p]
    OBVIOUS
<1>8. x \in Rows /\ x.ops = p /\ x.status = "pending"
    <2>1. row[b].status = "pending"
        BY <1>0 DEF AfterLoop
    <2> QED
        BY <1>0, <1>6, <1>7, <2>1 DEF Rows
<1>9. PICK j \in Int : j = Len(batch[b].done)
    BY <1>0 DEF BatchRecords
<1>10. PICK y : y = [batch[b] EXCEPT !.pc = "undo", !.i = j]
    OBVIOUS
<1>11. y \in BatchRecords /\ y.pc = "undo" /\ y.i = j /\ y.fail = n /\ y.done = batch[b].done
    BY <1>0, <1>1, <1>10, Places DEF BatchRecords
<1>12. row' = [row EXCEPT ![b] = x] /\ batch' = [batch EXCEPT ![b] = y]
    <2>1. row' = [row EXCEPT ![b] = x]
        BY <1>0, <1>1, <1>2, <1>4, <1>7 DEF DecideUndo
    <2>2. batch' = [batch EXCEPT ![b] = y]
        BY <1>0, <1>9, <1>10 DEF DecideUndo
    <2> QED
        BY <2>1, <2>2
<1>13. InUndo(b, x, y)
    <2>1. n \in Nat \ {0} /\ \A k \in Ops(b) : k \in Nat
        BY OpNumbers
    <2>2. j = n - 1 /\ DoneUpTo(y, n - 1)
        BY <1>3, <1>9, <1>11 DEF DoneUpTo
    <2>3. j \in 0 .. n - 1
        BY <2>1, <2>2
    <2>4. \A k \in Ops(b) : k <= j => p[k] = "ok"
        BY <1>5, <2>1, <2>2
    <2>5. \A k \in Ops(b) : ~(j < k /\ k < n)
        BY <2>1, <2>2
    <2> QED
        BY <1>3, <1>5, <1>8, <1>11, <2>2, <2>3, <2>4, <2>5 DEF InUndo
<1>14. StageOf(b, x, y)
    BY <1>11, <1>13 DEF StageOf, Waiting, Trying, Undoing
<1> QED
    BY <1>8, <1>11, <1>12, <1>14, OneBatch

\* One operation has been undone, or not.
LEMMA UndoGoesOn ==
    ASSUME BatchTypes, Stages, NEW b \in Batches, batch[b].pc \in Undoing, batch[b].i # 0,
           NEW s \in {"rolled_back", "rollback_failed"}, UndoResult(b, s)
    PROVE  BatchTypes' /\ Stages'
<1>0. /\ row[b] \in Rows /\ batch[b] \in BatchRecords /\ InUndo(b, row[b], batch[b])
      /\ row \in [Batches -> Rows] /\ batch \in [Batches -> BatchRecords]
    BY DEF BatchTypes, Stages, StageOf
<1>1. PICK n \in Ops(b) : n = batch[b].fail
    BY <1>0 DEF InUndo
<1>2. n \in Nat \ {0} /\ \A k \in Ops(b) : k \in Nat
    BY OpNumbers
<1>3. PICK i \in 1 .. n - 1 : i = batch[b].i
    BY <1>0, <1>1, <1>2 DEF InUndo
<1>4. i \in Ops(b) /\ i \in Int
    BY <1>2, <1>3, OpNumbers
<1>5. Undone(b) = i
    <2>1. \A k \in 1 .. n - 1 : batch[b].done[k] = k
        BY <1>0, <1>1 DEF InUndo, DoneUpTo
    <2> QED
        BY <1>3, <2>1 DEF Undone
<1>6. PICK o \in [Ops(b) -> OpStates] : o = row[b].ops
    BY <1>0 DEF InUndo
<1>7. PICK p : p = [o EXCEPT ![i] = s]
    OBVIOUS
<1>8. /\ p \in [Ops(b) -> OpStates] /\ p \in AllOps
      /\ p[i] = s /\ \A k \in Ops(b) \ {i} : p[k] = o[k]
    <2>1. s \in OpStates
        BY DEF OpStates
    <2> QED
        BY <1>4, <1>7, <2>1, OpsFields
<1>9. PICK x : x = [row[b] EXCEPT !.ops = p]
    OBVIOUS
<1>10. x \in Rows /\ x.ops = p /\ x.status = "pending"
    <2>1. row[b].status = "pending"
        BY <1>0 DEF InUndo
    <2> QED
        BY <1>0, <1>8, <1>9, <2>1 DEF Rows
<1>11. PICK j \in Int : j = i - 1
    BY <1>4
<1>12. PICK y : y = [batch[b] EXCEPT !.pc = "undo", !.i = j]
    OBVIOUS
<1>13. y \in BatchRecords /\ y.pc = "undo" /\ y.i = j /\ y.fail = n /\ y.done = batch[b].done
    BY <1>0, <1>1, <1>12, Places DEF BatchRecords
<1>14. row' = [row EXCEPT ![b] = x] /\ batch' = [batch EXCEPT ![b] = y]
    <2>1. row' = [row EXCEPT ![b] = x]
        <3>1. row' = [row EXCEPT ![b].ops[i] = s]
            BY <1>5 DEF UndoResult
        <3> QED
            BY <1>0, <1>6, <1>7, <1>9, <3>1
    <2>2. batch' = [batch EXCEPT ![b] = y]
        BY <1>0, <1>3, <1>11, <1>12 DEF UndoResult
    <2> QED
        BY <2>1, <2>2
<1>15. InUndo(b, x, y)
    <2>1. /\ o[n] = "failed" /\ \A k \in Ops(b) : k > n => o[k] = "skipped"
          /\ \A k \in Ops(b) : k <= i => o[k] = "ok"
          /\ \A k \in Ops(b) : i < k /\ k < n => o[k] \in {"rolled_back", "rollback_failed"}
          /\ DoneUpTo(batch[b], n - 1) /\ RollbackOnFailure[b]
        BY <1>0, <1>1, <1>3, <1>6 DEF InUndo
    <2>2. p[n] = "failed" /\ \A k \in Ops(b) : k > n => p[k] = "skipped"
        <3>1. i # n /\ \A k \in Ops(b) : k > n => k # i
            BY <1>2, <1>3
        <3> QED
            BY <1>8, <2>1, <3>1
    <2>3. \A k \in Ops(b) : k <= j => p[k] = "ok"
        <3>1. \A k \in Ops(b) : k <= j => k <= i /\ k # i
            BY <1>2, <1>4, <1>11
        <3> QED
            BY <1>8, <2>1, <3>1
    <2>4. \A k \in Ops(b) : j < k /\ k < n => p[k] \in {"rolled_back", "rollback_failed"}
        <3>1. \A k \in Ops(b) : j < k /\ k # i => i < k
            BY <1>2, <1>4, <1>11
        <3> QED
            BY <1>8, <2>1, <3>1
    <2>5. j \in 0 .. n - 1
        BY <1>2, <1>3, <1>11
    <2>6. DoneUpTo(y, n - 1)
        BY <1>13, <2>1 DEF DoneUpTo
    <2> QED
        BY <1>8, <1>10, <1>13, <2>1, <2>2, <2>3, <2>4, <2>5, <2>6 DEF InUndo
<1>16. StageOf(b, x, y)
    BY <1>13, <1>15 DEF StageOf, Waiting, Trying, Undoing
<1> QED
    BY <1>10, <1>13, <1>14, <1>16, OneBatch

\* The process dies.
LEMMA CrashKeepsStages ==
    ASSUME BatchTypes, Stages, Crash
    PROVE  BatchTypes' /\ Stages'
<1>1. /\ row' = row
      /\ batch' = [b \in Batches |->
           IF batch[b].pc \in {"lookup", "done", "replied", "conflict"} THEN batch[b]
           ELSE [batch[b] EXCEPT !.pc = "lost"]]
    BY DEF Crash
<1>2. ASSUME NEW b \in Batches
      PROVE  batch'[b] \in BatchRecords /\ StageOf(b, row[b], batch'[b])
    <2>1. batch[b] \in BatchRecords /\ StageOf(b, row[b], batch[b]) /\ row[b] \in Rows
        BY DEF BatchTypes, Stages
    <2>2. CASE batch'[b] = batch[b]
        BY <2>1, <2>2
    <2>3. CASE batch'[b] # batch[b]
        <3>1. batch'[b] = [batch[b] EXCEPT !.pc = "lost"] /\ batch[b].pc # "done"
            BY <1>1, <2>3
        <3>2. PICK y : y = [batch[b] EXCEPT !.pc = "lost"]
            OBVIOUS
        <3>3. y \in BatchRecords /\ y.pc = "lost"
            BY <2>1, <3>2, Places DEF BatchRecords
        <3>4. batch[b].pc # "lost" \/ row[b].status \in {"none", "pending"}
            BY <2>1 DEF StageOf
        <3>5. batch[b].pc \in BatchPcs
            BY <2>1 DEF BatchRecords
        <3>6. row[b].status \in {"none", "pending"}
            <4>1. CASE batch[b].pc \in Waiting
                BY <2>1, <4>1 DEF StageOf, NoRow
            <4>2. CASE batch[b].pc \in Trying
                BY <2>1, <4>2 DEF StageOf, InLoop
            <4>3. CASE batch[b].pc \in Undoing
                BY <2>1, <4>3 DEF StageOf, InUndo
            <4>4. CASE batch[b].pc = "decide"
                BY <2>1, <4>4 DEF StageOf, AfterLoop
            <4> QED
                BY <3>1, <3>4, <3>5, <4>1, <4>2, <4>3, <4>4 DEF BatchPcs
        <3>7. StageOf(b, row[b], y)
            BY <3>3, <3>6 DEF StageOf, Waiting, Trying, Undoing
        <3> QED
            BY <3>1, <3>2, <3>3, <3>7
    <2> QED
        BY <2>2, <2>3
<1>3. BatchTypes'
    BY <1>1, <1>2 DEF BatchTypes
<1>4. \A b \in Batches : StageOf(b, row'[b], batch'[b])
    BY <1>1, <1>2
<1> QED
    BY <1>3, <1>4 DEF Stages

\* The handler of a batch makes a step.
LEMMA RunKeepsStages ==
    ASSUME BatchTypes, Stages, content \in [Files -> Int], NEW b \in Batches, Run(b)
    PROVE  BatchTypes' /\ Stages'
<1>1. CASE Lookup(b) \/ Preload(b) \/ Create(b)
    BY <1>1, BeforeLoop
<1>2. CASE OpMissing(b)
    <2>1. batch[b].pc \in Trying /\ OpFailed(b)
        BY <1>2 DEF OpMissing, Trying
    <2> QED
        BY <2>1, FailedInLoop
<1>3. CASE OpCall(b)
    <2>1. UNCHANGED row /\ batch' = [batch EXCEPT ![b].pc = "wait"] /\ batch[b].pc = "op"
        BY <1>3 DEF OpCall
    <2> QED
        BY <2>1, OnlyMoves
<1>4. CASE OpDone(b)
    <2>1. batch[b].pc \in Trying
        BY <1>4 DEF OpDone, Trying
    <2>2. CASE OpFailed(b)
        BY <2>1, <2>2, FailedInLoop
    <2>3. CASE ~OpFailed(b)
        <3>1. PICK i : i = batch[b].i
            OBVIOUS
        <3>2. /\ row' = [row EXCEPT ![b].ops[i] = "ok"]
              /\ batch' = [batch EXCEPT ![b].done = Append(batch[b].done, i), ![b].i = i + 1,
                             ![b].pc = IF i = Len(OpsOf[b]) THEN "decide" ELSE "op"]
            <4>1. /\ row' = [row EXCEPT ![b].ops[i] = "ok"]
                  /\ batch' = [batch EXCEPT ![b].done = Append(@, i), ![b].i = i + 1,
                                 ![b].pc = IF i = Len(OpsOf[b]) THEN "decide" ELSE "op"]
                BY <1>4, <2>3, <3>1, Zenon DEF OpDone
            <4>2. batch \in [Batches -> BatchRecords]
                BY DEF BatchTypes
            <4> QED
                BY <4>1, <4>2
        <3> QED
            BY <2>1, <3>1, <3>2, DoneInLoop
    <2> QED
        BY <2>2, <2>3
<1>5. CASE DecideUndo(b)
    BY <1>5, UndoBegins
<1>6. CASE DecideEnd(b)
    BY <1>6, EndWithoutUndo
<1>7. CASE UndoRestore(b)
    <2>1. UNCHANGED row /\ batch' = [batch EXCEPT ![b].pc = "restored"] /\ batch[b].pc = "undo" /\ batch[b].i # 0
        <3>1. UNCHANGED row /\ batch' = [batch EXCEPT ![b].pc = "restored"] /\ batch[b].pc = "undo" /\ batch[b].i > 0
            BY <1>7 DEF UndoRestore
        <3>2. batch[b].i > 0 => batch[b].i # 0
            OBVIOUS
        <3> QED
            BY <3>1, <3>2
    <2> QED
        BY <2>1, OnlyMoves
<1>8. CASE UndoFails(b)
    <2>1. batch[b].pc \in Undoing /\ UndoResult(b, "rollback_failed")
        BY <1>8 DEF UndoFails, Undoing
    <2>2. batch[b].i # 0
        BY <1>8 DEF UndoFails
    <2> QED
        BY <2>1, <2>2, UndoGoesOn
<1>9. CASE UndoCall(b)
    <2>1. UNCHANGED row /\ batch' = [batch EXCEPT ![b].pc = "resync"] /\ batch[b].pc = "restored"
        BY <1>9 DEF UndoCall
    <2> QED
        BY <2>1, OnlyMoves
<1>10. CASE UndoDone(b)
    <2>1. batch[b].pc = "resync"
        BY <1>10 DEF UndoDone
    <2>2. batch[b].pc \in Undoing
        BY <2>1 DEF Undoing
    <2>3. InUndo(b, row[b], batch[b])
        BY <2>2 DEF Stages, StageOf
    <2>4. batch[b].i # 0
        BY <2>1, <2>3 DEF InUndo
    <2>5. PICK s : s = IF sync[b].outcome = "ok" THEN "rolled_back" ELSE "rollback_failed"
        OBVIOUS
    <2>6. UndoResult(b, s) /\ s \in {"rolled_back", "rollback_failed"}
        BY <1>10, <2>5 DEF UndoDone
    <2> QED
        BY <2>2, <2>4, <2>6, UndoGoesOn
<1>11. CASE UndoEnd(b)
    BY <1>11, EndOfUndo
<1> QED
    BY <1>1, <1>2, <1>3, <1>4, <1>5, <1>6, <1>7, <1>8, <1>9, <1>10, <1>11 DEF Run

\* Steps around the batches leave them alone.
LEMMA BatchNextKeepsStages ==
    ASSUME BatchTypes, Stages, content \in [Files -> Int], [BatchNext]_vars
    PROVE  BatchTypes' /\ Stages'
<1>1. CASE UNCHANGED <<row, batch>>
    BY <1>1 DEF BatchTypes, Stages
<1>2. CASE Crash
    BY <1>2, CrashKeepsStages
<1>3. CASE \E b \in Batches : Run(b)
    BY <1>3, RunKeepsStages
<1> QED
    BY <1>1, <1>2, <1>3 DEF BatchNext, vars, batchVars

\* What the stages say of a batch that has ended.
LEMMA StagesTell == BatchTypes /\ Stages => StatusTellsOps
<1> SUFFICES ASSUME BatchTypes, Stages, NEW b \in Batches, row[b].status \notin {"none", "pending"}
             PROVE  Tells(b, row[b])
    BY DEF StatusTellsOps
<1>1. batch[b].pc \in BatchPcs /\ StageOf(b, row[b], batch[b])
    BY DEF BatchTypes, BatchRecords, Stages
<1>2. batch[b].pc \notin Waiting
    BY <1>1 DEF StageOf, NoRow
<1>3. batch[b].pc \notin Trying
    BY <1>1 DEF StageOf, InLoop
<1>4. batch[b].pc \notin Undoing
    BY <1>1 DEF StageOf, InUndo
<1>5. batch[b].pc \notin {"decide", "lost"}
    BY <1>1 DEF StageOf, AfterLoop
<1> QED
    BY <1>1, <1>2, <1>3, <1>4, <1>5 DEF StageOf, BatchPcs

-----------------------------------------------------------------------------
(* Batches and the syncs they call. *)

\* The operation that is being undone.
LEMMA UndoneOp ==
    ASSUME BatchTypes, Stages, NEW b \in Batches, batch[b].pc \in Undoing, batch[b].i # 0
    PROVE  Undone(b) = batch[b].i /\ Undone(b) \in Ops(b) /\ OpsOf[b][Undone(b)] \in Files
<1>1. InUndo(b, row[b], batch[b])
    BY DEF Stages, StageOf
<1>2. PICK n \in Ops(b) : n = batch[b].fail
    BY <1>1 DEF InUndo
<1>3. n \in Nat /\ n \in 1 .. Len(OpsOf[b]) /\ Len(OpsOf[b]) \in Nat
    BY OpNumbers
<1>4. PICK i \in 1 .. n - 1 : i = batch[b].i
    BY <1>1, <1>2, <1>3 DEF InUndo
<1>5. batch[b].done[i] = i
    BY <1>1, <1>2, <1>4 DEF InUndo, DoneUpTo
<1>6. i \in Ops(b)
    BY <1>3, <1>4, OpNumbers
<1> QED
    BY <1>4, <1>5, <1>6, OpNumbers DEF Undone

\* The handler that undoes an operation waits for the sync of its file.
Restoring == \A b \in Batches : batch[b].pc = "resync" => sync[b].file = OpsOf[b][Undone(b)]

\* The invariant of syncs and batches.
BatchInv == EditorsInv /\ SyncInv /\ BatchTypes /\ Stages /\ Restoring

\* The handler forgets a sync that has ended.
LEMMA ForgetKeepsSyncs ==
    ASSUME EditorsInv, SyncInv, NEW b \in Syncers, sync' = [sync EXCEPT ![b] = NoSync],
           UNCHANGED <<fileVars, host, editorVars, secretVars>>
    PROVE  EditorsInv' /\ SyncInv'
<1>1. UNCHANGED <<content, syncStatus, history, ever, host, editor, secret>>
    BY DEF fileVars, editorVars, secretVars
<1>2. sync \in [Syncers -> SyncRecords]
    BY DEF SyncInv, SyncTypes
<1>3. sync' \in [Syncers -> SyncRecords] /\ \A p \in Syncers : sync'[p] = sync[p] \/ sync'[p] = NoSync
    BY <1>2, SyncFacts
<1>4. NoSync.pc = "idle"
    BY DEF NoSync
<1> QED
    BY <1>1, <1>3, <1>4, RestKeepsSyncs, SyncsLeaveEditors

\* Restoring the content from before the batch is an edit like any other.
LEMMA RestoreKeepsSyncs ==
    ASSUME EditorsInv, SyncInv, BatchTypes, Stages, NEW b \in Batches, UndoRestore(b)
    PROVE  EditorsInv' /\ SyncInv'
<1>1. batch[b].pc \in Undoing /\ batch[b].i # 0
    BY DEF UndoRestore, Undoing
<1>2. PICK f \in Files : f = OpsOf[b][Undone(b)]
    BY <1>1, UndoneOp
<1>3. PICK v \in Int : v = batch[b].snap[f]
    <2>1. batch[b].snap \in [Files -> Int]
        BY DEF BatchTypes, BatchRecords
    <2> QED
        BY <2>1
<1>4. /\ Store(f, v) /\ history' = [history EXCEPT ![f] = @ \cup {content[f]}]
      /\ UNCHANGED <<host, editor, secret>>
    BY <1>2, <1>3 DEF UndoRestore, editorVars, secretVars
<1>5. FileTypes /\ SyncTypes
    BY DEF EditorsInv, SyncInv
<1>6. /\ content' \in [Files -> Int] /\ ever' \in [Files -> SUBSET Int]
      /\ \A g \in Files \ {f} : content'[g] = content[g]
      /\ syncStatus' \in [ServiceFiles -> {"never", "pending", "synced"}]
      /\ \A r \in ServiceFiles : FileOf[r] # f => syncStatus'[r] = syncStatus[r]
      /\ sync' = Disturbed(f)
    BY <1>4, <1>5, StoreTypes
<1>7. history' \in [Files -> SUBSET Int]
    BY <1>4, <1>5 DEF FileTypes
<1>8. EditorsInv'
    BY <1>4, <1>6, <1>7 DEF EditorsInv, FileTypes
<1>9. SyncInv'
    BY <1>4, <1>6, StoreKeepsSyncs
<1> QED
    BY <1>8, <1>9

\* The handler of a batch makes a step.
LEMMA RunKeepsSyncs ==
    ASSUME EditorsInv, SyncInv, BatchTypes, Stages, NEW b \in Batches, Run(b)
    PROVE  EditorsInv' /\ SyncInv'
<1>0. b \in Syncers
    BY OpNumbers
<1>1. CASE \/ Lookup(b) \/ Preload(b) \/ Create(b) \/ OpMissing(b)
           \/ DecideUndo(b) \/ DecideEnd(b) \/ UndoFails(b) \/ UndoEnd(b)
    <2>1. UNCHANGED syncVars
        BY <1>1 DEF Lookup, Preload, Create, OpMissing, DecideUndo, DecideEnd, UndoFails, UndoEnd
    <2> QED
        BY <2>1, SyncStutter, SyncsLeaveEditors DEF syncVars
<1>2. ASSUME NEW f \in Files, SyncBegin(b, f) PROVE EditorsInv' /\ SyncInv'
    BY <1>0, <1>2, BeginKeepsSyncs, SyncLeavesFiles, SyncsLeaveEditors
<1>3. CASE OpCall(b)
    <2>1. batch[b].pc \in Trying /\ SyncBegin(b, FileAt(b))
        BY <1>3 DEF OpCall, Trying
    <2>2. batch[b].i \in Ops(b)
        BY <2>1 DEF Stages, StageOf, InLoop
    <2>3. FileAt(b) \in Files
        BY <2>2, OpNumbers DEF FileAt
    <2> QED
        BY <1>2, <2>1, <2>3
<1>4. CASE UndoCall(b)
    <2>1. batch[b].pc = "restored" /\ SyncBegin(b, OpsOf[b][Undone(b)])
        BY <1>4 DEF UndoCall
    <2>2. batch[b].pc \in Undoing
        BY <2>1 DEF Undoing
    <2>3. batch[b].i # 0
        BY <2>1, <2>2 DEF Stages, StageOf, InUndo
    <2> QED
        BY <1>2, <2>1, <2>2, <2>3, UndoneOp
<1>5. CASE OpDone(b) \/ UndoDone(b)
    <2>1. sync' = [sync EXCEPT ![b] = NoSync] /\ UNCHANGED <<fileVars, host, editorVars, secretVars>>
        BY <1>5 DEF OpDone, UndoDone
    <2> QED
        BY <1>0, <2>1, ForgetKeepsSyncs
<1>6. CASE UndoRestore(b)
    BY <1>6, RestoreKeepsSyncs
<1> QED
    BY <1>1, <1>3, <1>4, <1>5, <1>6 DEF Run

\* The process dies, and its syncs with it.
LEMMA CrashKeepsSyncs ==
    ASSUME EditorsInv, SyncInv, Crash PROVE EditorsInv' /\ SyncInv'
<1>1. /\ sync' = [p \in Syncers |-> IF sync[p].pc = "idle" THEN NoSync
                                    ELSE [NoSync EXCEPT !.pc = "done", !.outcome = "lost"]]
      /\ editor' = [e \in Editors |-> NoEdit]
      /\ UNCHANGED <<content, history, syncStatus, ever, host, secret>>
    BY DEF Crash
<1>2. PICK z : z = [NoSync EXCEPT !.pc = "done", !.outcome = "lost"]
    OBVIOUS
<1>3. z \in SyncRecords /\ z.pc = "done" /\ z.outcome = "lost" /\ NoSync \in SyncRecords /\ NoSync.pc = "idle"
    BY <1>2, SyncFacts DEF NoSync, SyncRecords, SyncPcs, Outcomes
<1>4. sync' \in [Syncers -> SyncRecords] /\ \A p \in Syncers : sync'[p] = NoSync \/ sync'[p] = z
    BY <1>1, <1>2, <1>3
<1>5. SyncInv'
    BY <1>1, <1>3, <1>4, RestKeepsSyncs
<1>6. EditorsInv'
    <2>1. NoEdit \in EditRecords /\ NoEdit.pc = "idle"
        BY VersionsAreNumbers DEF NoEdit
    <2> QED
        BY <1>1, <2>1 DEF EditorsInv, FileTypes
<1> QED
    BY <1>5, <1>6

\* The steps around the batches are steps of module ConfigFileSync.
LEMMA AroundKeepsSyncs ==
    ASSUME EditorsInv, SyncInv, Around PROVE EditorsInv' /\ SyncInv'
<1>1. Next
    BY DEF Around, Next
<1> QED
    BY <1>1, SyncNext

\* A sync has one file from its beginning to its end.
LEMMA SyncFileStays ==
    ASSUME SyncTypes, NEW b \in Syncers,
           \/ UNCHANGED sync
           \/ \E p \in Syncers \ {b} : \E f : SyncBegin(p, f)
           \/ \E p \in Syncers : SyncStep(p)
           \/ \E f : sync' = Disturbed(f)
           \/ \E p \in Syncers \ {b} : sync' = [sync EXCEPT ![p] = NoSync]
    PROVE  sync'[b].file = sync[b].file
<1>0. sync \in [Syncers -> SyncRecords] /\ sync[b] \in SyncRecords
    BY DEF SyncTypes
<1>1. ASSUME NEW f PROVE Disturbed(f)[b].file = sync[b].file
    BY <1>0, DisturbedSyncs
<1>2. ASSUME NEW p \in Syncers \ {b}, NEW f, SyncBegin(p, f) PROVE sync'[b].file = sync[b].file
    <2>1. sync'[b] = Disturbed(f)[b]
        BY <1>2 DEF SyncBegin
    <2> QED
        BY <1>1, <2>1
<1>3. ASSUME NEW p \in Syncers, SyncStep(p) PROVE sync'[b].file = sync[b].file
    <2>1. CASE p # b
        <3>1. sync'[b] = sync[b]
            BY <1>0, <1>3, <2>1 DEF SyncStep, SyncRender, SyncPairFails, SyncWrite, SyncRecord, SyncEnd
        <3> QED
            BY <3>1
    <2>2. CASE p = b
        <3>1. ASSUME NEW t, SyncRender(b, t) PROVE sync'[b].file = sync[b].file
            BY <1>0, <3>1 DEF SyncRender, SyncRecords
        <3>2. ASSUME NEW t, SyncPairFails(b, t) PROVE sync'[b].file = sync[b].file
            BY <1>0, <3>2 DEF SyncPairFails, SyncRecords
        <3>3. CASE SyncWrite(b)
            BY <1>0, <3>3 DEF SyncWrite, SyncRecords
        <3>4. CASE SyncRecord(b)
            BY <1>0, <3>4 DEF SyncRecord, SyncRecords
        <3>5. CASE SyncEnd(b)
            BY <1>0, <3>5 DEF SyncEnd, SyncRecords
        <3> QED
            BY <1>3, <2>2, <3>1, <3>2, <3>3, <3>4, <3>5 DEF SyncStep
    <2> QED
        BY <2>1, <2>2
<1> QED
    BY <1>0, <1>1, <1>2, <1>3

\* What the syncs see of a step around the batches, or of a step of batch b.
LEMMA SyncsSee ==
    ASSUME SyncTypes
    PROVE  /\ Around => \/ UNCHANGED sync
                        \/ \E p \in Syncers : SyncStep(p)
                        \/ \E f : sync' = Disturbed(f)
           /\ \A b \in Batches : Run(b) =>
                \/ UNCHANGED sync
                \/ \E f : SyncBegin(b, f)
                \/ \E f : sync' = Disturbed(f)
                \/ sync' = [sync EXCEPT ![b] = NoSync]
<1>1. ASSUME Edit PROVE UNCHANGED sync \/ \E f : sync' = Disturbed(f)
    BY <1>1 DEF Edit, PatchBegin, RestoreBegin, EditSave, EditWrite, Store
<1>2. ASSUME NEW f \in Files, Delete(f) PROVE sync' = Disturbed(f)
    BY <1>2 DEF Delete
<1>3. ASSUME NEW b \in Batches, Run(b)
      PROVE  \/ UNCHANGED sync
             \/ \E f : SyncBegin(b, f)
             \/ \E f : sync' = Disturbed(f)
             \/ sync' = [sync EXCEPT ![b] = NoSync]
    <2>1. CASE \/ Lookup(b) \/ Preload(b) \/ Create(b) \/ OpMissing(b)
               \/ DecideUndo(b) \/ DecideEnd(b) \/ UndoFails(b) \/ UndoEnd(b)
        BY <2>1 DEF Lookup, Preload, Create, OpMissing, DecideUndo, DecideEnd, UndoFails, UndoEnd, syncVars
    <2>2. CASE OpCall(b) \/ UndoCall(b)
        BY <2>2 DEF OpCall, UndoCall
    <2>3. CASE OpDone(b) \/ UndoDone(b)
        BY <2>3 DEF OpDone, UndoDone
    <2>4. CASE UndoRestore(b)
        BY <2>4 DEF UndoRestore, Store
    <2> QED
        BY <1>3, <2>1, <2>2, <2>3, <2>4 DEF Run
<1> QED
    BY <1>1, <1>2, <1>3 DEF Around

\* A step of batch b leaves the other handlers alone; only UndoCall leads to
\* the sync after a restore, and only Preload takes contents.
LEMMA HandlerSteps ==
    ASSUME BatchTypes, NEW b \in Batches, Run(b)
    PROVE  /\ \A q \in Batches \ {b} : batch'[q] = batch[q]
           /\ ~UndoCall(b) => batch'[b].pc # "resync"
           /\ ~Preload(b) => batch'[b].snap = batch[b].snap
<1>0. batch \in [Batches -> BatchRecords] /\ batch[b] \in BatchRecords
    BY DEF BatchTypes
<1>1. \A q \in Batches \ {b} : batch'[q] = batch[q]
    <2>1. CASE Lookup(b) \/ Preload(b) \/ Create(b)
        BY <1>0, <2>1 DEF Lookup, Preload, Create, Replay
    <2>2. CASE OpMissing(b) \/ OpCall(b) \/ OpDone(b)
        BY <1>0, <2>2 DEF OpMissing, OpCall, OpDone, OpFailed
    <2>3. CASE DecideUndo(b) \/ DecideEnd(b) \/ UndoEnd(b)
        BY <1>0, <2>3 DEF DecideUndo, DecideEnd, UndoEnd, Finish
    <2>4. CASE UndoRestore(b) \/ UndoFails(b) \/ UndoCall(b) \/ UndoDone(b)
        BY <1>0, <2>4 DEF UndoRestore, UndoFails, UndoCall, UndoDone, UndoResult
    <2> QED
        BY <2>1, <2>2, <2>3, <2>4 DEF Run
<1>2. CASE Lookup(b) \/ Create(b)
    BY <1>0, <1>2 DEF Lookup, Create, Replay, BatchRecords
<1>3. CASE Preload(b)
    BY <1>0, <1>3 DEF Preload, BatchRecords
<1>4. CASE OpMissing(b) \/ (OpDone(b) /\ OpFailed(b))
    <2>1. OpFailed(b)
        BY <1>4 DEF OpMissing
    <2> QED
        BY <1>0, <2>1 DEF OpFailed, BatchRecords
<1>5. CASE OpCall(b)
    BY <1>0, <1>5 DEF OpCall, BatchRecords
<1>6. CASE OpDone(b) /\ ~OpFailed(b)
    <2>1. batch' = [batch EXCEPT ![b].done = Append(@, batch[b].i), ![b].i = batch[b].i + 1,
                           ![b].pc = IF batch[b].i = Len(OpsOf[b]) THEN "decide" ELSE "op"]
        BY <1>6, Zenon DEF OpDone
    <2> QED
        BY <1>0, <2>1 DEF BatchRecords
<1>7. CASE DecideUndo(b)
    BY <1>0, <1>7 DEF DecideUndo, BatchRecords
<1>8. CASE DecideEnd(b) \/ UndoEnd(b)
    BY <1>0, <1>8 DEF DecideEnd, UndoEnd, Finish, BatchRecords
<1>9. CASE UndoFails(b) \/ UndoDone(b)
    BY <1>0, <1>9 DEF UndoFails, UndoDone, UndoResult, BatchRecords
<1>10. CASE UndoRestore(b)
    BY <1>0, <1>10 DEF UndoRestore, BatchRecords
<1>11. CASE UndoCall(b)
    BY <1>0, <1>11 DEF UndoCall, BatchRecords
<1> QED
    BY <1>1, <1>2, <1>3, <1>4, <1>5, <1>6, <1>7, <1>8, <1>9, <1>10, <1>11 DEF Run

\* The sync that a handler waits for stays the sync of the file it restored.
LEMMA RestoringKept ==
    ASSUME BatchInv, [BatchNext]_vars PROVE Restoring'
<1>0. SyncTypes /\ BatchTypes /\ Batches \subseteq Syncers
    BY OpNumbers DEF BatchInv, SyncInv
<1>1. ASSUME NEW b \in Batches, batch'[b] = batch[b], sync'[b].file = sync[b].file,
             batch'[b].pc = "resync"
      PROVE  sync'[b].file = OpsOf[b][Undone(b)']
    BY <1>1 DEF BatchInv, Restoring, Undone
<1>2. CASE \E b \in Batches : Run(b)
    <2>1. PICK b \in Batches : Run(b)
        BY <1>2
    <2>2. ASSUME NEW q \in Batches \ {b}, batch'[q].pc = "resync" PROVE sync'[q].file = OpsOf[q][Undone(q)']
        <3>1. q \in Syncers /\ b \in Syncers \ {q}
            BY <1>0
        <3>2. batch'[q] = batch[q]
            BY <1>0, <2>1, HandlerSteps
        <3>3. \/ UNCHANGED sync
              \/ \E f : SyncBegin(b, f)
              \/ \E f : sync' = Disturbed(f)
              \/ sync' = [sync EXCEPT ![b] = NoSync]
            BY <1>0, <2>1, SyncsSee
        <3>4. sync'[q].file = sync[q].file
            BY <1>0, <3>1, <3>3, SyncFileStays
        <3> QED
            BY <1>1, <2>2, <3>2, <3>4
    <2>3. ASSUME batch'[b].pc = "resync" PROVE sync'[b].file = OpsOf[b][Undone(b)']
        <3>1. UndoCall(b)
            BY <1>0, <2>1, <2>3, HandlerSteps
        <3>2. batch'[b].done = batch[b].done /\ batch'[b].i = batch[b].i
            BY <1>0, <3>1 DEF UndoCall, BatchTypes, BatchRecords
        <3>3. Undone(b)' = Undone(b)
            BY <3>2 DEF Undone
        <3>4. PICK f : f = OpsOf[b][Undone(b)]
            OBVIOUS
        <3>5. SyncBegin(b, f) /\ b \in Syncers
            BY <1>0, <3>1, <3>4 DEF UndoCall
        <3>6. sync'[b].file = f
            BY <3>5 DEF SyncBegin, NoSync
        <3> QED
            BY <3>3, <3>4, <3>6
    <2> QED
        BY <2>2, <2>3 DEF Restoring
<1>3. CASE Around /\ UNCHANGED batch
    <2>1. ASSUME NEW b \in Batches, batch'[b].pc = "resync" PROVE sync'[b].file = OpsOf[b][Undone(b)']
        <3>1. sync'[b].file = sync[b].file
            BY <1>0, <1>3, SyncsSee, SyncFileStays
        <3> QED
            BY <1>1, <1>3, <2>1, <3>1
    <2> QED
        BY <2>1 DEF Restoring
<1>4. CASE Crash
    <2>1. \A b \in Batches : batch'[b].pc # "resync"
        BY <1>0, <1>4 DEF Crash, BatchTypes, BatchRecords
    <2> QED
        BY <2>1 DEF Restoring
<1>5. CASE UNCHANGED vars
    BY <1>5 DEF vars, batchVars, syncVars, BatchInv, Restoring, Undone
<1> QED
    BY <1>2, <1>3, <1>4, <1>5 DEF BatchNext, batchVars

\* The invariant of syncs and batches is inductive.
LEMMA BatchInvInit == BatchInit => BatchInv
<1> SUFFICES ASSUME BatchInit PROVE BatchInv
    OBVIOUS
<1>1. HistoryInv /\ SyncInv
    BY HistoryInit, SyncInit DEF BatchInit
<1>2. EditorsInv
    BY <1>1 DEF HistoryInv, EditorsInv, Saved
<1>3. PICK y : y = [pc |-> "lookup", i |-> 1, snap |-> [f \in Files |-> Gone],
                    done |-> <<>>, fail |-> 0, reply |-> NoRow]
    OBVIOUS
<1>4. row = [b \in Batches |-> NoRow] /\ batch = [b \in Batches |-> y]
    BY <1>3 DEF BatchInit, NoBatches
<1>5. NoRow \in Rows
    BY DEF NoRow, Rows, RowStates, AllOps
<1>6. y \in BatchRecords /\ y.pc = "lookup" /\ y.i = 1 /\ y.fail = 0 /\ y.done = <<>>
    <2>1. [f \in Files |-> Gone] \in [Files -> Int]
        BY DEF Gone
    <2>2. <<>> \in Seq(Int)
        BY EmptySeq
    <2> QED
        BY <1>3, <1>5, <2>1, <2>2, Places DEF BatchRecords
<1>7. BatchTypes
    BY <1>4, <1>5, <1>6 DEF BatchTypes
<1>8. Stages
    <2>1. ASSUME NEW b \in Batches PROVE StageOf(b, NoRow, y)
        BY <1>6 DEF StageOf, Waiting, Trying, Undoing
    <2> QED
        BY <1>4, <2>1 DEF Stages
<1>9. Restoring
    BY <1>4, <1>6 DEF Restoring
<1> QED
    BY <1>1, <1>2, <1>7, <1>8, <1>9 DEF BatchInv

\* Every step of the batches, and around them, keeps the invariant.
LEMMA BatchInvNext == BatchInv /\ [BatchNext]_vars => BatchInv'
<1> SUFFICES ASSUME BatchInv, [BatchNext]_vars PROVE BatchInv'
    OBVIOUS
<1>0. EditorsInv /\ SyncInv /\ BatchTypes /\ Stages /\ content \in [Files -> Int]
    BY DEF BatchInv, EditorsInv, FileTypes
<1>1. Restoring'
    BY RestoringKept
<1>2. BatchTypes' /\ Stages'
    BY <1>0, BatchNextKeepsStages
<1>3. EditorsInv' /\ SyncInv'
    <2>1. CASE \E b \in Batches : Run(b)
        BY <1>0, <2>1, RunKeepsSyncs
    <2>2. CASE Around
        BY <1>0, <2>2, AroundKeepsSyncs
    <2>3. CASE Crash
        BY <1>0, <2>3, CrashKeepsSyncs
    <2>4. CASE UNCHANGED vars
        BY <1>0, <2>4, SyncStutter, SyncsLeaveEditors DEF vars, syncVars
    <2> QED
        BY <2>1, <2>2, <2>3, <2>4 DEF BatchNext
<1> QED
    BY <1>1, <1>2, <1>3 DEF BatchInv

\* For any number of files, hosts, operators, callers and re-syncs: a sync that
\* nothing disturbed and that reports "ok" has left the current content on
\* every deployment that must show the file; so has one called by a batch,
\* among edits, deletions, other batches and crashes.
THEOREM SyncDeliversHolds ==
    (Spec => []UndisturbedSyncDelivers) /\ (BatchSpec => []UndisturbedSyncDelivers)
<1>1. Init => EditorsInv /\ SyncInv
    BY HistoryInit, SyncInit DEF HistoryInv, EditorsInv, Saved
<1>2. (EditorsInv /\ SyncInv) /\ [Next]_syncVars => (EditorsInv /\ SyncInv)'
    BY SyncNext
<1>3. EditorsInv /\ SyncInv => UndisturbedSyncDelivers
    BY DeliversAll
<1>4. BatchInv => UndisturbedSyncDelivers
    BY DeliversAll DEF BatchInv
<1>5. Spec => []UndisturbedSyncDelivers
    BY <1>1, <1>2, <1>3, PTL DEF Spec
<1>6. BatchSpec => []UndisturbedSyncDelivers
    BY <1>4, BatchInvInit, BatchInvNext, PTL DEF BatchSpec
<1> QED
    BY <1>5, <1>6

-----------------------------------------------------------------------------
(* What the steps of a batch do to its row. *)

\* Operation k of a row gets state s, or the row gets a status.
LEMMA RowChange ==
    ASSUME BatchTypes, NEW b \in Batches, NEW k, NEW s,
           \/ row' = [row EXCEPT ![b].ops[k] = s]
           \/ row' = [row EXCEPT ![b].status = s]
    PROVE  /\ row'[b].keyed = row[b].keyed
           /\ \A i \in DOMAIN row[b].ops : row'[b].ops[i] \in {row[b].ops[i], s}
           /\ row' = [row EXCEPT ![b].ops[k] = s] =>
                \A i \in DOMAIN row[b].ops : i # k => row'[b].ops[i] = row[b].ops[i]
           /\ row' = [row EXCEPT ![b].status = s] =>
                \A i \in DOMAIN row[b].ops : row'[b].ops[i] = row[b].ops[i]
<1>1. row \in [Batches -> Rows] /\ row[b] \in Rows
    BY DEF BatchTypes
<1>2. PICK o : o = row[b].ops
    OBVIOUS
<1>3. CASE row' = [row EXCEPT ![b].ops[k] = s]
    <2>1. PICK p : p = [o EXCEPT ![k] = s]
        OBVIOUS
    <2>2. row'[b] = [row[b] EXCEPT !.ops = p]
        BY <1>1, <1>2, <1>3, <2>1
    <2>3. row'[b].ops = p /\ row'[b].keyed = row[b].keyed
        BY <1>1, <2>2 DEF Rows
    <2>4. \A i \in DOMAIN o : p[i] \in {o[i], s} /\ (i # k => p[i] = o[i])
        BY <2>1
    <2>5. row' = [row EXCEPT ![b].status = s] => row'[b].ops = o
        BY <1>1, <1>2 DEF Rows
    <2> QED
        BY <1>2, <2>3, <2>4, <2>5
<1>4. CASE row' = [row EXCEPT ![b].status = s]
    <2>1. row'[b].ops = o /\ row'[b].keyed = row[b].keyed
        BY <1>1, <1>2, <1>4 DEF Rows
    <2> QED
        BY <1>2, <2>1
<1> QED
    BY <1>3, <1>4

\* The row of one batch changes; an operation that was done is marked as undone
\* only when the sync of its file reports "ok"; the key is set only by Create.
LEMMA RowSteps ==
    ASSUME BatchTypes, Stages, NEW b \in Batches, Run(b)
    PROVE  /\ \A q \in Batches \ {b} : row'[q] = row[q]
           /\ \A i \in DOMAIN row[b].ops :
                row[b].ops[i] = "ok" /\ row'[b].ops[i] = "rolled_back" =>
                  /\ batch[b].pc = "resync" /\ sync[b].pc = "done"
                  /\ i = Undone(b) /\ sync[b].outcome = "ok"
           /\ row'[b].keyed => row[b].keyed \/ KeyOf[b] = None \/ SameBody(b) = {}
<1>0. row \in [Batches -> Rows] /\ row[b] \in Rows
    BY DEF BatchTypes
<1>1. \A q \in Batches \ {b} : row'[q] = row[q]
    <2>1. CASE Lookup(b) \/ Preload(b) \/ Create(b)
        BY <1>0, <2>1 DEF Lookup, Preload, Create, Replay
    <2>2. CASE OpMissing(b) \/ OpCall(b) \/ OpDone(b)
        BY <1>0, <2>2 DEF OpMissing, OpCall, OpDone, OpFailed
    <2>3. CASE DecideUndo(b) \/ DecideEnd(b) \/ UndoEnd(b)
        BY <1>0, <2>3 DEF DecideUndo, DecideEnd, UndoEnd, Finish
    <2>4. CASE UndoRestore(b) \/ UndoFails(b) \/ UndoCall(b) \/ UndoDone(b)
        BY <1>0, <2>4 DEF UndoRestore, UndoFails, UndoCall, UndoDone, UndoResult
    <2> QED
        BY <2>1, <2>2, <2>3, <2>4 DEF Run
<1>2. CASE UNCHANGED row
    BY <1>1, <1>2
<1>3. CASE (Preload(b) \/ Create(b)) /\ row' # row
    <2>1. row[b] = NoRow
        BY <1>3 DEF Preload, Create, Stages, StageOf, Waiting
    <2>2. DOMAIN row[b].ops = {}
        BY <2>1 DEF NoRow
    <2>3. CASE Create(b)
        BY <1>1, <1>3, <2>2, <2>3 DEF Create, Replay
    <2>4. CASE Preload(b)
        <3>1. row'[b] = NewRow(b, "failed")
            BY <1>0, <1>3, <2>4 DEF Preload
        <3>2. ~row'[b].keyed
            <4>1. ("failed" = "pending" /\ KeyOf[b] # None) = FALSE
                OBVIOUS
            <4>2. NewRow(b, "failed") = [status |-> "failed", keyed |-> FALSE, ops |-> [i \in Ops(b) |-> "failed"]]
                BY <4>1, Zenon DEF NewRow
            <4> QED
                BY <3>1, <4>2
        <3> QED
            BY <1>1, <2>2, <3>2
    <2> QED
        BY <1>3, <2>3, <2>4
<1>4. ASSUME NEW k, NEW s \in {"ok", "failed", "rollback_failed"}, row' = [row EXCEPT ![b].ops[k] = s]
      PROVE  /\ row'[b].keyed = row[b].keyed
             /\ \A i \in DOMAIN row[b].ops : ~(row[b].ops[i] = "ok" /\ row'[b].ops[i] = "rolled_back")
    BY <1>4, RowChange
<1>5. ASSUME NEW s, Finish(b, s)
      PROVE  /\ row'[b].keyed = row[b].keyed
             /\ \A i \in DOMAIN row[b].ops : row'[b].ops[i] = row[b].ops[i]
    <2>1. row' = [row EXCEPT ![b].status = s]
        BY <1>5 DEF Finish
    <2> QED
        BY <2>1, RowChange
<1>6. CASE OpFailed(b)
    <2>1. row' = [row EXCEPT ![b].ops[batch[b].i] = "failed"]
        BY <1>6 DEF OpFailed
    <2> QED
        BY <1>1, <1>4, <2>1
<1>7. CASE OpDone(b) /\ ~OpFailed(b)
    <2>1. row' = [row EXCEPT ![b].ops[batch[b].i] = "ok"]
        BY <1>7, Zenon DEF OpDone
    <2> QED
        BY <1>1, <1>4, <2>1
<1>8. CASE DecideUndo(b)
    <2>1. AfterLoop(b, row[b], batch[b])
        BY <1>8 DEF DecideUndo, Stages, StageOf
    <2>2. PICK o \in [Ops(b) -> OpStates] : o = row[b].ops
        BY <2>1 DEF AfterLoop
    <2>3. PICK p : p = [i \in Ops(b) |-> IF i > batch[b].fail /\ o[i] = "pending" THEN "skipped" ELSE o[i]]
        OBVIOUS
    <2>4. row' = [row EXCEPT ![b].ops = p]
        BY <1>0, <1>8, <2>2, <2>3 DEF DecideUndo
    <2>5. row'[b].ops = p /\ row'[b].keyed = row[b].keyed
        BY <1>0, <2>4 DEF Rows
    <2>6. \A i \in DOMAIN o : p[i] = o[i] \/ p[i] = "skipped"
        BY <2>3
    <2>7. \A i \in DOMAIN row[b].ops : ~(row[b].ops[i] = "ok" /\ row'[b].ops[i] = "rolled_back")
        BY <2>2, <2>5, <2>6
    <2> QED
        BY <1>1, <2>5, <2>7
<1>9. CASE DecideEnd(b) \/ UndoEnd(b)
    <2>1. PICK s : Finish(b, s)
        BY <1>9 DEF DecideEnd, UndoEnd
    <2>2. \A i \in DOMAIN row[b].ops : ~(row[b].ops[i] = "ok" /\ row'[b].ops[i] = "rolled_back")
        BY <1>5, <2>1
    <2> QED
        BY <1>1, <1>5, <2>1, <2>2
<1>10. CASE UndoFails(b)
    <2>1. row' = [row EXCEPT ![b].ops[Undone(b)] = "rollback_failed"]
        BY <1>10 DEF UndoFails, UndoResult
    <2> QED
        BY <1>1, <1>4, <2>1
<1>11. CASE UndoDone(b)
    <2>1. CASE sync[b].outcome = "ok"
        <3>1. row' = [row EXCEPT ![b].ops[Undone(b)] = "rolled_back"] /\ batch[b].pc = "resync" /\ sync[b].pc = "done"
            BY <1>11, <2>1 DEF UndoDone, UndoResult
        <3>2. /\ row'[b].keyed = row[b].keyed
              /\ \A i \in DOMAIN row[b].ops : i # Undone(b) => row'[b].ops[i] = row[b].ops[i]
            BY <3>1, RowChange
        <3> QED
            BY <1>1, <2>1, <3>1, <3>2
    <2>2. CASE sync[b].outcome # "ok"
        <3>1. row' = [row EXCEPT ![b].ops[Undone(b)] = "rollback_failed"]
            BY <1>11, <2>2 DEF UndoDone, UndoResult
        <3> QED
            BY <1>1, <1>4, <3>1
    <2> QED
        BY <2>1, <2>2
<1> QED
    BY <1>2, <1>3, <1>6, <1>7, <1>8, <1>9, <1>10, <1>11
    DEF Run, Lookup, Replay, OpMissing, OpCall, UndoRestore, UndoCall

\* An operation is marked as undone only when its hosts have the old content.
LEMMA MarkedWhenPushed ==
    ASSUME BatchInv, [BatchNext]_vars PROVE UndoneIsPushed
<1> SUFFICES ASSUME NEW b \in Batches, NEW i \in DOMAIN row[b].ops,
                    row[b].ops[i] = "ok", row'[b].ops[i] = "rolled_back", sync[b].quiet,
                    content[OpsOf[b][i]] = batch[b].snap[OpsOf[b][i]],
                    NEW t \in Pairs(OpsOf[b][i])
             PROVE  host[t][1] = batch[b].snap[OpsOf[b][i]]
    BY DEF UndoneIsPushed
<1>0. BatchTypes /\ Stages /\ b \in Syncers
    BY OpNumbers DEF BatchInv
<1>1. row'[b] # row[b]
    OBVIOUS
<1>2. PICK q \in Batches : Run(q)
    BY <1>1 DEF BatchNext, Crash, vars, batchVars
<1>3. q = b
    BY <1>0, <1>1, <1>2, RowSteps
<1>4. /\ batch[b].pc = "resync" /\ sync[b].pc = "done"
      /\ i = Undone(b) /\ sync[b].outcome = "ok"
    BY <1>0, <1>2, <1>3, RowSteps
<1>5. PICK f : f = OpsOf[b][i]
    OBVIOUS
<1>6. sync[b].file = f
    BY <1>4, <1>5 DEF BatchInv, Restoring
<1>7. f \in Files /\ host[t] = Rendered(f, content[f], secret)
    <2>1. Delivered(b)
        BY <1>0 DEF BatchInv, SyncInv
    <2> QED
        BY <1>4, <1>5, <1>6, <2>1 DEF Delivered, AtHand
<1>8. host[t][1] = content[f]
    BY <1>7 DEF Rendered
<1> QED
    BY <1>5, <1>8

\* For any number of batches, files, hosts and operators, and any number of
\* crashes: the status of a batch that has ended tells what became of every
\* operation, and an operation is marked "rolled_back" only when the old content
\* is on every host of its file again, unless somebody else disturbed the sync
\* or changed the file.
THEOREM BatchReportsTrulyHolds == BatchSpec => BatchReportsTruly
<1>1. BatchInv /\ [BatchNext]_vars => [UndoneIsPushed /\ StatusTellsOps']_vars
    <2> SUFFICES ASSUME BatchInv, [BatchNext]_vars PROVE UndoneIsPushed /\ StatusTellsOps'
        OBVIOUS
    <2>1. BatchInv'
        BY BatchInvNext
    <2>2. (BatchTypes /\ Stages)' => StatusTellsOps'
        BY StagesTell, PTL
    <2> QED
        BY <2>1, <2>2, MarkedWhenPushed DEF BatchInv
<1> QED
    BY <1>1, BatchInvInit, BatchInvNext, PTL DEF BatchSpec, BatchReportsTruly

\* For any number of requests, whatever their interleaving and whenever the
\* process dies: one Idempotency-Key with one body stands for one batch.
THEOREM KeyRunsOnceHolds == BatchSpec => []KeyRunsOnce
<1>1. BatchInit => KeyRunsOnce
    BY DEF BatchInit, NoBatches, NoRow, KeyRunsOnce
<1>2. BatchInv /\ KeyRunsOnce /\ [BatchNext]_vars => KeyRunsOnce'
    <2> SUFFICES ASSUME BatchInv, KeyRunsOnce, [BatchNext]_vars PROVE KeyRunsOnce'
        OBVIOUS
    <2>0. BatchTypes /\ Stages
        BY DEF BatchInv
    <2>1. CASE UNCHANGED row
        BY <2>1 DEF KeyRunsOnce
    <2>2. ASSUME NEW b \in Batches, Run(b) PROVE KeyRunsOnce'
        <3>1. /\ \A q \in Batches \ {b} : row'[q] = row[q]
              /\ row'[b].keyed => row[b].keyed \/ KeyOf[b] = None \/ SameBody(b) = {}
            BY <2>0, <2>2, RowSteps
        <3>2. ASSUME NEW q \in Batches \ {b}, KeyOf[b] # None, KeyOf[b] = KeyOf[q], BodyOf(b) = BodyOf(q),
                     row'[b].keyed, row'[q].keyed
              PROVE  FALSE
            <4>1. row[q].keyed /\ q \in SameBody(b)
                BY <3>1, <3>2 DEF SameBody
            <4>2. row[b].keyed
                BY <3>1, <3>2, <4>1
            <4> QED
                BY <3>2, <4>1, <4>2 DEF KeyRunsOnce
        <3>3. ASSUME NEW p \in Batches, NEW q \in Batches, p # q, KeyOf[p] # None, KeyOf[p] = KeyOf[q],
                     BodyOf(p) = BodyOf(q), row'[p].keyed, row'[q].keyed
              PROVE  FALSE
            <4>1. CASE p = b
                BY <3>2, <3>3, <4>1
            <4>2. CASE q = b
                BY <3>2, <3>3, <4>2
            <4>3. CASE p # b /\ q # b
                <5>1. row[p].keyed /\ row[q].keyed
                    BY <3>1, <3>3, <4>3
                <5> QED
                    BY <3>3, <5>1 DEF KeyRunsOnce
            <4> QED
                BY <4>1, <4>2, <4>3
        <3> QED
            BY <3>3 DEF KeyRunsOnce, BodyOf
    <2> QED
        BY <2>1, <2>2 DEF BatchNext, Crash, vars, batchVars
<1> QED
    BY <1>1, <1>2, BatchInvInit, BatchInvNext, PTL DEF BatchSpec

-----------------------------------------------------------------------------
(* Batches and the contents of files. *)

\* The places where the handler has taken the contents it may put back.
Holding == {"create", "decide"} \cup Trying \cup Undoing

\* A content that a batch may put back is one the file has had.
Snapped(b) ==
    batch[b].pc \in Holding =>
        \A f \in Files : content[f] # Gone => batch[b].snap[f] \in ever[f]

\* A content once recorded stays recorded, and a deleted file deleted.
Remembered ==
    \A f \in Files : content'[f] # Gone => content[f] # Gone /\ ever[f] \subseteq ever'[f]

\* No step forgets a content of a file that is not deleted.
LEMMA StepsRemember ==
    ASSUME EditorsInv, BatchTypes, Stages, [BatchNext]_vars PROVE Remembered
<1>0. FileTypes /\ content \in [Files -> Int] /\ ever \in [Files -> SUBSET Int]
    BY DEF EditorsInv, FileTypes
<1>1. CASE UNCHANGED <<content, ever>>
    BY <1>1 DEF Remembered
<1>2. ASSUME NEW f \in Files, NEW v, content[f] # Gone, Store(f, v) PROVE Remembered
    <2>1. content' = [content EXCEPT ![f] = v] /\ ever' = [ever EXCEPT ![f] = @ \cup {v}]
        BY <1>2 DEF Store
    <2> QED
        BY <1>0, <1>2, <2>1 DEF Remembered
<1>3. ASSUME NEW f \in Files, Delete(f) PROVE Remembered
    <2>1. content' = [content EXCEPT ![f] = Gone] /\ ever' = [ever EXCEPT ![f] = {}]
        BY <1>3 DEF Delete
    <2> QED
        BY <1>0, <2>1 DEF Remembered
<1>4. CASE Edit
    <2>1. PICK e \in Editors :
            \/ \E f \in Files, v \in Versions : PatchBegin(e, f, v) \/ RestoreBegin(e, f, v)
            \/ EditSave(e) \/ EditWrite(e)
        BY <1>4 DEF Edit
    <2>2. CASE EditWrite(e)
        <3>1. editor[e].file \in Files
            BY <2>2 DEF EditWrite, EditorsInv
        <3>2. \/ UNCHANGED <<content, ever>>
              \/ content[editor[e].file] # Gone /\ Store(editor[e].file, editor[e].new)
            BY <2>2 DEF EditWrite
        <3> QED
            BY <1>1, <1>2, <3>1, <3>2
    <2>3. CASE ~EditWrite(e)
        <3>1. UNCHANGED <<content, ever>>
            BY <2>1, <2>3 DEF PatchBegin, RestoreBegin, EditSave, fileVars
        <3> QED
            BY <1>1, <3>1
    <2> QED
        BY <2>2, <2>3
<1>5. ASSUME NEW b \in Batches, UndoRestore(b) PROVE Remembered
    <2>1. batch[b].pc \in Undoing /\ batch[b].i # 0
        BY <1>5 DEF UndoRestore, Undoing
    <2>2. PICK f \in Files : f = OpsOf[b][Undone(b)]
        BY <2>1, UndoneOp
    <2>3. content[f] # Gone /\ Store(f, batch[b].snap[f])
        BY <1>5, <2>2 DEF UndoRestore
    <2> QED
        BY <1>2, <2>3
<1>6. ASSUME NEW b \in Batches, Run(b), ~UndoRestore(b) PROVE Remembered
    <2>1. UNCHANGED <<content, ever>>
        BY <1>6 DEF Run, Lookup, Preload, Create, OpMissing, OpCall, OpDone, DecideUndo, DecideEnd,
                    UndoFails, UndoCall, UndoDone, UndoEnd, SyncBegin, syncVars, fileVars
    <2> QED
        BY <1>1, <2>1
<1>7. CASE \E p \in Syncers : SyncStep(p)
    BY <1>1, <1>7, SyncLeavesFiles
<1> QED
    BY <1>1, <1>3, <1>4, <1>5, <1>6, <1>7 DEF BatchNext, Around, Crash, vars, syncVars

\* The contents a batch holds stay contents the files have had.
LEMMA SnapsKept ==
    ASSUME EditorsInv, BatchTypes, Stages, Recorded, \A b \in Batches : Snapped(b), [BatchNext]_vars
    PROVE  \A b \in Batches : Snapped(b)'
<1>0. Remembered
    BY StepsRemember
<1>1. ASSUME NEW b \in Batches, batch'[b].snap = batch[b].snap,
             batch'[b].pc \in Holding => batch[b].pc \in Holding
      PROVE  Snapped(b)'
    BY <1>0, <1>1 DEF Snapped, Remembered
<1>2. ASSUME NEW b \in Batches, Run(b) PROVE Snapped(b)'
    <2>1. CASE Preload(b)
        <3>1. batch'[b].snap = content /\ UNCHANGED <<content, ever>>
            BY <2>1 DEF Preload, BatchTypes, BatchRecords, syncVars
        <3> QED
            BY <3>1 DEF Snapped, Recorded
    <2>2. CASE Lookup(b)
        <3>1. batch'[b].pc \in {"replied", "conflict", "preload"}
            BY <2>2 DEF Lookup, Replay, BatchTypes, BatchRecords
        <3>2. batch'[b].pc \notin Holding
            BY <3>1 DEF Holding, Trying, Undoing
        <3> QED
            BY <3>2 DEF Snapped
    <2>3. CASE ~Preload(b) /\ ~Lookup(b)
        <3>1. batch'[b].snap = batch[b].snap
            BY <1>2, <2>3, HandlerSteps
        <3>2. batch[b].pc \in {"create", "op", "wait", "decide", "undo", "restored", "resync"}
            BY <1>2, <2>3 DEF Run, Create, OpMissing, OpCall, OpDone, DecideUndo, DecideEnd,
                              UndoRestore, UndoFails, UndoCall, UndoDone, UndoEnd
        <3>3. batch[b].pc \in Holding
            BY <3>2 DEF Holding, Trying, Undoing
        <3> QED
            BY <1>1, <3>1, <3>3
    <2> QED
        BY <2>1, <2>2, <2>3
<1>3. CASE UNCHANGED batch
    BY <1>1, <1>3
<1>4. CASE Crash
    <2>1. ASSUME NEW b \in Batches PROVE Snapped(b)'
        <3>1. batch[b] \in BatchRecords
            BY DEF BatchTypes
        <3>2. batch'[b] = batch[b] \/ batch'[b] = [batch[b] EXCEPT !.pc = "lost"]
            BY <1>4 DEF Crash
        <3>3. batch'[b] = batch[b] \/ batch'[b].pc = "lost"
            BY <3>1, <3>2 DEF BatchRecords
        <3>4. "lost" \notin Holding
            BY DEF Holding, Trying, Undoing
        <3>5. CASE batch'[b] = batch[b]
            BY <1>1, <3>5
        <3>6. CASE batch'[b].pc = "lost"
            BY <3>4, <3>6 DEF Snapped
        <3> QED
            BY <3>3, <3>5, <3>6
    <2> QED
        BY <2>1
<1>5. ASSUME NEW b \in Batches, Run(b), NEW q \in Batches \ {b} PROVE Snapped(q)'
    <2>1. batch'[q] = batch[q]
        BY <1>5, HandlerSteps
    <2> QED
        BY <1>1, <2>1
<1> QED
    BY <1>2, <1>3, <1>4, <1>5 DEF BatchNext, vars, batchVars

\* Putting an old content back keeps the one it replaces.
LEMMA RestoreKeepsHistory ==
    ASSUME HistoryInv, BatchTypes, Stages, NEW b \in Batches, Snapped(b), UndoRestore(b)
    PROVE  HistoryInv'
<1>0. FileTypes /\ NothingLost /\ Recorded /\ \A e \in Editors : Saved(e)
    BY DEF HistoryInv
<1>1. batch[b].pc \in Undoing /\ batch[b].i # 0
    BY DEF UndoRestore, Undoing
<1>2. PICK f \in Files : f = OpsOf[b][Undone(b)]
    BY <1>1, UndoneOp
<1>3. PICK v \in Int : v = batch[b].snap[f]
    <2>1. batch[b].snap \in [Files -> Int]
        BY DEF BatchTypes, BatchRecords
    <2> QED
        BY <2>1
<1>4. /\ content[f] # Gone /\ Store(f, v) /\ history' = [history EXCEPT ![f] = @ \cup {content[f]}]
      /\ UNCHANGED editor
    BY <1>2, <1>3 DEF UndoRestore, editorVars
<1>5. content' = [content EXCEPT ![f] = v] /\ ever' = [ever EXCEPT ![f] = @ \cup {v}]
    BY <1>4 DEF Store
<1>6. v \in ever[f] /\ ever[f] \subseteq history[f] \cup {content[f]}
    <2>1. batch[b].pc \in Holding
        BY <1>1 DEF Holding
    <2> QED
        BY <1>0, <1>3, <1>4, <2>1 DEF Snapped, NothingLost
<1>7. /\ content'[f] = v /\ history'[f] = history[f] \cup {content[f]} /\ ever'[f] = ever[f]
      /\ \A g \in Files \ {f} : content'[g] = content[g] /\ history'[g] = history[g] /\ ever'[g] = ever[g]
    BY <1>0, <1>4, <1>5, <1>6 DEF FileTypes
<1>8. FileTypes'
    BY <1>0, <1>4, <1>5 DEF FileTypes
<1>9. NothingLost' /\ Recorded'
    BY <1>0, <1>6, <1>7 DEF NothingLost, Recorded
<1>10. ASSUME NEW e \in Editors PROVE Saved(e)'
    <2>1. Saved(e) /\ editor'[e] = editor[e]
        BY <1>0, <1>4
    <2>2. CASE editor[e].file = f
        <3>1. content'[f] \in history'[f]
            BY <1>6, <1>7
        <3> QED
            BY <2>1, <2>2, <3>1 DEF Saved
    <2>3. CASE editor[e].file # f
        BY <1>7, <2>1, <2>3 DEF Saved
    <2> QED
        BY <2>2, <2>3
<1> QED
    BY <1>8, <1>9, <1>10 DEF HistoryInv

\* Every other step of the batches leaves the contents alone.
LEMMA BatchKeepsHistory ==
    ASSUME SoleEditor, HistoryInv, BatchTypes, Stages, \A b \in Batches : Snapped(b), [BatchNext]_vars
    PROVE  HistoryInv'
<1>1. ASSUME NEW b \in Batches, Run(b) PROVE HistoryInv'
    <2>1. CASE UndoRestore(b)
        BY <2>1, RestoreKeepsHistory
    <2>2. CASE ~UndoRestore(b)
        <3>1. UNCHANGED <<content, history, ever, editor>>
            BY <1>1, <2>2
            DEF Run, Lookup, Preload, Create, OpMissing, OpCall, OpDone, DecideUndo, DecideEnd,
                UndoFails, UndoCall, UndoDone, UndoEnd, SyncBegin, syncVars, fileVars, editorVars
        <3> QED
            BY <3>1, HistoryStutter
    <2> QED
        BY <2>1, <2>2
<1>2. CASE Around
    BY <1>2, EditKeepsHistory, DeleteKeepsHistory, SyncLeavesFiles, HistoryStutter DEF Around
<1>3. CASE Crash
    <2>1. UNCHANGED <<content, history, ever>> /\ editor' = [e \in Editors |-> NoEdit]
        BY <1>3 DEF Crash
    <2>2. FileTypes'
        BY <2>1, VersionsAreNumbers DEF HistoryInv, FileTypes
    <2>3. NothingLost' /\ Recorded'
        BY <2>1 DEF HistoryInv, NothingLost, Recorded
    <2>4. \A e \in Editors : Saved(e)'
        BY <2>1 DEF Saved, NoEdit
    <2> QED
        BY <2>2, <2>3, <2>4 DEF HistoryInv
<1>4. CASE UNCHANGED vars
    BY <1>4, HistoryStutter DEF vars, syncVars
<1> QED
    BY <1>1, <1>2, <1>3, <1>4 DEF BatchNext

\* The contents, when one operator edits at a time: every content a file ever
\* had is its content or in its history, for any number of files and syncs, and
\* among any number of batches that put old contents back and of crashes.
THEOREM NothingLostHolds ==
    ASSUME SoleEditor
    PROVE  (Spec => []NothingLost) /\ (BatchSpec => []NothingLost)
<1>1. HistoryInv /\ [Next]_syncVars => HistoryInv'
    <2> SUFFICES ASSUME HistoryInv, [Next]_syncVars PROVE HistoryInv'
        OBVIOUS
    <2>1. CASE Edit
        BY <2>1, EditKeepsHistory
    <2>2. CASE \E f \in Files : Delete(f)
        BY <2>2, DeleteKeepsHistory
    <2>3. CASE \/ \E p, f : SyncBegin(p, f)
               \/ \E p : SyncStep(p)
               \/ UpdateSecret \/ TriggerAutoResync
        BY <2>3, SyncLeavesFiles, HistoryStutter
    <2>4. CASE UNCHANGED syncVars
        BY <2>4, HistoryStutter DEF syncVars
    <2> QED
        BY <2>1, <2>2, <2>3, <2>4 DEF Next
<1>2. Spec => []NothingLost
    <2>1. HistoryInv => NothingLost
        BY DEF HistoryInv
    <2> QED
        BY <1>1, <2>1, HistoryInit, PTL DEF Spec
<1> DEFINE All == HistoryInv /\ \A b \in Batches : Snapped(b)
<1>3. BatchInit => All
    <2> SUFFICES ASSUME BatchInit PROVE All
        OBVIOUS
    <2>1. HistoryInv
        BY HistoryInit DEF BatchInit
    <2>2. \A b \in Batches : batch[b].pc = "lookup"
        BY DEF BatchInit, NoBatches
    <2>3. "lookup" \notin Holding
        BY DEF Holding, Trying, Undoing
    <2> QED
        BY <2>1, <2>2, <2>3 DEF Snapped
<1>4. BatchInv /\ All /\ [BatchNext]_vars => All'
    <2> SUFFICES ASSUME BatchInv, HistoryInv, \A b \in Batches : Snapped(b), [BatchNext]_vars
                 PROVE  HistoryInv' /\ \A b \in Batches : Snapped(b)'
        OBVIOUS
    <2>1. EditorsInv /\ BatchTypes /\ Stages /\ Recorded
        BY DEF BatchInv, HistoryInv
    <2> QED
        BY <2>1, BatchKeepsHistory, SnapsKept
<1>5. All => NothingLost
    BY DEF HistoryInv
<1>6. BatchSpec => []NothingLost
    <2> HIDE DEF All
    <2> QED
        BY <1>3, <1>4, <1>5, BatchInvInit, BatchInvNext, PTL DEF BatchSpec
<1> QED
    BY <1>2, <1>6
=============================================================================
