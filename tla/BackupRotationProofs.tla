------------------------ MODULE BackupRotationProofs ------------------------
(***************************************************************************)
(* For any number of backups, periods and policies: one pass of rotation   *)
(* after the other keeps the floor; however many passes and deletions      *)
(* overlap, a row and its file go together; and a pass that nothing        *)
(* disturbs is final.  And for any schedules, one check after the other    *)
(* starts one backup per period at most.                                   *)
(***************************************************************************)
EXTENDS BackupRotation, Sequences, FiniteSetTheorems, TLAPS

-----------------------------------------------------------------------------
(* Sets of backups. *)

\* Backups are numbers, and so are the bounds.
LEMMA BackupNumbers ==
    /\ Count \in Nat /\ MinFloor \in Nat \ {0} /\ Manual \subseteq Backups
    /\ \A b \in Backups : b \in Int /\ Count - b \in Nat
BY RotationAssumption DEF Backups

\* Sets of backups are finite.
LEMMA FiniteBackups ==
    ASSUME NEW S, S \subseteq Backups
    PROVE  IsFiniteSet(S) /\ Cardinality(S) \in Nat
<1>1. IsFiniteSet(Backups)
    BY BackupNumbers, FS_Interval DEF Backups
<1>2. IsFiniteSet(S)
    BY <1>1, FS_Subset
<1> QED
    BY <1>2, FS_CardinalityType

\* A set of backups that is not empty has a newest one.
LEMMA NewestExists ==
    ASSUME NEW S, S \subseteq Backups, S # {}
    PROVE  \E x \in S : \A y \in S : y <= x
<1> DEFINE T == {Count - x : x \in S}
           R == OpToRel(<, Nat)
<1>1. T \subseteq Nat /\ T # {}
    BY BackupNumbers
<1>2. IsWellFoundedOn(R, Nat)
    BY NatLessThanWellFounded
<1>3. \A x, y \in Nat : y < x => <<y, x>> \in R
    BY DEF OpToRel
<1> HIDE DEF R
<1>4. PICK t \in T : \A u \in T : ~(<<u, t>> \in R)
    <2> HIDE DEF T
    <2> QED
        BY <1>1, <1>2, WFMin
<1>5. PICK x \in S : t = Count - x
    BY <1>4
<1>6. \A y \in S : ~(Count - y < Count - x)
    <2> SUFFICES ASSUME NEW y \in S PROVE ~(Count - y < Count - x)
        OBVIOUS
    <2>1. Count - y \in T /\ Count - y \in Nat /\ Count - x \in Nat
        BY <1>1, <1>5
    <2> QED
        BY <1>3, <1>4, <1>5, <2>1, Zenon
<1>7. \A y \in S : y <= x
    BY <1>6, BackupNumbers
<1> QED
    BY <1>7

\* Cardinality grows with the set.
LEMMA MoreBackups ==
    ASSUME NEW S, S \subseteq Backups, NEW T, T \subseteq S
    PROVE  Cardinality(T) <= Cardinality(S) /\ Cardinality(T) \in Nat /\ Cardinality(S) \in Nat
BY FiniteBackups, FS_Subset

\* Newest(C, n) has n backups, or all there are.
LEMMA NewestEnough ==
    ASSUME NEW C, C \subseteq Backups, NEW n \in Int
    PROVE  /\ Newest(C, n) \subseteq C
           /\ Newest(C, n) = C \/ Cardinality(Newest(C, n)) >= n
<1>1. Newest(C, n) \subseteq C
    BY DEF Newest
<1> SUFFICES ASSUME Newest(C, n) # C PROVE Cardinality(Newest(C, n)) >= n
    BY <1>1
<1> DEFINE After(b) == {c \in C : c > b}
           Left == C \ Newest(C, n)
<1>2. PICK b \in Left : \A y \in Left : y <= b
    <2>1. Left \subseteq Backups /\ Left # {}
        BY <1>1
    <2> HIDE DEF Left
    <2> QED
        BY <2>1, NewestExists
<1>3. Cardinality(After(b)) >= n
    <2>1. Cardinality(After(b)) \in Nat
        BY FiniteBackups
    <2> QED
        BY <1>2, <2>1 DEF Newest
<1>4. After(b) \subseteq Newest(C, n)
    <2> SUFFICES ASSUME NEW c \in C, c > b, c \in Left PROVE FALSE
        OBVIOUS
    <2>1. c <= b /\ c \in Int /\ b \in Int
        BY <1>2, BackupNumbers
    <2> QED
        BY <2>1
<1>5. Cardinality(After(b)) <= Cardinality(Newest(C, n))
    <2>1. Newest(C, n) \subseteq Backups
        BY <1>1
    <2> QED
        BY <1>4, <2>1, MoreBackups
<1>6. Cardinality(After(b)) \in Nat /\ Cardinality(Newest(C, n)) \in Nat
    BY <1>1, FiniteBackups
<1> QED
    BY <1>3, <1>5, <1>6

-----------------------------------------------------------------------------
(* What a policy keeps. *)

\* What is kept is among the backups there are.
LEMMA SelectKeepSubset ==
    ASSUME NEW C PROVE SelectKeep(C) \subseteq C
BY DEF SelectKeep, Newest, SelectPeriodTier

\* applyFloor reaches the floor, or keeps everything.
LEMMA FloorReached ==
    ASSUME NEW C, C \subseteq Backups, NEW keep, keep \subseteq C, NEW exempt, exempt \subseteq Backups
    PROVE  LET K == ApplyFloor(C, keep, exempt)
           IN  K \subseteq C /\ (K = C \/ Cardinality(exempt) + Cardinality(K) >= MinFloor)
<1> DEFINE n == MinFloor - Cardinality(exempt) - Cardinality(keep)
           New == Newest(C \ keep, n)
           K == ApplyFloor(C, keep, exempt)
<1>1. Cardinality(exempt) \in Nat /\ Cardinality(keep) \in Nat /\ MinFloor \in Nat
    BY FiniteBackups, BackupNumbers
<1>2. n \in Int
    BY <1>1
<1>3. K = keep \cup New
    BY DEF ApplyFloor
<1>4. New \subseteq C \ keep /\ (New = C \ keep \/ Cardinality(New) >= n)
    <2>1. C \ keep \subseteq Backups
        OBVIOUS
    <2> HIDE DEF n
    <2> QED
        BY <1>2, <2>1, NewestEnough
<1> HIDE DEF New, K
<1>5. CASE New = C \ keep
    BY <1>3, <1>5 DEF K
<1>6. CASE Cardinality(New) >= n
    <2>1. IsFiniteSet(keep) /\ IsFiniteSet(New) /\ Cardinality(New) \in Nat /\ keep \cap New = {}
        BY <1>4, FiniteBackups
    <2>2. Cardinality(K) = Cardinality(keep) + Cardinality(New) - Cardinality(keep \cap New)
        BY <1>3, <2>1, FS_Union
    <2>3. Cardinality(keep \cap New) = 0
        BY <2>1, FS_EmptySet
    <2>4. Cardinality(exempt) + Cardinality(K) >= MinFloor
        BY <1>1, <1>6, <2>1, <2>2, <2>3
    <2> QED
        BY <1>3, <1>4, <2>4 DEF K
<1> QED
    BY <1>4, <1>5, <1>6

\* applySizeCap evicts nothing, or stops at the floor.
LEMMA CapStopsAtFloor ==
    ASSUME NEW keep, keep \subseteq Backups, NEW exempt, exempt \subseteq Backups
    PROVE  LET K == ApplySizeCap(keep, exempt)
           IN  K \subseteq keep /\ (K = keep \/ Cardinality(exempt) + Cardinality(K) >= MinFloor)
<1> DEFINE K == ApplySizeCap(keep, exempt)
           Rest(b) == {c \in keep : c >= b}
<1>1. K \subseteq keep
    BY DEF ApplySizeCap
<1> SUFFICES ASSUME K # keep PROVE Cardinality(exempt) + Cardinality(K) >= MinFloor
    BY <1>1
<1>2. \A b \in keep \ K : ~(Cardinality(exempt) + Cardinality(Rest(b)) - 1 < MinFloor)
    BY DEF ApplySizeCap
<1> HIDE DEF K
<1>3. PICK b \in keep \ K : \A y \in keep \ K : y <= b
    <2>1. keep \ K \subseteq Backups /\ keep \ K # {}
        BY <1>1
    <2> QED
        BY <2>1, NewestExists
<1>4. Rest(b) \ {b} \subseteq K
    <2> SUFFICES ASSUME NEW c \in keep, c >= b, c # b, c \notin K PROVE FALSE
        OBVIOUS
    <2>1. c <= b /\ c \in Int /\ b \in Int
        BY <1>3, BackupNumbers
    <2> QED
        BY <2>1
<1>5. /\ IsFiniteSet(Rest(b)) /\ Cardinality(Rest(b)) \in Nat /\ b \in Rest(b)
      /\ Cardinality(exempt) \in Nat /\ MinFloor \in Nat
    BY <1>3, FiniteBackups, BackupNumbers
<1>6. Cardinality(Rest(b) \ {b}) = Cardinality(Rest(b)) - 1
    BY <1>5, FS_RemoveElement
<1>7. Cardinality(Rest(b) \ {b}) <= Cardinality(K) /\ Cardinality(K) \in Nat
    <2>1. K \subseteq Backups
        BY <1>1
    <2> QED
        BY <1>4, <2>1, MoreBackups
<1> QED
    BY <1>2, <1>3, <1>5, <1>6, <1>7

\* A policy keeps everything, or at least the floor.
LEMMA KeepAtLeastFloor ==
    ASSUME NEW C, C \subseteq Backups, NEW exempt, exempt \subseteq Backups
    PROVE  /\ Keep(C, exempt) \subseteq C
           /\ Keep(C, exempt) = C \/ Cardinality(exempt) + Cardinality(Keep(C, exempt)) >= MinFloor
<1> DEFINE F == ApplyFloor(C, SelectKeep(C), exempt)
<1>1. F \subseteq C /\ (F = C \/ Cardinality(exempt) + Cardinality(F) >= MinFloor)
    BY SelectKeepSubset, FloorReached
<1>2. Keep(C, exempt) = ApplySizeCap(F, exempt)
    BY DEF Keep
<1> HIDE DEF F
<1>3. F \subseteq Backups
    BY <1>1
<1>4. /\ ApplySizeCap(F, exempt) \subseteq F
      /\ ApplySizeCap(F, exempt) = F
         \/ Cardinality(exempt) + Cardinality(ApplySizeCap(F, exempt)) >= MinFloor
    BY <1>3, CapStopsAtFloor
<1> QED
    BY <1>1, <1>2, <1>4

-----------------------------------------------------------------------------
(* Rows and files. *)

Pcs == {"idle", "load", "exempt", "prune", "file", "row"}
PassRecords == [pc : Pcs, cands : SUBSET Backups, prune : SUBSET Backups]

RowTypes ==
    /\ status \in [Backups -> {"running", "completed", "gone"}]
    /\ rot \in [Rotators -> PassRecords]
    /\ user \in Backups \cup {0}
    /\ pins \in Nat /\ deletes \in Nat

FileTypes == file \in [Backups -> BOOLEAN] /\ pinned \in [Backups -> BOOLEAN]

\* What is to be deleted is not in progress any more, so that no new file
\* appears for it, and the file is gone before the row.
Doomed ==
    /\ \A r \in Rotators :
         /\ \A b \in rot[r].cands \cup rot[r].prune : status[b] # "running"
         /\ rot[r].pc \in {"file", "row"} => rot[r].prune # {}
         /\ rot[r].pc = "row" => ~file[Current(r)]
    /\ user # 0 => status[user] # "running" /\ (~file[user] \/ user \in orphans)

\* The inductive invariant for rows and files.
FileInv == RowTypes /\ FileTypes /\ Doomed /\ RowsAndFiles

\* The backup that a pass deletes next is one of those it has to delete.
LEMMA CurrentToPrune ==
    ASSUME RowTypes, NEW r \in Rotators, rot[r].prune # {}
    PROVE  Current(r) \in rot[r].prune /\ Current(r) \in Backups
<1>1. rot[r].prune \subseteq Backups
    BY DEF RowTypes, PassRecords
<1>2. \E x \in rot[r].prune : \A y \in rot[r].prune : y <= x
    BY <1>1, NewestExists
<1>3. \E x \in rot[r].prune : \A y \in rot[r].prune : x >= y
    BY <1>1, <1>2, BackupNumbers
<1>4. Current(r) \in rot[r].prune
    BY <1>3 DEF Current, Max
<1> QED
    BY <1>1, <1>4

\* RowTypes and FileTypes are inductive.
LEMMA TypesStep == RowTypes /\ FileTypes /\ [Next]_vars => RowTypes' /\ FileTypes'
<1> SUFFICES ASSUME RowTypes, FileTypes, [Next]_vars PROVE RowTypes' /\ FileTypes'
    OBVIOUS
<1> USE DEF RowTypes, FileTypes, bounds
<1>0. Candidates \subseteq Backups /\ Idle \in PassRecords
    BY DEF Candidates, Completed, Idle, PassRecords, Pcs
<1>1. ASSUME NEW r \in Rotators, NEW a \in BOOLEAN, Load(r, a) PROVE RowTypes' /\ FileTypes'
    <2>1. [Idle EXCEPT !.pc = "exempt", !.cands = Candidates] \in PassRecords
        BY <1>0 DEF Idle, PassRecords, Pcs
    <2>2. rot' = [rot EXCEPT ![r] = [Idle EXCEPT !.pc = "exempt", !.cands = Candidates]]
        BY <1>1 DEF Load
    <2>3. rot' \in [Rotators -> PassRecords]
        BY <2>1, <2>2
    <2> QED
        BY <1>1, <2>3 DEF Load
<1>2. ASSUME NEW r \in Rotators, Decide(r) PROVE RowTypes' /\ FileTypes'
    BY <1>2 DEF Decide, PassRecords, Pcs
<1>3. ASSUME NEW r \in Rotators, PruneFind(r) PROVE RowTypes' /\ FileTypes'
    BY <1>3 DEF PruneFind, PassRecords, Pcs
<1>4. ASSUME NEW r \in Rotators, PruneFile(r) PROVE RowTypes' /\ FileTypes'
    BY <1>4 DEF PruneFile, PassRecords, Pcs
<1>5. ASSUME NEW r \in Rotators, PruneFileFails(r) PROVE RowTypes' /\ FileTypes'
    <2>1. /\ UNCHANGED <<status, pinned, user, pins, deletes>>
          /\ rot' = [rot EXCEPT ![r].pc = "prune", ![r].prune = @ \ {Current(r)}]
        BY <1>5 DEF PruneFileFails
    <2>2. RowTypes'
        BY <2>1 DEF PassRecords, Pcs
    <2>3. UNCHANGED file \/ file' = [file EXCEPT ![Current(r)] = FALSE]
        BY <1>5 DEF PruneFileFails
    <2>4. file' \in [Backups -> BOOLEAN]
        BY <2>3
    <2> QED
        BY <2>1, <2>2, <2>4
<1>6. ASSUME NEW r \in Rotators, PruneRow(r) PROVE RowTypes' /\ FileTypes'
    BY <1>0, <1>6 DEF PruneRow, PassRecords, Pcs
<1>7. ASSUME NEW r \in Rotators, PruneEnd(r) PROVE RowTypes' /\ FileTypes'
    BY <1>0, <1>7 DEF PruneEnd
<1>8. ASSUME NEW r \in Rotators, SavePolicy(r) PROVE RowTypes' /\ FileTypes'
    BY <1>8 DEF SavePolicy, PassRecords, Pcs
<1>9. ASSUME NEW b \in Backups, Complete(b) PROVE RowTypes' /\ FileTypes'
    BY <1>9 DEF Complete
<1>10. ASSUME NEW b \in Backups, Pin(b) PROVE RowTypes' /\ FileTypes'
    <2>1. pinned' = [pinned EXCEPT ![b] = ~pinned[b]] /\ UNCHANGED file /\ RowTypes'
        BY <1>10 DEF Pin
    <2>2. (~pinned[b]) \in BOOLEAN
        BY Zenon
    <2>3. pinned' \in [Backups -> BOOLEAN]
        BY <2>1, <2>2, Zenon
    <2> QED
        BY <2>1, <2>3
<1>11. ASSUME NEW b \in Backups, DeleteFile(b) PROVE RowTypes' /\ FileTypes'
    <2>1. RowTypes'
        BY <1>11 DEF DeleteFile
    <2>2. UNCHANGED pinned /\ (UNCHANGED file \/ file' = [file EXCEPT ![b] = FALSE])
        BY <1>11 DEF DeleteFile
    <2>3. file' \in [Backups -> BOOLEAN]
        BY <2>2
    <2> QED
        BY <2>1, <2>2, <2>3
<1>12. CASE DeleteRow
    BY <1>12 DEF DeleteRow
<1>13. CASE RevertPolicy
    BY <1>13 DEF RevertPolicy
<1>14. ASSUME NEW r \in Rotators, PassFails(r) PROVE RowTypes' /\ FileTypes'
    BY <1>0, <1>14 DEF PassFails
<1>15. CASE DeleteRowFails
    BY <1>15 DEF DeleteRowFails
<1>16. CASE Crash
    BY <1>0, <1>16 DEF Crash
<1>17. CASE UNCHANGED vars
    BY <1>17 DEF vars
<1> QED
    BY <1>1, <1>2, <1>3, <1>4, <1>5, <1>6, <1>7, <1>8, <1>9, <1>10, <1>11, <1>12, <1>13, <1>14,
       <1>15, <1>16, <1>17
    DEF Next, Pass

\* What FileInv says of the row that a pass deletes next.
LEMMA CurrentIsDoomed ==
    ASSUME FileInv, NEW r \in Rotators, rot[r].pc \in {"file", "row"}
    PROVE  /\ Current(r) \in rot[r].prune /\ Current(r) \in Backups
           /\ status[Current(r)] \in {"completed", "gone"}
<1>1. rot[r].prune # {}
    BY DEF FileInv, Doomed
<1>2. Current(r) \in rot[r].prune /\ Current(r) \in Backups
    BY <1>1, CurrentToPrune DEF FileInv
<1>3. status[Current(r)] \in {"running", "completed", "gone"} /\ status[Current(r)] # "running"
    BY <1>2 DEF FileInv, Doomed, RowTypes
<1> QED
    BY <1>2, <1>3

\* The steps of a pass before it deletes a file, and those that end it: no row,
\* no file and no other pass changes, and this one is not left between a file
\* and its row, or breaks off there.
LEMMA QuietPass ==
    ASSUME FileInv, NEW r \in Rotators, rot' \in [Rotators -> PassRecords],
           UNCHANGED <<status, file, user, orphans>>, broken \subseteq broken',
           \A q \in Rotators \ {r} : rot'[q] = rot[q],
           rot'[r].pc # "row", rot'[r].pc = "file" => rot'[r].prune # {},
           \A b \in rot'[r].cands \cup rot'[r].prune : status[b] # "running",
           rot[r].pc = "row" => status[Current(r)] = "gone" \/ Current(r) \in broken'
    PROVE  Doomed' /\ RowsAndFiles'
<1>1. \A q \in Rotators \ {r} : Current(q)' = Current(q)
    BY DEF Current
<1>2. Doomed'
    BY <1>1 DEF Doomed, FileInv
<1>3. RowsAndFiles'
    BY <1>1 DEF RowsAndFiles, FileInv, Deleting
<1> QED
    BY <1>2, <1>3

\* FileInv is inductive.
LEMMA FileStep == FileInv /\ [Next]_vars => FileInv'
<1> SUFFICES ASSUME FileInv, [Next]_vars PROVE Doomed' /\ RowsAndFiles'
    BY TypesStep DEF FileInv
<1>0. RowTypes /\ FileTypes /\ RowTypes' /\ FileTypes' /\ Doomed /\ RowsAndFiles
    BY TypesStep DEF FileInv
<1>a. rot \in [Rotators -> PassRecords] /\ rot' \in [Rotators -> PassRecords]
    BY <1>0 DEF RowTypes
<1>1. ASSUME NEW r \in Rotators, NEW a \in BOOLEAN, Load(r, a) PROVE Doomed' /\ RowsAndFiles'
    <2>1. /\ UNCHANGED <<status, file, user, orphans, broken>>
          /\ rot' = [rot EXCEPT ![r] = [Idle EXCEPT !.pc = "exempt", !.cands = Candidates]]
          /\ rot[r].pc # "row"
        BY <1>1 DEF Load
    <2>2. rot'[r] = [pc |-> "exempt", cands |-> Candidates, prune |-> {}]
        BY <1>a, <2>1 DEF Idle
    <2>3. \A b \in Candidates : status[b] # "running"
        BY DEF Candidates, Completed
    <2> QED
        BY <1>a, <2>1, <2>2, <2>3, QuietPass
<1>2. ASSUME NEW r \in Rotators, Decide(r) PROVE Doomed' /\ RowsAndFiles'
    <2>1. /\ UNCHANGED <<status, file, user, orphans, broken>> /\ rot[r].pc # "row"
          /\ \A q \in Rotators \ {r} : rot'[q] = rot[q]
          /\ rot'[r].pc = "prune" /\ rot'[r].cands = rot[r].cands /\ rot'[r].prune \subseteq rot[r].cands
        BY <1>a, <1>2 DEF Decide, PassRecords
    <2> QED
        BY <1>0, <1>a, <2>1, QuietPass DEF Doomed
<1>3. ASSUME NEW r \in Rotators, PruneFind(r) PROVE Doomed' /\ RowsAndFiles'
    <2>1. /\ UNCHANGED <<status, file, user, orphans, broken>> /\ rot[r].pc # "row"
          /\ \A q \in Rotators \ {r} : rot'[q] = rot[q]
          /\ rot'[r].pc \in {"prune", "file"} /\ rot'[r].cands = rot[r].cands
          /\ rot'[r].prune \subseteq rot[r].prune /\ (rot'[r].pc = "file" => rot'[r].prune # {})
        BY <1>a, <1>3 DEF PruneFind, PassRecords
    <2> QED
        BY <1>0, <1>a, <2>1, QuietPass DEF Doomed
<1>4. ASSUME NEW r \in Rotators, PruneFile(r) PROVE Doomed' /\ RowsAndFiles'
    <2>1. PICK b \in Backups : b = Current(r) /\ b \in rot[r].prune /\ rot[r].prune # {}
        BY <1>4, CurrentIsDoomed DEF PruneFile
    <2>2. /\ UNCHANGED <<status, user, orphans, broken>> /\ rot[r].pc = "file"
          /\ file' = [file EXCEPT ![b] = FALSE]
          /\ \A q \in Rotators : rot'[q].cands = rot[q].cands /\ rot'[q].prune = rot[q].prune
          /\ \A q \in Rotators \ {r} : rot'[q].pc = rot[q].pc
          /\ rot'[r].pc = "row"
        BY <1>a, <1>4, <2>1 DEF PruneFile, PassRecords
    <2>3. \A q \in Rotators : Current(q)' = Current(q)
        BY <2>2 DEF Current
    <2>4. ~file'[b] /\ \A c \in Backups : file'[c] => file[c]
        BY <1>0, <2>2 DEF FileTypes
    <2>5. \A c \in Backups \ {b} : file'[c] = file[c]
        BY <1>0, <2>2 DEF FileTypes
    <2>6. \A q \in Rotators : rot[q].pc = "row" => Current(q) \in Backups
        BY CurrentIsDoomed
    <2>7. Doomed'
        BY <1>0, <2>1, <2>2, <2>3, <2>4, <2>6 DEF Doomed, RowTypes
    <2>8. RowsAndFiles'
        BY <1>0, <2>1, <2>2, <2>3, <2>4, <2>5 DEF RowsAndFiles, Deleting, RowTypes
    <2> QED
        BY <2>7, <2>8
<1>5. ASSUME NEW r \in Rotators, PruneFileFails(r) PROVE Doomed' /\ RowsAndFiles'
    <2>1. PICK b \in Backups : b = Current(r) /\ b \in rot[r].prune
        BY <1>5, CurrentIsDoomed DEF PruneFileFails
    <2>2. /\ UNCHANGED <<status, user, orphans>> /\ rot[r].pc = "file"
          /\ \A q \in Rotators \ {r} : rot'[q] = rot[q]
          /\ rot'[r].pc = "prune" /\ rot'[r].cands = rot[r].cands
          /\ rot'[r].prune \subseteq rot[r].prune
        BY <1>a, <1>5 DEF PruneFileFails, PassRecords
    <2>3. CASE UNCHANGED <<file, broken>>
        BY <1>0, <1>a, <2>2, <2>3, QuietPass DEF Doomed
    <2>4. CASE file' = [file EXCEPT ![b] = FALSE] /\ broken' = broken \cup {b}
        <3>1. \A q \in Rotators \ {r} : Current(q)' = Current(q)
            BY <2>2 DEF Current
        <3>2. ~file'[b] /\ \A c \in Backups : file'[c] => file[c]
            BY <1>0, <2>4 DEF FileTypes
        <3>3. \A c \in Backups \ {b} : file'[c] = file[c]
            BY <1>0, <2>4 DEF FileTypes
        <3>4. \A q \in Rotators : rot[q].pc = "row" => Current(q) \in Backups
            BY CurrentIsDoomed
        <3>5. Doomed'
            BY <1>0, <2>2, <3>1, <3>2, <3>4 DEF Doomed, RowTypes
        <3>6. RowsAndFiles'
            BY <1>0, <2>2, <2>4, <3>1, <3>2, <3>3 DEF RowsAndFiles, Deleting, RowTypes
        <3> QED
            BY <3>5, <3>6
    <2>5. \/ UNCHANGED <<file, broken>>
          \/ file' = [file EXCEPT ![b] = FALSE] /\ broken' = broken \cup {b}
        BY <1>5, <2>1 DEF PruneFileFails
    <2> QED
        BY <2>3, <2>4, <2>5
<1>6. ASSUME NEW r \in Rotators, PruneRow(r) PROVE Doomed' /\ RowsAndFiles'
    <2>1. PICK b \in Backups : b = Current(r) /\ b \in rot[r].prune /\ rot[r].pc = "row"
        BY <1>6, CurrentIsDoomed DEF PruneRow
    <2>2. CASE status[b] = "gone"
        <3>1. /\ UNCHANGED <<status, file, user, orphans, broken>>
              /\ rot' = [rot EXCEPT ![r] = Idle]
            BY <1>6, <2>1, <2>2 DEF PruneRow
        <3>2. rot'[r] = [pc |-> "idle", cands |-> {}, prune |-> {}]
            BY <1>a, <3>1 DEF Idle
        <3> QED
            BY <1>a, <2>1, <2>2, <3>1, <3>2, QuietPass
    <2>3. CASE status[b] # "gone"
        <3>1. /\ UNCHANGED <<file, user, orphans, broken>>
              /\ status' = [status EXCEPT ![b] = "gone"]
              /\ \A q \in Rotators \ {r} : rot'[q] = rot[q]
              /\ rot'[r].pc = "prune" /\ rot'[r].cands = rot[r].cands
              /\ rot'[r].prune \subseteq rot[r].prune
            BY <1>a, <1>6, <2>1, <2>3 DEF PruneRow, PassRecords
        <3>2. \A q \in Rotators \ {r} : Current(q)' = Current(q)
            BY <3>1 DEF Current
        <3>3. /\ \A c \in Backups : status[c] # "running" => status'[c] # "running"
              /\ \A c \in Backups \ {b} : status'[c] = status[c]
              /\ status'[b] = "gone" /\ DOMAIN status = Backups /\ DOMAIN status' = Backups
            BY <1>0, <3>1 DEF RowTypes
        <3>4. \A q \in Rotators : rot[q].cands \cup rot[q].prune \subseteq Backups
            BY <1>a DEF PassRecords
        <3>5. Doomed'
            BY <1>0, <2>1, <3>1, <3>2, <3>3, <3>4 DEF Doomed, RowTypes
        <3>6. ~file[b]
            BY <1>0, <2>1 DEF Doomed
        <3>7. RowsAndFiles'
            BY <1>0, <2>1, <3>1, <3>2, <3>3, <3>6 DEF RowsAndFiles, Deleting
        <3> QED
            BY <3>5, <3>7
    <2> QED
        BY <2>2, <2>3
<1>7. ASSUME NEW r \in Rotators, PruneEnd(r) PROVE Doomed' /\ RowsAndFiles'
    <2>1. /\ UNCHANGED <<status, file, user, orphans, broken>> /\ rot[r].pc # "row"
          /\ rot' = [rot EXCEPT ![r] = Idle]
        BY <1>7 DEF PruneEnd
    <2>2. rot'[r] = [pc |-> "idle", cands |-> {}, prune |-> {}]
        BY <1>a, <2>1 DEF Idle
    <2> QED
        BY <1>a, <2>1, <2>2, QuietPass
<1>8. ASSUME NEW r \in Rotators, SavePolicy(r) PROVE Doomed' /\ RowsAndFiles'
    <2>1. /\ UNCHANGED <<status, file, user, orphans, broken>> /\ rot[r].pc # "row"
          /\ \A q \in Rotators \ {r} : rot'[q] = rot[q]
          /\ rot'[r].pc = "load" /\ rot'[r].cands = rot[r].cands /\ rot'[r].prune = rot[r].prune
        BY <1>a, <1>8 DEF SavePolicy, PassRecords
    <2> QED
        BY <1>0, <1>a, <2>1, QuietPass DEF Doomed
<1>9. ASSUME NEW b \in Backups, Complete(b) PROVE Doomed' /\ RowsAndFiles'
    <2>1. /\ UNCHANGED <<rot, user, orphans, broken>> /\ status[b] = "running"
          /\ status' = [status EXCEPT ![b] = "completed"] /\ file' = [file EXCEPT ![b] = TRUE]
        BY <1>9 DEF Complete
    <2>2. /\ \A c \in Backups \ {b} : status'[c] = status[c]
          /\ status'[b] = "completed" /\ DOMAIN status = Backups /\ DOMAIN status' = Backups
        BY <1>0, <2>1 DEF RowTypes
    <2>3. file'[b] /\ \A c \in Backups \ {b} : file'[c] = file[c]
        BY <1>0, <2>1 DEF FileTypes
    <2>4. \A q \in Rotators : Current(q)' = Current(q)
        BY <2>1 DEF Current
    <2>5. \A q \in Rotators : rot[q].cands \cup rot[q].prune \subseteq Backups \ {b}
        BY <1>0, <1>a, <2>1 DEF PassRecords, Doomed
    <2>6. \A q \in Rotators : rot[q].pc = "row" => Current(q) \in Backups \ {b}
        BY <2>5, CurrentIsDoomed
    <2>7. user # 0 => user \in Backups \ {b}
        BY <1>0, <2>1 DEF Doomed, RowTypes
    <2>8. Doomed'
        BY <1>0, <2>1, <2>2, <2>3, <2>4, <2>5, <2>6, <2>7 DEF Doomed
    <2>9. RowsAndFiles'
        BY <1>0, <2>1, <2>2, <2>3, <2>4 DEF RowsAndFiles, Deleting
    <2> QED
        BY <2>8, <2>9
<1>10. ASSUME UNCHANGED <<status, file, rot, user, orphans, broken>> PROVE Doomed' /\ RowsAndFiles'
    <2>1. \A q \in Rotators : Current(q)' = Current(q)
        BY <1>10 DEF Current
    <2> QED
        BY <1>0, <1>10, <2>1 DEF Doomed, RowsAndFiles, Deleting
<1>11. ASSUME NEW b \in Backups, DeleteFile(b) PROVE Doomed' /\ RowsAndFiles'
    <2>1. /\ UNCHANGED <<status, rot, broken>> /\ status[b] = "completed" /\ user = 0 /\ user' = b
          /\ orphans \subseteq orphans'
        BY <1>11 DEF DeleteFile
    <2>2. \A q \in Rotators : Current(q)' = Current(q)
        BY <2>1 DEF Current
    <2>3. /\ \A c \in Backups \ {b} : file'[c] = file[c]
          /\ ~file'[b] \/ b \in orphans'
          /\ \A c \in Backups : file'[c] => file[c]
        BY <1>0, <1>11 DEF DeleteFile, FileTypes
    <2>4. \A q \in Rotators : rot[q].pc = "row" => Current(q) \in Backups
        BY CurrentIsDoomed
    <2>5. Doomed'
        BY <1>0, <2>1, <2>2, <2>3, <2>4 DEF Doomed
    <2>6. \A c \in Backups : Deleting(c) => Deleting(c)'
        BY <2>1, <2>2, BackupNumbers DEF Deleting, Backups
    <2>7. Deleting(b)' /\ DOMAIN status = Backups
        BY <1>0, <2>1 DEF Deleting, RowTypes
    <2>8. RowsAndFiles'
        BY <1>0, <2>1, <2>3, <2>6, <2>7 DEF RowsAndFiles
    <2> QED
        BY <2>5, <2>8
<1>12. CASE DeleteRow
    <2>1. PICK b \in Backups : b = user /\ b # 0
        BY <1>0, <1>12, BackupNumbers DEF DeleteRow, RowTypes, Backups
    <2>2. /\ UNCHANGED <<file, rot, orphans, broken>> /\ user' = 0
          /\ status' = [status EXCEPT ![b] = "gone"]
        BY <1>12, <2>1 DEF DeleteRow
    <2>3. \A q \in Rotators : Current(q)' = Current(q)
        BY <2>2 DEF Current
    <2>4. /\ \A c \in Backups : status[c] # "running" => status'[c] # "running"
          /\ \A c \in Backups \ {b} : status'[c] = status[c]
          /\ status'[b] = "gone" /\ DOMAIN status = Backups /\ DOMAIN status' = Backups
        BY <1>0, <2>2 DEF RowTypes
    <2>5. \A q \in Rotators : rot[q].cands \cup rot[q].prune \subseteq Backups
        BY <1>a DEF PassRecords
    <2>6. Doomed'
        BY <1>0, <2>2, <2>3, <2>4, <2>5 DEF Doomed
    <2>7. ~file[b] \/ b \in orphans
        BY <1>0, <2>1 DEF Doomed
    <2>8. RowsAndFiles'
        BY <1>0, <2>1, <2>2, <2>3, <2>4, <2>7 DEF RowsAndFiles, Deleting
    <2> QED
        BY <2>6, <2>8
<1>13. ASSUME NEW b \in Backups, Pin(b) PROVE Doomed' /\ RowsAndFiles'
    BY <1>10, <1>13 DEF Pin
<1>14. CASE RevertPolicy
    BY <1>10, <1>14 DEF RevertPolicy
<1>15. ASSUME NEW r \in Rotators, PassFails(r) PROVE Doomed' /\ RowsAndFiles'
    <2>1. /\ UNCHANGED <<status, file, user, orphans>> /\ broken \subseteq broken'
          /\ rot[r].pc = "row" => Current(r) \in broken'
          /\ rot' = [rot EXCEPT ![r] = Idle]
        BY <1>15 DEF PassFails
    <2>2. rot'[r] = [pc |-> "idle", cands |-> {}, prune |-> {}]
        BY <1>a, <2>1 DEF Idle
    <2> QED
        BY <1>a, <2>1, <2>2, QuietPass
<1>16. CASE DeleteRowFails
    <2>1. /\ UNCHANGED <<status, file, rot, orphans>> /\ user' = 0
          /\ broken' = broken \cup {user}
        BY <1>16 DEF DeleteRowFails
    <2>2. \A q \in Rotators : Current(q)' = Current(q)
        BY <2>1 DEF Current
    <2> QED
        BY <1>0, <2>1, <2>2 DEF Doomed, RowsAndFiles, Deleting
<1>17. CASE Crash
    <2>1. /\ UNCHANGED <<status, file, orphans>> /\ user' = 0
          /\ rot' = [r \in Rotators |-> Idle]
          /\ broken' = broken \cup {b \in Backups : Deleting(b)}
        BY <1>17 DEF Crash
    <2>2. Doomed'
        BY <2>1 DEF Doomed, Idle
    <2>3. RowsAndFiles'
        BY <1>0, <2>1 DEF RowsAndFiles, RowTypes
    <2> QED
        BY <2>2, <2>3
<1>18. CASE UNCHANGED vars
    BY <1>10, <1>18 DEF vars
<1> QED
    BY <1>1, <1>2, <1>3, <1>4, <1>5, <1>6, <1>7, <1>8, <1>9, <1>11, <1>12, <1>13, <1>14, <1>15,
       <1>16, <1>17, <1>18 DEF Next, Pass

\* FileInv holds initially.
LEMMA FileInit == Init => FileInv
<1> SUFFICES ASSUME Init PROVE FileInv
    OBVIOUS
<1>1. RowTypes
    BY BackupNumbers DEF Init, RowTypes, PassRecords, Pcs, Idle
<1>2. FileTypes
    BY DEF Init, FileTypes
<1>3. \A r \in Rotators : rot[r] = Idle
    BY DEF Init
<1>4. Doomed
    BY <1>3 DEF Init, Doomed, Idle
<1>5. RowsAndFiles
    BY DEF Init, RowsAndFiles
<1> QED
    BY <1>1, <1>2, <1>4, <1>5 DEF FileInv

\* database-backup.ts: however many passes overlap with each other, with running
\* backups and with deletions by users, whatever call fails in them and however
\* often the process restarts, a completed backup without its file is one that
\* is being deleted or whose deletion broke off after its file, and no file
\* outlives its row but one a user's deletion gave up on.
THEOREM RowsAndFilesHolds == Spec => []RowsAndFiles
<1>1. Init => FileInv
    BY FileInit
<1>2. FileInv => RowsAndFiles
    BY DEF FileInv
<1> QED
    BY <1>1, <1>2, FileStep, PTL DEF Spec

-----------------------------------------------------------------------------
(* The floor. *)

\* Nobody has pinned or deleted a backup, and no two passes have overlapped.
Calm == pins = 0 /\ deletes = 0 /\ ~overlapped

\* What a pass knows stays true while it goes on: its candidates are completed,
\* and the floor holds without all that it still has to delete.
Decided(r) ==
    /\ rot[r].pc = "exempt" => rot[r].cands \subseteq Completed \ Manual
    /\ Underway(r) /\ rot[r].pc # "exempt" =>
         /\ rot[r].prune \subseteq Completed
         /\ rot[r].prune # {} => Cardinality(Completed \ rot[r].prune) >= MinFloor

FloorInv ==
    Calm =>
      /\ user = 0 /\ \A b \in Backups : ~pinned[b]
      /\ \A q, r \in Rotators : Underway(q) /\ Underway(r) => q = r
      /\ \A r \in Rotators : Decided(r)
      /\ pruned # {} => Cardinality(Completed) >= MinFloor

\* The decision of a pass leaves the floor untouched by what it deletes.
LEMMA DecisionKeepsFloor ==
    ASSUME RowTypes, NEW C, C \subseteq Completed \ Manual, \A b \in Backups : ~pinned[b],
           NEW P, P = C \ Keep(C, Exempt)
    PROVE  /\ P \subseteq Completed
           /\ P # {} => Cardinality(Completed \ P) >= MinFloor
<1> DEFINE K == Keep(C, Exempt)
           E == Exempt
<1>1. Completed \subseteq Backups /\ E \subseteq Completed \cap Manual
    BY DEF Completed, Exempt, RowTypes
<1>2. C \subseteq Backups /\ E \subseteq Backups
    BY <1>1
<1>3. K \subseteq C /\ (K = C \/ Cardinality(E) + Cardinality(K) >= MinFloor)
    BY <1>2, KeepAtLeastFloor
<1>4. P = C \ K
    OBVIOUS
<1> HIDE DEF K, E
<1> SUFFICES ASSUME P # {} PROVE Cardinality(Completed \ P) >= MinFloor
    BY <1>4
<1>5. Cardinality(E) + Cardinality(K) >= MinFloor
    BY <1>3, <1>4
<1>6. IsFiniteSet(E) /\ IsFiniteSet(K) /\ Cardinality(E) \in Nat /\ Cardinality(K) \in Nat
    BY <1>2, <1>3, FiniteBackups
<1>7. E \cap K = {}
    BY <1>1, <1>3
<1>8. Cardinality(E \cup K) = Cardinality(E) + Cardinality(K) - Cardinality(E \cap K)
    BY <1>6, FS_Union
<1>9. Cardinality(E \cap K) = 0
    BY <1>7, FS_EmptySet
<1>10. E \cup K \subseteq Completed \ P /\ Completed \ P \subseteq Backups
    BY <1>1, <1>3, <1>4
<1>11. /\ Cardinality(E \cup K) <= Cardinality(Completed \ P)
       /\ Cardinality(E \cup K) \in Nat /\ Cardinality(Completed \ P) \in Nat
    BY <1>10, MoreBackups
<1> QED
    BY <1>5, <1>6, <1>8, <1>9, <1>11, BackupNumbers

\* A step that changes no row and only the record of one pass.
LEMMA PassKeepsFloor ==
    ASSUME RowTypes, FloorInv, NEW r \in Rotators, rot' \in [Rotators -> PassRecords],
           UNCHANGED <<status, pinned, user, pruned, pins, deletes>>,
           overlapped => overlapped',
           \A q \in Rotators \ {r} : rot'[q] = rot[q],
           Calm => Decided(r)',
           Calm' /\ Underway(r)' /\ ~Underway(r) => \A q \in Rotators \ {r} : ~Underway(q)
    PROVE  FloorInv'
<1> SUFFICES ASSUME Calm' PROVE FloorInv'
    BY DEF FloorInv
<1>1. Calm
    BY DEF Calm
<1>2. Completed' = Completed
    BY DEF Completed
<1>3. \A q \in Rotators \ {r} : (Underway(q)' <=> Underway(q)) /\ (Decided(q)' <=> Decided(q))
    BY <1>2 DEF Underway, Decided
<1> QED
    BY <1>1, <1>2, <1>3 DEF FloorInv

\* A step that leaves everything FloorInv speaks of alone.
LEMMA FloorStutter ==
    ASSUME FloorInv, UNCHANGED <<status, pinned, user, pruned, pins, deletes, overlapped, rot>>
    PROVE  FloorInv'
<1>1. /\ Completed' = Completed /\ (Calm' <=> Calm)
      /\ \A q \in Rotators : Underway(q)' <=> Underway(q)
    BY DEF Completed, Calm, Underway
<1>2. \A q \in Rotators : Decided(q)' <=> Decided(q)
    BY <1>1 DEF Decided
<1> QED
    BY <1>1, <1>2 DEF FloorInv

\* FloorInv is inductive.
LEMMA FloorStep == FileInv /\ FloorInv /\ [Next]_vars => FloorInv'
<1> SUFFICES ASSUME FileInv, RowTypes, FloorInv, [Next]_vars PROVE FloorInv'
    BY DEF FileInv
<1>0. RowTypes' /\ rot \in [Rotators -> PassRecords] /\ rot' \in [Rotators -> PassRecords]
    BY TypesStep DEF RowTypes, FileInv
<1>a. Completed \subseteq Backups
    BY DEF Completed, RowTypes
<1>1. ASSUME NEW r \in Rotators, NEW a \in BOOLEAN, Load(r, a) PROVE FloorInv'
    <2>1. /\ UNCHANGED <<status, pinned, user, pruned, pins, deletes>>
          /\ rot' = [rot EXCEPT ![r] = [Idle EXCEPT !.pc = "exempt", !.cands = Candidates]]
          /\ overlapped' = (overlapped \/ \E q \in Rotators \ {r} : Underway(q))
        BY <1>1 DEF Load
    <2>2. rot'[r] = [pc |-> "exempt", cands |-> Candidates, prune |-> {}]
        BY <1>0, <2>1 DEF Idle
    <2>3. Candidates \subseteq Completed \ Manual /\ Completed' = Completed
        BY <2>1 DEF Candidates, Completed
    <2>4. Decided(r)'
        BY <2>2, <2>3 DEF Decided
    <2>5. Calm' => \A q \in Rotators \ {r} : ~Underway(q)
        BY <2>1 DEF Calm
    <2>6. overlapped => overlapped'
        BY <2>1
    <2>7. \A q \in Rotators \ {r} : rot'[q] = rot[q]
        BY <1>0, <2>1
    <2> QED
        BY <1>0, <2>1, <2>4, <2>5, <2>6, <2>7, PassKeepsFloor
<1>2. ASSUME NEW r \in Rotators, Decide(r) PROVE FloorInv'
    <2>1. /\ UNCHANGED <<status, pinned, user, pruned, pins, deletes, overlapped>>
          /\ rot[r].pc = "exempt"
          /\ \A q \in Rotators \ {r} : rot'[q] = rot[q]
          /\ rot'[r].pc = "prune" /\ rot'[r].prune = rot[r].cands \ Keep(rot[r].cands, Exempt)
        BY <1>0, <1>2 DEF Decide, PassRecords, bounds
    <2>2. Completed' = Completed /\ Underway(r)
        BY <2>1 DEF Completed, Underway
    <2>3. ASSUME Calm PROVE Decided(r)'
        <3>1. rot[r].cands \subseteq Completed \ Manual /\ \A b \in Backups : ~pinned[b]
            BY <2>1, <2>3 DEF FloorInv, Decided
        <3>2. /\ rot'[r].prune \subseteq Completed
              /\ rot'[r].prune # {} => Cardinality(Completed \ rot'[r].prune) >= MinFloor
            BY <2>1, <3>1, DecisionKeepsFloor
        <3> QED
            BY <2>1, <2>2, <3>2 DEF Decided
    <2> QED
        BY <1>0, <2>1, <2>2, <2>3, PassKeepsFloor
<1>3. ASSUME NEW r \in Rotators, rot[r].pc \in {"prune", "file"}, rot'[r].pc \in {"prune", "file", "row"},
             rot'[r].prune \subseteq rot[r].prune,
             \A q \in Rotators \ {r} : rot'[q] = rot[q],
             UNCHANGED <<status, pinned, user, pruned, pins, deletes, overlapped>>
      PROVE  FloorInv'
    <2>1. Completed' = Completed /\ Underway(r)
        BY <1>3 DEF Completed, Underway
    <2>2. ASSUME Calm PROVE Decided(r)'
        <3>1. /\ rot[r].prune \subseteq Completed
              /\ rot[r].prune # {} => Cardinality(Completed \ rot[r].prune) >= MinFloor
            BY <1>3, <2>1, <2>2 DEF FloorInv, Decided
        <3>2. Completed \ rot[r].prune \subseteq Completed \ rot'[r].prune
            BY <1>3
        <3>3. /\ Cardinality(Completed \ rot[r].prune) <= Cardinality(Completed \ rot'[r].prune)
              /\ Cardinality(Completed \ rot[r].prune) \in Nat /\ Cardinality(Completed \ rot'[r].prune) \in Nat
            BY <1>a, <3>2, MoreBackups
        <3>4. rot'[r].prune # {} => Cardinality(Completed \ rot'[r].prune) >= MinFloor
            BY <1>3, <3>1, <3>3, BackupNumbers
        <3> QED
            BY <1>3, <2>1, <3>1, <3>4 DEF Decided
    <2> QED
        BY <1>0, <1>3, <2>1, <2>2, PassKeepsFloor
<1>4. ASSUME NEW r \in Rotators, PruneFind(r) \/ PruneFile(r) \/ PruneFileFails(r) PROVE FloorInv'
    <2>1. /\ rot[r].pc \in {"prune", "file"} /\ rot'[r].pc \in {"prune", "file", "row"}
          /\ rot'[r].prune \subseteq rot[r].prune
          /\ \A q \in Rotators \ {r} : rot'[q] = rot[q]
        BY <1>0, <1>4 DEF PruneFind, PruneFile, PruneFileFails, PassRecords
    <2>2. UNCHANGED <<status, pinned, user, pruned, pins, deletes, overlapped>>
        BY <1>4 DEF PruneFind, PruneFile, PruneFileFails, bounds
    <2> QED
        BY <1>3, <2>1, <2>2
<1>5. ASSUME NEW r \in Rotators, rot'[r].pc \in {"idle", "load"},
             \A q \in Rotators \ {r} : rot'[q] = rot[q],
             UNCHANGED <<status, pinned, user, pruned, pins, deletes, overlapped>>
      PROVE  FloorInv'
    <2>1. ~Underway(r)' /\ Decided(r)'
        BY <1>5 DEF Underway, Decided
    <2> QED
        BY <1>0, <1>5, <2>1, PassKeepsFloor
<1>6. ASSUME NEW r \in Rotators, PruneEnd(r) \/ SavePolicy(r) \/ PassFails(r) PROVE FloorInv'
    <2>1. rot'[r].pc \in {"idle", "load"} /\ \A q \in Rotators \ {r} : rot'[q] = rot[q]
        BY <1>0, <1>6 DEF PruneEnd, SavePolicy, PassFails, PassRecords, Idle
    <2>2. UNCHANGED <<status, pinned, user, pruned, pins, deletes, overlapped>>
        BY <1>6 DEF PruneEnd, SavePolicy, PassFails, bounds
    <2> QED
        BY <1>5, <2>1, <2>2
<1>7. ASSUME NEW r \in Rotators, PruneRow(r) PROVE FloorInv'
    <2>1. CASE status[Current(r)] = "gone"
        <3>1. rot' = [rot EXCEPT ![r] = Idle]
              /\ UNCHANGED <<status, pinned, user, pruned, pins, deletes, overlapped>>
            BY <1>7, <2>1 DEF PruneRow, bounds
        <3>2. rot'[r].pc \in {"idle", "load"} /\ \A q \in Rotators \ {r} : rot'[q] = rot[q]
            BY <1>0, <3>1 DEF Idle
        <3> QED
            BY <1>5, <3>1, <3>2
    <2>2. CASE status[Current(r)] # "gone"
        <3> SUFFICES ASSUME Calm' PROVE FloorInv'
            BY DEF FloorInv
        <3>1. PICK b : b = Current(r)
            OBVIOUS
        <3>2. /\ rot[r].pc = "row"
              /\ status' = [status EXCEPT ![b] = "gone"] /\ pruned' = pruned \cup {b}
              /\ rot' = [rot EXCEPT ![r].pc = "prune", ![r].prune = rot[r].prune \ {b}]
              /\ UNCHANGED <<pinned, user, pins, deletes, overlapped>>
            BY <1>7, <2>2, <3>1 DEF PruneRow, bounds
        <3>3. /\ \A q \in Rotators \ {r} : rot'[q] = rot[q]
              /\ rot'[r].pc = "prune" /\ rot'[r].prune = rot[r].prune \ {b}
            BY <1>0, <3>2 DEF PassRecords
        <3>4. Calm /\ Underway(r) /\ Underway(r)'
            BY <3>2, <3>3 DEF Calm, Underway
        <3>5. \A q \in Rotators \ {r} : ~Underway(q) /\ ~Underway(q)'
            BY <3>3, <3>4 DEF FloorInv, Underway
        <3>6. /\ rot[r].prune \subseteq Completed
              /\ rot[r].prune # {} => Cardinality(Completed \ rot[r].prune) >= MinFloor
            BY <3>2, <3>4 DEF FloorInv, Decided
        <3>7. Completed' = Completed \ {b}
            BY <3>2 DEF Completed, RowTypes
        <3>8. b \in rot[r].prune
            BY <3>1, <3>2, CurrentIsDoomed
        <3>9. /\ Completed' \ rot'[r].prune = Completed \ rot[r].prune
              /\ rot'[r].prune \subseteq Completed'
            BY <3>3, <3>6, <3>7, <3>8
        <3>10. Cardinality(Completed \ rot[r].prune) >= MinFloor
            BY <3>6, <3>8
        <3>11. /\ Cardinality(Completed \ rot[r].prune) <= Cardinality(Completed')
               /\ Cardinality(Completed \ rot[r].prune) \in Nat /\ Cardinality(Completed') \in Nat
            <4>1. Completed' \subseteq Backups /\ Completed \ rot[r].prune \subseteq Completed'
                BY <1>a, <3>7, <3>8
            <4> QED
                BY <4>1, MoreBackups
        <3>12. Cardinality(Completed') >= MinFloor
            BY <3>10, <3>11, BackupNumbers
        <3>13. Decided(r)'
            BY <3>3, <3>9, <3>10 DEF Decided
        <3>14. \A q \in Rotators \ {r} : Decided(q)'
            BY <3>5 DEF Decided, Underway
        <3>15. user' = 0 /\ \A c \in Backups : ~pinned'[c]
            BY <3>2, <3>4 DEF FloorInv
        <3> QED
            BY <3>5, <3>12, <3>13, <3>14, <3>15 DEF FloorInv
    <2> QED
        BY <2>1, <2>2
<1>8. ASSUME NEW b \in Backups, Complete(b) PROVE FloorInv'
    <2> SUFFICES ASSUME Calm' PROVE FloorInv'
        BY DEF FloorInv
    <2>1. /\ UNCHANGED <<pinned, rot, user, pruned, pins, deletes, overlapped>>
          /\ status' = [status EXCEPT ![b] = "completed"]
        BY <1>8 DEF Complete, bounds
    <2>2. Completed \subseteq Completed' /\ Completed' \subseteq Backups
        BY <2>1 DEF Completed, RowTypes
    <2>3. Calm /\ \A q \in Rotators : Underway(q)' <=> Underway(q)
        BY <2>1 DEF Calm, Underway
    <2>4. ASSUME NEW r \in Rotators PROVE Decided(r)'
        <3>1. Decided(r) /\ rot'[r] = rot[r] /\ (Underway(r)' <=> Underway(r))
            BY <2>1, <2>3 DEF FloorInv
        <3>2. /\ Cardinality(Completed \ rot[r].prune) <= Cardinality(Completed' \ rot[r].prune)
              /\ Cardinality(Completed \ rot[r].prune) \in Nat /\ Cardinality(Completed' \ rot[r].prune) \in Nat
            <4>1. /\ Completed' \ rot[r].prune \subseteq Backups
                  /\ Completed \ rot[r].prune \subseteq Completed' \ rot[r].prune
                BY <2>2
            <4> QED
                BY <4>1, MoreBackups
        <3>3. rot[r].pc = "exempt" => rot[r].cands \subseteq Completed' \ Manual
            BY <2>2, <3>1 DEF Decided
        <3>4. Underway(r) /\ rot[r].pc # "exempt" =>
                /\ rot[r].prune \subseteq Completed'
                /\ rot[r].prune # {} => Cardinality(Completed' \ rot[r].prune) >= MinFloor
            BY <2>2, <3>1, <3>2, BackupNumbers DEF Decided
        <3> QED
            BY <3>1, <3>3, <3>4 DEF Decided
    <2>5. pruned # {} => Cardinality(Completed') >= MinFloor
        <3>1. /\ Cardinality(Completed) <= Cardinality(Completed')
              /\ Cardinality(Completed) \in Nat /\ Cardinality(Completed') \in Nat
            BY <2>2, MoreBackups
        <3>2. pruned # {} => Cardinality(Completed) >= MinFloor
            BY <2>3 DEF FloorInv
        <3> QED
            BY <3>1, <3>2, BackupNumbers
    <2>6. /\ user' = 0 /\ \A c \in Backups : ~pinned'[c]
          /\ \A q, r \in Rotators : Underway(q) /\ Underway(r) => q = r
        BY <2>1, <2>3 DEF FloorInv
    <2> QED
        BY <2>1, <2>3, <2>4, <2>5, <2>6 DEF FloorInv
<1>9. ASSUME NEW b \in Backups, Pin(b) \/ DeleteFile(b) PROVE FloorInv'
    <2>1. pins' = pins + 1 \/ deletes' = deletes + 1
        BY <1>9 DEF Pin, DeleteFile
    <2>2. pins \in Nat /\ deletes \in Nat /\ pins' \in Nat /\ deletes' \in Nat
        BY <1>0 DEF RowTypes
    <2>3. ~(pins' = 0 /\ deletes' = 0)
        BY <2>1, <2>2, <1>9 DEF Pin, DeleteFile
    <2> QED
        BY <2>3 DEF FloorInv, Calm
<1>10. CASE DeleteRow \/ DeleteRowFails
    <2>1. user # 0 /\ UNCHANGED <<pins, deletes, overlapped>>
        BY <1>10 DEF DeleteRow, DeleteRowFails, bounds
    <2> QED
        BY <2>1 DEF FloorInv, Calm
<1>11. CASE RevertPolicy
    BY <1>11, FloorStutter DEF RevertPolicy, bounds
<1>12. CASE Crash
    <2>1. /\ UNCHANGED <<status, pinned, pruned, pins, deletes, overlapped>> /\ user' = 0
          /\ \A r \in Rotators : rot'[r].pc = "idle"
        BY <1>12 DEF Crash, Idle
    <2>2. Completed' = Completed /\ (Calm' <=> Calm)
        BY <2>1 DEF Completed, Calm
    <2>3. \A r \in Rotators : ~Underway(r)' /\ Decided(r)'
        BY <2>1 DEF Underway, Decided
    <2> QED
        BY <2>1, <2>2, <2>3 DEF FloorInv
<1>13. CASE UNCHANGED vars
    BY <1>13, FloorStutter DEF vars, bounds
<1> QED
    BY <1>1, <1>2, <1>4, <1>6, <1>7, <1>8, <1>9, <1>10, <1>11, <1>12, <1>13 DEF Next, Pass

\* applyFloor and applySizeCap, for any policy and any number of backups: as
\* long as the passes follow one another and nobody pins or deletes a backup,
\* rotation never leaves fewer completed backups than minFloor, whatever
\* completes between its two queries and whatever the storage refuses.
THEOREM FloorKeptHolds == Spec => []FloorKept
<1>1. Init => FileInv
    BY FileInit
<1>2. Init => FloorInv
    <2> SUFFICES ASSUME Init PROVE FloorInv
        OBVIOUS
    <2>1. /\ user = 0 /\ pruned = {} /\ \A b \in Backups : ~pinned[b]
          /\ \A r \in Rotators : rot[r].pc = "idle"
        BY DEF Init, Idle
    <2>2. \A r \in Rotators : ~Underway(r) /\ Decided(r)
        BY <2>1 DEF Underway, Decided
    <2> QED
        BY <2>1, <2>2 DEF FloorInv
<1>3. FloorInv => FloorKept
    BY DEF FloorInv, FloorKept, Calm
<1> QED
    BY <1>1, <1>2, <1>3, FileStep, FloorStep, PTL DEF Spec

-----------------------------------------------------------------------------
(* What a policy keeps, it keeps again. *)

\* A set of backups that is not empty has an oldest one.
LEMMA OldestExists ==
    ASSUME NEW S, S \subseteq Backups, S # {}
    PROVE  \E x \in S : \A y \in S : x <= y
<1> DEFINE R == OpToRel(<, Nat)
<1>1. S \subseteq Nat
    BY DEF Backups
<1>2. IsWellFoundedOn(R, Nat)
    BY NatLessThanWellFounded
<1>3. \A x, y \in Nat : y < x => <<y, x>> \in R
    BY DEF OpToRel
<1> HIDE DEF R
<1>4. PICK x \in S : \A y \in S : ~(<<y, x>> \in R)
    BY <1>1, <1>2, WFMin
<1>5. \A y \in S : ~(y < x) /\ x \in Nat /\ y \in Nat
    BY <1>1, <1>3, <1>4, Zenon
<1> QED
    BY <1>5

\* The bytes of a set of backups are finitely many.
LEMMA FiniteBytes ==
    ASSUME NEW S, S \subseteq Backups PROVE IsFiniteSet(Bytes(S)) /\ Total(S) \in Nat
<1> DEFINE File(b) == {b} \X (1 .. SizeOf[b])
           Files == {File(b) : b \in S}
           f == [b \in S |-> File(b)]
<1>1. f \in Surjection(S, Files)
    BY DEF Surjection
<1>2. IsFiniteSet(Files)
    <2>1. IsFiniteSet(S)
        BY FiniteBackups
    <2> HIDE DEF f, Files
    <2> QED
        BY <1>1, <2>1, FS_Surjection
<1>3. ASSUME NEW T \in Files PROVE IsFiniteSet(T)
    <2>1. PICK b \in S : T = File(b)
        BY <1>3
    <2>2. SizeOf[b] \in Int
        BY RotationAssumption
    <2>3. IsFiniteSet(1 .. SizeOf[b])
        BY <2>2, FS_Interval
    <2>4. IsFiniteSet({b})
        BY FS_Singleton
    <2> QED
        BY <2>1, <2>3, <2>4, FS_Product
<1>4. IsFiniteSet(UNION Files)
    <2> HIDE DEF Files
    <2> QED
        BY <1>2, <1>3, FS_UNION
<1>5. Bytes(S) = UNION Files
    BY DEF Bytes
<1> QED
    BY <1>4, <1>5, FS_CardinalityType DEF Total

\* More backups have more bytes.
LEMMA MoreBytes ==
    ASSUME NEW S, S \subseteq Backups, NEW T, T \subseteq S PROVE Total(T) <= Total(S)
<1>1. Bytes(T) \subseteq Bytes(S)
    BY DEF Bytes
<1> QED
    BY <1>1, FiniteBytes, FS_Subset DEF Total

\* The bytes of backups that differ add up.
LEMMA BytesAddUp ==
    ASSUME NEW S, S \subseteq Backups, NEW T, T \subseteq Backups, S \cap T = {}
    PROVE  Total(S \cup T) = Total(S) + Total(T)
<1>1. Bytes(S \cup T) = Bytes(S) \cup Bytes(T)
    BY DEF Bytes
<1>2. Bytes(S) \cap Bytes(T) = {}
    <2> SUFFICES ASSUME NEW x \in Bytes(S), x \in Bytes(T) PROVE FALSE
        OBVIOUS
    <2>1. PICK b \in S : x \in {b} \X (1 .. SizeOf[b])
        BY DEF Bytes
    <2>2. PICK c \in T : x \in {c} \X (1 .. SizeOf[c])
        BY DEF Bytes
    <2>3. x[1] = b /\ x[1] = c
        BY <2>1, <2>2
    <2> QED
        BY <2>3
<1>3. /\ IsFiniteSet(Bytes(S)) /\ IsFiniteSet(Bytes(T))
      /\ Total(S) \in Nat /\ Total(T) \in Nat
    BY FiniteBytes
<1>4. Cardinality(Bytes(S) \cup Bytes(T)) =
        Cardinality(Bytes(S)) + Cardinality(Bytes(T)) - Cardinality(Bytes(S) \cap Bytes(T))
    BY <1>3, FS_Union
<1>5. Cardinality(Bytes(S) \cap Bytes(T)) = 0
    BY <1>2, FS_EmptySet
<1>6. Total(S \cup T) = Total(S) + Total(T) - 0
    BY <1>1, <1>4, <1>5 DEF Total
<1> QED
    BY <1>3, <1>6

\* Among fewer backups each one is no further from the newest.
LEMMA NewestWithin ==
    ASSUME NEW C, C \subseteq Backups, NEW K, K \subseteq C, NEW n \in Int
    PROVE  Newest(C, n) \cap K \subseteq Newest(K, n)
<1> SUFFICES ASSUME NEW b \in K, Cardinality({c \in C : c > b}) < n
             PROVE  Cardinality({c \in K : c > b}) < n
    BY DEF Newest
<1> DEFINE S == {c \in C : c > b}
           T == {c \in K : c > b}
<1>1. S \subseteq Backups /\ T \subseteq S
    OBVIOUS
<1> HIDE DEF S, T
<1>2. Cardinality(T) <= Cardinality(S) /\ Cardinality(T) \in Nat /\ Cardinality(S) \in Nat
    BY <1>1, MoreBackups
<1> QED
    BY <1>2 DEF S, T

\* Newest(C, n) has no more than n backups.
LEMMA NewestNotMore ==
    ASSUME NEW C, C \subseteq Backups, NEW n \in Int, Newest(C, n) # {}
    PROVE  Cardinality(Newest(C, n)) <= n
<1> DEFINE N == Newest(C, n)
<1>1. N \subseteq C /\ N \subseteq Backups
    BY DEF Newest
<1>2. PICK b \in N : \A y \in N : b <= y
    <2> HIDE DEF N
    <2> QED
        BY <1>1, OldestExists DEF N
<1> DEFINE After == {c \in C : c > b}
<1>3. Cardinality(After) < n /\ b \in N
    BY <1>2 DEF Newest
<1>4. N \ {b} \subseteq After /\ After \subseteq Backups
    <2> SUFFICES ASSUME NEW y \in N, y # b PROVE y > b
        BY <1>1
    <2>1. b <= y /\ b \in Int /\ y \in Int
        BY <1>1, <1>2, BackupNumbers
    <2> QED
        BY <2>1
<1> HIDE DEF N, After
<1>5. /\ Cardinality(N \ {b}) <= Cardinality(After)
      /\ Cardinality(N \ {b}) \in Nat /\ Cardinality(After) \in Nat
    BY <1>4, MoreBackups
<1>6. Cardinality(N \ {b}) = Cardinality(N) - 1 /\ Cardinality(N) \in Nat
    BY <1>1, <1>3, FiniteBackups, FS_RemoveElement
<1>7. Cardinality(N) <= n
    BY <1>3, <1>5, <1>6
<1> QED
    BY <1>7 DEF N

\* Of no more than n backups all are among the n newest.
LEMMA NewestAll ==
    ASSUME NEW C, C \subseteq Backups, NEW n \in Int, Cardinality(C) <= n
    PROVE  Newest(C, n) = C
<1> SUFFICES ASSUME NEW b \in C PROVE Cardinality({c \in C : c > b}) < n
    BY DEF Newest
<1> DEFINE After == {c \in C : c > b}
<1>1. b \in Int
    BY BackupNumbers
<1>2. After \subseteq C \ {b} /\ C \ {b} \subseteq Backups
    BY <1>1
<1> HIDE DEF After
<1>3. /\ Cardinality(After) <= Cardinality(C \ {b})
      /\ Cardinality(After) \in Nat /\ Cardinality(C \ {b}) \in Nat
    BY <1>2, MoreBackups
<1>4. Cardinality(C \ {b}) = Cardinality(C) - 1 /\ Cardinality(C) \in Nat
    BY FiniteBackups, FS_RemoveElement
<1>5. Cardinality(After) < n
    BY <1>3, <1>4
<1> QED
    BY <1>5 DEF After

\* The buckets of finitely many backups are finitely many.
LEMMA FiniteBuckets ==
    ASSUME NEW p \in Periods, NEW S, S \subseteq Backups
    PROVE  IsFiniteSet({BucketOf[p][c] : c \in S})
<1> DEFINE T == {BucketOf[p][c] : c \in S}
           f == [c \in S |-> BucketOf[p][c]]
<1>1. f \in Surjection(S, T)
    BY DEF Surjection
<1>2. IsFiniteSet(S)
    BY FiniteBackups
<1> HIDE DEF f, T
<1>3. IsFiniteSet(T)
    BY <1>1, <1>2, FS_Surjection
<1> QED
    BY <1>3 DEF T

\* What a tier selects and is still there, it selects again.
LEMMA TierWithin ==
    ASSUME NEW p \in Periods, NEW C, C \subseteq Backups, NEW K, K \subseteq C, NEW n \in Int
    PROVE  SelectPeriodTier(C, p, n) \cap K \subseteq SelectPeriodTier(K, p, n)
<1> SUFFICES ASSUME NEW b \in K, b \in SelectPeriodTier(C, p, n)
             PROVE  b \in SelectPeriodTier(K, p, n)
    OBVIOUS
<1> DEFINE Later(S) == {d \in S : BucketOf[p][d] > BucketOf[p][b]}
           Buckets(S) == {BucketOf[p][c] : c \in Later(S)}
<1>1. \A c \in C : BucketOf[p][c] = BucketOf[p][b] => c <= b
    BY DEF SelectPeriodTier
<1>2. Cardinality(Buckets(C)) < n
    BY DEF SelectPeriodTier
<1>3. Later(C) \subseteq Backups /\ Later(K) \subseteq Later(C)
    OBVIOUS
<1>4. IsFiniteSet(Buckets(C)) /\ Buckets(K) \subseteq Buckets(C)
    BY <1>3, FiniteBuckets
<1>5. Cardinality(Buckets(K)) < n
    <2>1. PICK B : B = Buckets(C)
        OBVIOUS
    <2>2. PICK D : D = Buckets(K)
        OBVIOUS
    <2>3. IsFiniteSet(B) /\ D \subseteq B /\ Cardinality(B) < n
        BY <1>2, <1>4, <2>1, <2>2
    <2>4. IsFiniteSet(D) /\ Cardinality(D) <= Cardinality(B)
        BY <2>3, FS_Subset
    <2>5. Cardinality(D) \in Nat /\ Cardinality(B) \in Nat
        BY <2>3, <2>4, FS_CardinalityType
    <2> QED
        BY <2>2, <2>3, <2>4, <2>5
<1> QED
    BY <1>1, <1>5 DEF SelectPeriodTier

\* What a policy selects and is still there, it selects again.
LEMMA SelectWithin ==
    ASSUME NEW C, C \subseteq Backups, NEW K, K \subseteq C
    PROVE  SelectKeep(C) \cap K \subseteq SelectKeep(K)
<1> SUFFICES ASSUME NEW b \in K, b \in SelectKeep(C) PROVE b \in SelectKeep(K)
    OBVIOUS
<1>1. CASE b \in Newest(C, KeepLast)
    <2>1. KeepLast \in Int
        BY RotationAssumption
    <2> QED
        BY <1>1, <2>1, NewestWithin DEF SelectKeep
<1>2. ASSUME NEW p \in Periods, b \in SelectPeriodTier(C, p, Tier[p]) PROVE b \in SelectKeep(K)
    <2>1. Tier[p] \in Int
        BY RotationAssumption
    <2>2. b \in SelectPeriodTier(K, p, Tier[p])
        BY <1>2, <2>1, TierWithin
    <2> QED
        BY <2>2 DEF SelectKeep
<1> QED
    BY <1>1, <1>2 DEF SelectKeep

\* applyFloor keeps all of what it left, also when some of it is gone.
LEMMA FloorFixed ==
    ASSUME NEW C, C \subseteq Backups, NEW X, X \subseteq Backups,
           NEW K, K \subseteq ApplyFloor(C, SelectKeep(C), X)
    PROVE  ApplyFloor(K, SelectKeep(K), X) = K
<1>1. PICK k : k = SelectKeep(C)
    OBVIOUS
<1>2. PICK l : l = SelectKeep(K)
    OBVIOUS
<1> DEFINE n == MinFloor - Cardinality(X) - Cardinality(k)
           m == MinFloor - Cardinality(X) - Cardinality(l)
           F == k \cup Newest(C \ k, n)
<1>3. k \subseteq C /\ Newest(C \ k, n) \subseteq C \ k /\ K \subseteq F
    BY <1>1, SelectKeepSubset DEF ApplyFloor, Newest
<1>4. l \subseteq K /\ k \cap K \subseteq l /\ K \subseteq C
    BY <1>1, <1>2, <1>3, SelectKeepSubset, SelectWithin
<1>5. /\ IsFiniteSet(X) /\ IsFiniteSet(k) /\ IsFiniteSet(l) /\ IsFiniteSet(K) /\ IsFiniteSet(Newest(C \ k, n))
      /\ Cardinality(X) \in Nat /\ Cardinality(k) \in Nat /\ Cardinality(l) \in Nat
      /\ Cardinality(K) \in Nat /\ Cardinality(Newest(C \ k, n)) \in Nat
    <2>1. k \subseteq Backups /\ l \subseteq Backups /\ K \subseteq Backups /\ Newest(C \ k, n) \subseteq Backups
        BY <1>3, <1>4
    <2> HIDE DEF n
    <2> QED
        BY <2>1, FiniteBackups
<1>6. n \in Int /\ m \in Int
    BY <1>5, BackupNumbers
<1>7. CASE K \ l = {}
    <2>1. Newest(K \ l, m) = {}
        BY <1>7 DEF Newest
    <2> QED
        BY <1>2, <1>4, <1>7, <2>1 DEF ApplyFloor
<1>8. CASE K \ l # {}
    <2>1. Newest(C \ k, n) # {}
        BY <1>3, <1>4, <1>8
    <2> HIDE DEF n, m
    <2>2. Cardinality(Newest(C \ k, n)) <= n
        <3>1. C \ k \subseteq Backups
            OBVIOUS
        <3> QED
            BY <1>6, <2>1, <3>1, NewestNotMore
    <2>3. /\ IsFiniteSet(F)
          /\ Cardinality(F) = Cardinality(k) + Cardinality(Newest(C \ k, n)) - Cardinality(k \cap Newest(C \ k, n))
        BY <1>5, FS_Union
    <2>4. Cardinality(k \cap Newest(C \ k, n)) = 0
        <3>1. k \cap Newest(C \ k, n) = {}
            BY <1>3
        <3> QED
            BY <3>1, FS_EmptySet
    <2>5. Cardinality(K) <= Cardinality(F)
        BY <1>3, <2>3, FS_Subset
    <2>6. Cardinality(K \ l) = Cardinality(K) - Cardinality(l)
        <3>1. Cardinality(K \ l) = Cardinality(K) - Cardinality(K \cap l)
            BY <1>5, FS_Difference
        <3>2. K \cap l = l
            BY <1>4
        <3> QED
            BY <3>1, <3>2
    <2>7. Cardinality(K \ l) <= m
        BY <1>5, <1>6, <2>2, <2>3, <2>4, <2>5, <2>6, BackupNumbers DEF n, m
    <2>8. Newest(K \ l, m) = K \ l
        <3>1. K \ l \subseteq Backups
            BY <1>4
        <3> QED
            BY <1>6, <2>7, <3>1, NewestAll
    <2>9. ApplyFloor(K, l, X) = l \cup Newest(K \ l, m)
        BY DEF ApplyFloor, m
    <2> QED
        BY <1>2, <1>4, <2>8, <2>9
<1> QED
    BY <1>7, <1>8

\* applySizeCap evicts the oldest: with a backup everything newer stays.
LEMMA CapKeepsNewer ==
    ASSUME NEW F, F \subseteq Backups, NEW X, X \subseteq Backups,
           NEW b \in ApplySizeCap(F, X), NEW c \in F, c >= b
    PROVE  c \in ApplySizeCap(F, X)
<1>1. CASE MaxTotal = NoCap
    BY <1>1 DEF ApplySizeCap
<1>2. CASE MaxTotal # NoCap
    <2> DEFINE Rest(d) == {e \in F : e >= d}
    <2>1. b \in F /\ b \in Int /\ c \in Int
        BY <1>2, BackupNumbers DEF ApplySizeCap
    <2>2. Rest(c) \subseteq Rest(b) /\ Rest(b) \subseteq Backups
        <3> SUFFICES ASSUME NEW e \in F, e >= c PROVE e >= b
            OBVIOUS
        <3>1. e \in Int
            BY BackupNumbers
        <3> QED
            BY <2>1, <3>1
    <2>3. \/ Total(X) + Total(Rest(b)) <= MaxTotal
          \/ Cardinality(X) + Cardinality(Rest(b)) - 1 < MinFloor
        BY <1>2 DEF ApplySizeCap
    <2>4. PICK B : B = Rest(b)
        OBVIOUS
    <2>5. PICK D : D = Rest(c)
        OBVIOUS
    <2>6. Total(D) <= Total(B) /\ Total(B) \in Nat /\ Total(D) \in Nat /\ Total(X) \in Nat
        BY <2>2, <2>4, <2>5, MoreBytes, FiniteBytes
    <2>7. /\ Cardinality(D) <= Cardinality(B) /\ Cardinality(B) \in Nat /\ Cardinality(D) \in Nat
          /\ Cardinality(X) \in Nat
        BY <2>2, <2>4, <2>5, MoreBackups, FiniteBackups
    <2>8. MaxTotal \in Nat /\ MinFloor \in Nat
        BY <1>2, RotationAssumption
    <2>9. Total(X) + Total(D) <= MaxTotal \/ Cardinality(X) + Cardinality(D) - 1 < MinFloor
        BY <2>3, <2>4, <2>6, <2>7, <2>8
    <2> QED
        BY <1>2, <2>5, <2>9 DEF ApplySizeCap
<1> QED
    BY <1>1, <1>2

\* What applySizeCap left it leaves again.
LEMMA CapFixed ==
    ASSUME NEW F, F \subseteq Backups, NEW X, X \subseteq Backups,
           NEW K, K = ApplySizeCap(F, X)
    PROVE  ApplySizeCap(K, X) = K
<1>1. CASE MaxTotal = NoCap
    BY <1>1 DEF ApplySizeCap
<1>2. CASE MaxTotal # NoCap
    <2>1. K \subseteq F
        BY <1>2 DEF ApplySizeCap
    <2>2. ASSUME NEW b \in K PROVE {c \in K : c >= b} = {c \in F : c >= b}
        BY <2>1, CapKeepsNewer
    <2>3. ASSUME NEW b \in K
          PROVE  LET rest == {c \in K : c >= b} IN
                 \/ Total(X) + Total(rest) <= MaxTotal
                 \/ Cardinality(X) + Cardinality(rest) - 1 < MinFloor
        BY <1>2, <2>2 DEF ApplySizeCap
    <2> QED
        BY <1>2, <2>3 DEF ApplySizeCap
<1> QED
    BY <1>1, <1>2

\* rotateDatabase decides once: what a decision keeps the next one keeps.
LEMMA KeepFixed ==
    ASSUME NEW C, C \subseteq Backups, NEW X, X \subseteq Backups, NEW K, K = Keep(C, X)
    PROVE  Keep(K, X) = K
<1>1. PICK F : F = ApplyFloor(C, SelectKeep(C), X)
    OBVIOUS
<1>2. K = ApplySizeCap(F, X)
    BY <1>1 DEF Keep
<1>3. F \subseteq Backups
    <2>1. SelectKeep(C) \subseteq C
        BY SelectKeepSubset
    <2> QED
        BY <1>1, <2>1 DEF ApplyFloor, Newest
<1>4. K \subseteq F
    BY <1>2 DEF ApplySizeCap
<1>5. ApplyFloor(K, SelectKeep(K), X) = K
    BY <1>1, <1>4, FloorFixed
<1>6. ApplySizeCap(K, X) = K
    BY <1>2, <1>3, CapFixed
<1> QED
    BY <1>5, <1>6 DEF Keep

\* A decision that keeps something goes on evicting until the total is under the
\* cap or the floor is reached.
LEMMA CapReached ==
    ASSUME NEW C, C \subseteq Backups, NEW X, X \subseteq Backups, NEW K, K = Keep(C, X),
           K # {}, MaxTotal # NoCap
    PROVE  Total(X) + Total(K) <= MaxTotal \/ Cardinality(X) + Cardinality(K) - 1 < MinFloor
<1>1. Keep(K, X) = K /\ K \subseteq C
    BY KeepFixed, KeepAtLeastFloor
<1>2. PICK F : F = ApplyFloor(K, SelectKeep(K), X)
    OBVIOUS
<1>3. F \subseteq K /\ K = ApplySizeCap(F, X)
    <2>1. SelectKeep(K) \subseteq K
        BY SelectKeepSubset
    <2> QED
        BY <1>1, <1>2, <2>1 DEF ApplyFloor, Newest, Keep
<1>4. F = K
    BY <1>3 DEF ApplySizeCap
<1>5. PICK b \in K : \A y \in K : b <= y
    BY <1>1, OldestExists
<1>6. {c \in K : c >= b} = K
    BY <1>1, <1>5, BackupNumbers
<1>7. \/ Total(X) + Total({c \in K : c >= b}) <= MaxTotal
      \/ Cardinality(X) + Cardinality({c \in K : c >= b}) - 1 < MinFloor
    BY <1>3, <1>4, <1>5 DEF ApplySizeCap
<1> QED
    BY <1>6, <1>7
-----------------------------------------------------------------------------
(* A pass that nothing disturbs. *)

\* While nothing else has changed a row: the candidates of the pass are those
\* there are; then those it does not have to delete are what its decision
\* keeps; and when no pass is under way all are what the last decision keeps.
FinalInv ==
    stable =>
      /\ \A q, r \in Rotators : Underway(q) /\ Underway(r) => q = r
      /\ \A r \in Rotators : rot[r].pc = "exempt" => rot[r].cands = Candidates
      /\ \A r \in Rotators : rot[r].pc \in {"prune", "file", "row"} =>
           /\ rot[r].prune \subseteq Candidates
           /\ Candidates \ rot[r].prune = Keep(rot[r].cands, Exempt)
      /\ (\A r \in Rotators : ~Underway(r)) =>
           \E C \in SUBSET Backups : Candidates = Keep(C, Exempt)

\* The sets that a decision is about are sets of backups.
LEMMA DecisionSets ==
    ASSUME RowTypes
    PROVE  /\ Candidates \subseteq Completed /\ Completed \subseteq Backups /\ Exempt \subseteq Completed
           /\ Candidates \cap Exempt = {} /\ Completed = Candidates \cup Exempt
BY DEF RowTypes, Candidates, Completed, Exempt

\* A step that changes no row and no pass, or says that the rows were changed.
LEMMA FinalStutter ==
    ASSUME FinalInv, stable' => stable /\ UNCHANGED <<status, pinned, rot>>
    PROVE  FinalInv'
<1> SUFFICES ASSUME stable' PROVE FinalInv'
    BY DEF FinalInv
<1>1. stable /\ Candidates' = Candidates /\ Exempt' = Exempt /\ rot' = rot
    BY DEF Candidates, Completed, Exempt
<1>2. \A r \in Rotators : Underway(r)' <=> Underway(r)
    BY <1>1 DEF Underway
<1>3. \A C : Keep(C, Exempt)' = Keep(C, Exempt)
    BY <1>1
<1> QED
    BY <1>1, <1>2 DEF FinalInv

\* FinalInv is inductive.
LEMMA FinalStep == FileInv /\ FinalInv /\ [Next]_vars => FinalInv'
<1> SUFFICES ASSUME FileInv, RowTypes, FinalInv, [Next]_vars, stable' PROVE FinalInv'
    BY DEF FileInv, FinalInv
<1>0. RowTypes' /\ rot \in [Rotators -> PassRecords] /\ rot' \in [Rotators -> PassRecords]
    BY TypesStep DEF RowTypes, FileInv
<1>1. ASSUME NEW r \in Rotators, NEW a \in BOOLEAN, Load(r, a) PROVE FinalInv'
    <2>1. /\ UNCHANGED <<status, pinned>>
          /\ rot' = [rot EXCEPT ![r] = [Idle EXCEPT !.pc = "exempt", !.cands = Candidates]]
          /\ \A q \in Rotators \ {r} : rot[q].pc = "idle"
        BY <1>1 DEF Load
    <2>2. rot'[r] = [pc |-> "exempt", cands |-> Candidates, prune |-> {}]
        BY <1>0, <2>1 DEF Idle
    <2>3. \A q \in Rotators \ {r} : rot'[q].pc = "idle" /\ ~Underway(q)'
        BY <1>0, <2>1 DEF Underway
    <2>4. Underway(r)' /\ Candidates' = Candidates
        BY <2>1, <2>2 DEF Underway, Candidates, Completed
    <2> QED
        BY <2>2, <2>3, <2>4 DEF FinalInv
<1>2. ASSUME NEW r \in Rotators, Underway(r), Underway(r)', stable, UNCHANGED <<status, pinned>>,
             \A q \in Rotators \ {r} : rot'[q] = rot[q],
             rot'[r].pc \in {"prune", "file", "row"},
             rot'[r].prune \subseteq Candidates,
             Candidates \ rot'[r].prune = Keep(rot'[r].cands, Exempt)
      PROVE  FinalInv'
    <2>1. Candidates' = Candidates /\ Exempt' = Exempt
        BY <1>2 DEF Candidates, Completed, Exempt
    <2>2. \A q \in Rotators \ {r} : ~Underway(q) /\ ~Underway(q)'
        BY <1>2 DEF FinalInv, Underway
    <2>3. \A q \in Rotators \ {r} : rot'[q].pc \notin {"exempt", "prune", "file", "row"}
        BY <2>2 DEF Underway
    <2>4. Candidates' \ rot'[r].prune = Keep(rot'[r].cands, Exempt')
        BY <1>2, <2>1
    <2> QED
        BY <1>2, <2>1, <2>2, <2>3, <2>4 DEF FinalInv
<1>3. ASSUME NEW r \in Rotators, Decide(r) PROVE FinalInv'
    <2>1. /\ stable /\ UNCHANGED <<status, pinned>> /\ rot[r].pc = "exempt"
          /\ \A q \in Rotators \ {r} : rot'[q] = rot[q]
          /\ rot'[r].pc = "prune" /\ rot'[r].cands = rot[r].cands
          /\ rot'[r].prune = rot[r].cands \ Keep(rot[r].cands, Exempt)
        BY <1>0, <1>3 DEF Decide, PassRecords
    <2>2. rot[r].cands = Candidates
        BY <2>1 DEF FinalInv
    <2>3. Candidates \subseteq Backups /\ Exempt \subseteq Backups
        BY DecisionSets
    <2>4. Keep(Candidates, Exempt) \subseteq Candidates
        BY <2>3, KeepAtLeastFloor
    <2>5. rot'[r].prune \subseteq Candidates /\ Candidates \ rot'[r].prune = Keep(rot'[r].cands, Exempt)
        BY <2>1, <2>2, <2>4
    <2>6. Underway(r) /\ Underway(r)'
        BY <2>1 DEF Underway
    <2> QED
        BY <1>2, <2>1, <2>5, <2>6
<1>4. ASSUME NEW r \in Rotators, PruneFind(r) \/ PruneFile(r) PROVE FinalInv'
    <2>1. /\ stable /\ UNCHANGED <<status, pinned>> /\ rot[r].pc \in {"prune", "file"}
          /\ \A q \in Rotators \ {r} : rot'[q] = rot[q]
          /\ rot'[r].pc \in {"prune", "file", "row"} /\ rot'[r].cands = rot[r].cands
          /\ rot'[r].prune = rot[r].prune
             \/ (rot[r].prune # {} /\ status[Current(r)] = "gone")
        <3>1. CASE PruneFind(r) /\ status[Current(r)] = "gone"
            BY <1>0, <3>1 DEF PruneFind, PassRecords
        <3>2. CASE PruneFind(r) /\ status[Current(r)] # "gone"
            BY <1>0, <3>2 DEF PruneFind, PassRecords
        <3>3. CASE PruneFile(r)
            BY <1>0, <3>3 DEF PruneFile, PassRecords
        <3> QED
            BY <1>4, <3>1, <3>2, <3>3
    <2>2. /\ rot[r].prune \subseteq Candidates
          /\ Candidates \ rot[r].prune = Keep(rot[r].cands, Exempt)
        BY <2>1 DEF FinalInv
    <2>3. rot'[r].prune = rot[r].prune
        <3> SUFFICES ASSUME rot[r].prune # {} PROVE status[Current(r)] # "gone"
            BY <2>1
        <3>1. Current(r) \in Candidates
            BY <2>2, CurrentToPrune
        <3> QED
            BY <3>1 DEF Candidates, Completed
    <2>4. Underway(r) /\ Underway(r)'
        BY <2>1 DEF Underway
    <2> QED
        BY <1>2, <2>1, <2>2, <2>3, <2>4
<1>5. ASSUME NEW r \in Rotators, PruneFileFails(r) \/ PassFails(r) PROVE FinalInv'
    BY <1>5 DEF PruneFileFails, PassFails, Fails
<1>6. ASSUME NEW r \in Rotators, PruneRow(r) PROVE FinalInv'
    <2>1. PICK b : b = Current(r)
        OBVIOUS
    <2>2. /\ stable /\ status[b] # "gone" /\ rot[r].pc = "row"
          /\ status' = [status EXCEPT ![b] = "gone"] /\ UNCHANGED pinned
          /\ rot' = [rot EXCEPT ![r].pc = "prune", ![r].prune = rot[r].prune \ {b}]
        BY <1>6, <2>1 DEF PruneRow
    <2>3. /\ \A q \in Rotators \ {r} : rot'[q] = rot[q]
          /\ rot'[r].pc = "prune" /\ rot'[r].prune = rot[r].prune \ {b}
          /\ rot'[r].cands = rot[r].cands
        BY <1>0, <2>2 DEF PassRecords
    <2>4. Underway(r) /\ Underway(r)'
        BY <2>2, <2>3 DEF Underway
    <2>5. /\ rot[r].prune \subseteq Candidates
          /\ Candidates \ rot[r].prune = Keep(rot[r].cands, Exempt)
          /\ \A q \in Rotators \ {r} : ~Underway(q)
        BY <2>2, <2>4 DEF FinalInv
    <2>6. b \in rot[r].prune
        BY <2>1, <2>2, CurrentIsDoomed
    <2>7. b \in Candidates
        BY <2>5, <2>6
    <2>8. Candidates' = Candidates \ {b} /\ Exempt' = Exempt
        BY <2>2, <2>7 DEF Candidates, Exempt, Completed, RowTypes
    <2>9. \A q \in Rotators \ {r} : ~Underway(q)' /\ rot'[q].pc \notin {"exempt", "prune", "file", "row"}
        BY <2>3, <2>5 DEF Underway
    <2>10. /\ rot'[r].prune \subseteq Candidates'
           /\ Candidates' \ rot'[r].prune = Keep(rot'[r].cands, Exempt')
        BY <2>3, <2>5, <2>6, <2>8
    <2> QED
        BY <2>3, <2>4, <2>9, <2>10 DEF FinalInv
<1>7. ASSUME NEW r \in Rotators, PruneEnd(r) PROVE FinalInv'
    <2>1. /\ stable /\ UNCHANGED <<status, pinned>> /\ rot[r].pc = "prune" /\ rot[r].prune = {}
          /\ \A q \in Rotators \ {r} : rot'[q] = rot[q]
          /\ rot'[r].pc = "idle"
        BY <1>0, <1>7 DEF PruneEnd, Idle
    <2>2. Underway(r) /\ ~Underway(r)'
        BY <2>1 DEF Underway
    <2>3. Candidates = Keep(rot[r].cands, Exempt) /\ rot[r].cands \in SUBSET Backups
        BY <1>0, <2>1 DEF FinalInv, PassRecords
    <2>4. Candidates' = Candidates /\ Exempt' = Exempt
        BY <2>1 DEF Candidates, Completed, Exempt
    <2>5. \A q \in Rotators : ~Underway(q)' /\ rot'[q].pc \notin {"exempt", "prune", "file", "row"}
        BY <2>1, <2>2 DEF FinalInv, Underway
    <2>6. \E C \in SUBSET Backups : Candidates' = Keep(C, Exempt')
        BY <2>3, <2>4
    <2> QED
        BY <2>5, <2>6 DEF FinalInv
<1>8. ASSUME NEW r \in Rotators, SavePolicy(r) PROVE FinalInv'
    <2>1. /\ stable /\ UNCHANGED <<status, pinned>> /\ rot[r].pc = "idle"
          /\ \A q \in Rotators \ {r} : rot'[q] = rot[q]
          /\ rot'[r].pc = "load"
        BY <1>0, <1>8 DEF SavePolicy, PassRecords
    <2>2. \A q \in Rotators : Underway(q)' <=> Underway(q)
        BY <2>1 DEF Underway
    <2>3. Candidates' = Candidates /\ Exempt' = Exempt
        BY <2>1 DEF Candidates, Completed, Exempt
    <2>4. \A q \in Rotators : rot'[q].pc \in {"exempt", "prune", "file", "row"} => rot'[q] = rot[q]
        BY <2>1
    <2>5. (\A q \in Rotators : ~Underway(q)') => \E C \in SUBSET Backups : Candidates' = Keep(C, Exempt')
        BY <2>1, <2>2, <2>3 DEF FinalInv
    <2>6. ASSUME NEW q \in Rotators, rot'[q].pc \in {"prune", "file", "row"}
          PROVE  rot'[q].prune \subseteq Candidates' /\ Candidates' \ rot'[q].prune = Keep(rot'[q].cands, Exempt')
        BY <2>1, <2>3, <2>4, <2>6 DEF FinalInv
    <2> QED
        BY <2>1, <2>2, <2>3, <2>4, <2>5, <2>6 DEF FinalInv
<1>9. ASSUME NEW b \in Backups, Complete(b) \/ Pin(b) \/ DeleteFile(b) PROVE FinalInv'
    BY <1>9 DEF Complete, Pin, DeleteFile
<1>10. CASE DeleteRow \/ DeleteRowFails \/ Crash
    BY <1>10 DEF DeleteRow, DeleteRowFails, Crash, Fails
<1>11. CASE RevertPolicy
    BY <1>11, FinalStutter DEF RevertPolicy
<1>12. CASE UNCHANGED vars
    BY <1>12, FinalStutter DEF vars
<1> QED
    BY <1>1, <1>3, <1>4, <1>5, <1>6, <1>7, <1>8, <1>9, <1>10, <1>11, <1>12 DEF Next, Pass

\* What the last decision keeps is final, and under the cap if that can be.
LEMMA FinalMeans ==
    ASSUME RowTypes, FinalInv PROVE RotationFinal
<1> SUFFICES ASSUME AtRest PROVE RotationFinal
    BY DEF RotationFinal, PassIsFinal, CapHonoured
<1>1. \A r \in Rotators : ~Underway(r)
    BY DEF AtRest, Underway
<1>2. PICK C \in SUBSET Backups : Candidates = Keep(C, Exempt)
    BY <1>1 DEF FinalInv, AtRest
<1>3. /\ Candidates \subseteq Backups /\ Exempt \subseteq Backups
      /\ Candidates \cap Exempt = {} /\ Completed = Candidates \cup Exempt
    BY DecisionSets
<1>4. PICK K : K = Candidates
    OBVIOUS
<1>5. PICK X : X = Exempt
    OBVIOUS
<1>6. C \subseteq Backups /\ K = Keep(C, X) /\ X \subseteq Backups /\ K \subseteq Backups /\ K \cap X = {}
    BY <1>2, <1>3, <1>4, <1>5
<1>7. Keep(K, X) = K
    BY <1>6, KeepFixed
<1>8. ASSUME MaxTotal # NoCap, Total(K \cup X) > MaxTotal, K # {}
      PROVE  Cardinality(K \cup X) <= MinFloor
    <2>1. Total(X) + Total(K) <= MaxTotal \/ Cardinality(X) + Cardinality(K) - 1 < MinFloor
        BY <1>6, <1>8, CapReached
    <2>2. Total(K \cup X) = Total(K) + Total(X) /\ Total(K) \in Nat /\ Total(X) \in Nat
        BY <1>6, BytesAddUp, FiniteBytes
    <2>3. MaxTotal \in Nat /\ MinFloor \in Nat
        BY <1>8, RotationAssumption
    <2>4. Cardinality(X) + Cardinality(K) - 1 < MinFloor
        BY <1>8, <2>1, <2>2, <2>3
    <2>5. /\ IsFiniteSet(K) /\ IsFiniteSet(X) /\ Cardinality(K) \in Nat /\ Cardinality(X) \in Nat
          /\ Cardinality(K \cap X) = 0
        BY <1>6, FiniteBackups, FS_EmptySet
    <2>6. Cardinality(K \cup X) = Cardinality(K) + Cardinality(X) - Cardinality(K \cap X)
        BY <2>5, FS_Union
    <2> QED
        BY <2>3, <2>4, <2>5, <2>6
<1>9. PassIsFinal
    BY <1>4, <1>5, <1>7 DEF PassIsFinal
<1>10. CapHonoured
    BY <1>3, <1>4, <1>5, <1>8 DEF CapHonoured
<1> QED
    BY <1>9, <1>10 DEF RotationFinal

\* rotateDatabase, for any policy, any number of backups and passes: a pass that
\* nothing disturbed is final.  A further one would delete nothing, and
\* maxTotalBytes is exceeded only when the floor or the exempt backups stand in
\* the way.
THEOREM RotationFinalHolds == Spec => []RotationFinal
<1>1. Init => FileInv /\ FinalInv
    BY FileInit DEF Init, FinalInv
<1>2. FileInv /\ FinalInv => RotationFinal
    BY FinalMeans DEF FileInv
<1> QED
    BY <1>1, <1>2, FileStep, FinalStep, PTL DEF Spec

-----------------------------------------------------------------------------
(* BackupSchedule. *)

CONSTANTS Databases, Period, Checks, Never, MaxClock, MaxCrashes, MaxToggles
VARIABLES clock, lastCheck, enabled, lastRun, check, started, crashes, toggles

Schedule == INSTANCE BackupSchedule

\* There are schedules, and a period is some minutes long.
Regular ==
    /\ Period \in Nat \ {0} /\ Never \notin Nat
    /\ Schedule!Positions = 1 .. Len(Databases) /\ Len(Databases) \in Nat \ {0}

\* Checks do not overlap.
OneCheck == \A c, e \in Checks : c = e

\* The calls of checkDueBackups.
CallRecords ==
    [pc : {"idle", "next", "create", "rotate"}, now : Nat, at : Nat,
     seen : [Schedule!Positions -> BOOLEAN] \cup {<<>>}]

\* The types.
ScheduleTypes ==
    /\ clock \in Nat
    /\ lastRun \in [Schedule!Positions -> Nat \cup {Never}]
    /\ check \in [Checks -> CallRecords]
    /\ started \in [Schedule!Positions -> Seq(Nat)]

\* A check that has begun is at one of the schedules.
AtOne == \A c \in Checks : check[c].pc # "idle" => check[c].at \in Schedule!Positions

\* What a check has read of a schedule holds until it has come to it.
StillDue ==
    \A c \in Checks, d \in Schedule!Positions :
        /\ check[c].pc # "idle" /\ check[c].seen[d]
        /\ check[c].at < d \/ (check[c].at = d /\ check[c].pc = "next")
        => Schedule!IsDue(lastRun[d], check[c].now)

\* A backup that is about to be made is later than those before it.
AboutToMake ==
    \A c \in Checks : check[c].pc = "create" =>
        /\ lastRun[check[c].at] = check[c].now
        /\ \A i \in DOMAIN started[check[c].at] :
             Schedule!Slot(started[check[c].at][i]) < Schedule!Slot(check[c].now)

\* lastRunAt is not behind the backups that were made.
MadeBefore ==
    \A d \in Schedule!Positions : \A i \in DOMAIN started[d] :
        lastRun[d] \in Nat /\ Schedule!Slot(started[d][i]) <= Schedule!Slot(lastRun[d])

\* The inductive invariant of the schedules.
ScheduleInv ==
    ScheduleTypes /\ AtOne /\ StillDue /\ AboutToMake /\ MadeBefore /\ Schedule!OncePerSlot

\* A multiple of a period that is not after n.
LEMMA Blocks ==
    ASSUME NEW p \in Nat \ {0}, NEW q \in Nat, NEW n \in Nat, (q + 1) * p <= n
    PROVE  q < n \div p
<1>1. PICK d \in Nat, r \in Nat : d = n \div p /\ r = n % p /\ r < p /\ n = p * d + r
  BY SMT
<1>2. SUFFICES ASSUME d <= q PROVE FALSE
  BY <1>1
<1>3. PICK e \in Nat : q = d + e
  BY <1>2, <1>1
<1>4. (q + 1) * p = p * d + p + e * p
  BY <1>3, SMT
<1>5. e * p >= 0 /\ p * d \in Nat /\ e * p \in Nat
  BY SMT
<1> QED BY <1>1, <1>4, <1>5

\* Periods are numbers.
LEMMA SlotType ==
    ASSUME Regular, NEW t \in Nat
    PROVE  Schedule!Slot(t) \in Nat
<1>1. PICK p \in Nat \ {0} : p = Period
  BY DEF Regular
<1> QED BY <1>1, SMT DEF Schedule!Slot

\* A schedule that is due is so in a later period than its last run.
LEMMA DueIsLater ==
    ASSUME Regular, NEW l \in Nat, NEW n \in Nat, Schedule!IsDue(l, n)
    PROVE  Schedule!Slot(l) < Schedule!Slot(n)
<1>1. Period \in Nat \ {0} /\ Schedule!Slot(l) \in Nat /\ l # Never
  BY SlotType DEF Regular
<1>2. (Schedule!Slot(l) + 1) * Period <= n
  BY <1>1, Zenon DEF Schedule!IsDue, Schedule!NextRun, Schedule!Slot
<1>3. Schedule!Slot(l) < n \div Period
  BY <1>1, <1>2, Blocks
<1> QED BY <1>3 DEF Schedule!Slot

\* No backup at first.
LEMMA ScheduleStart == Schedule!Init => ScheduleInv
<1> SUFFICES ASSUME Schedule!Init PROVE ScheduleInv
  OBVIOUS
<1>1. Schedule!Idle \in CallRecords /\ Schedule!Idle.pc = "idle"
  BY DEF Schedule!Idle, CallRecords
<1>2. ScheduleTypes
  BY <1>1 DEF Schedule!Init, ScheduleTypes
<1>3. AtOne /\ StillDue /\ AboutToMake
  BY <1>1 DEF Schedule!Init, AtOne, StillDue, AboutToMake
<1>4. MadeBefore /\ Schedule!OncePerSlot
  BY DEF Schedule!Init, MadeBefore, Schedule!OncePerSlot
<1> QED BY <1>2, <1>3, <1>4 DEF ScheduleInv

\* A step that moves the one check on, and has written nothing.
LEMMA CallMoves ==
    ASSUME Regular, OneCheck, ScheduleInv, NEW c \in Checks, check'[c] \in CallRecords,
           check' \in [Checks -> CallRecords], clock' \in Nat, UNCHANGED <<lastRun, started>>,
           check'[c].pc # "create",
           check'[c].pc # "idle" =>
             /\ check'[c].at \in Schedule!Positions
             /\ \A d \in Schedule!Positions :
                  /\ check'[c].seen[d]
                  /\ check'[c].at < d \/ (check'[c].at = d /\ check'[c].pc = "next")
                  => Schedule!IsDue(lastRun[d], check'[c].now)
    PROVE  ScheduleInv'
<1>1. \A e \in Checks : e = c
  BY DEF OneCheck
<1>2. ScheduleTypes'
  BY DEF ScheduleInv, ScheduleTypes
<1>3. AtOne'
  BY <1>1 DEF AtOne
<1>4. StillDue'
  <2> SUFFICES ASSUME NEW e \in Checks, NEW d \in Schedule!Positions,
                      check'[e].pc # "idle", check'[e].seen[d],
                      check'[e].at < d \/ (check'[e].at = d /\ check'[e].pc = "next")
               PROVE  Schedule!IsDue(lastRun[d], check'[e].now)
    BY DEF StillDue, Schedule!IsDue, Schedule!NextRun
  <2> QED BY <1>1, Zenon
<1>5. AboutToMake'
  BY <1>1 DEF AboutToMake
<1>6. MadeBefore' /\ Schedule!OncePerSlot'
  BY Zenon DEF ScheduleInv, MadeBefore, Schedule!OncePerSlot, Schedule!Slot
<1> QED BY <1>2, <1>3, <1>4, <1>5, <1>6 DEF ScheduleInv

\* A check has done with a schedule.
LEMMA OnwardKeeps ==
    ASSUME Regular, OneCheck, ScheduleInv, NEW c \in Checks, check[c].pc # "idle",
           Schedule!Onward(c),
           UNCHANGED <<clock, lastRun, started>>
    PROVE  ScheduleInv'
<1>1. /\ check \in [Checks -> CallRecords] /\ clock' \in Nat
      /\ check[c] \in CallRecords /\ check[c].at \in Schedule!Positions
  BY DEF ScheduleInv, ScheduleTypes, AtOne
<1>2. Schedule!Idle \in CallRecords /\ Schedule!Idle.pc = "idle"
  BY DEF Schedule!Idle, CallRecords
<1>3. PICK k : k = check[c]
  OBVIOUS
<1>4. CASE k.at = Len(Databases)
  <2>1. check' = [check EXCEPT ![c] = Schedule!Idle]
    BY <1>3, <1>4, <1>1 DEF Schedule!Onward
  <2>2. check'[c] = Schedule!Idle /\ check' \in [Checks -> CallRecords]
    BY <1>1, <1>2, <2>1
  <2> QED BY <1>1, <1>2, <2>2, CallMoves
<1>5. CASE k.at # Len(Databases)
  <2>1. PICK m : m = [k EXCEPT !.pc = "next", !.at = k.at + 1]
    OBVIOUS
  <2>2. m \in CallRecords /\ m.pc = "next" /\ m.at = k.at + 1 /\ m.now = k.now /\ m.seen = k.seen
    <3>1. PICK a \in Nat : a = k.at + 1
      BY <1>1, <1>3 DEF Regular
    <3>2. k \in CallRecords /\ m = [k EXCEPT !.pc = "next", !.at = a]
      BY <1>1, <1>3, <2>1, <3>1
    <3>3. m \in CallRecords
      BY <3>2 DEF CallRecords
    <3>4. m.pc = "next" /\ m.at = a /\ m.now = k.now /\ m.seen = k.seen
      BY <3>2 DEF CallRecords
    <3> QED BY <3>1, <3>3, <3>4
  <2>3. check' = [check EXCEPT ![c] = m]
    BY <1>3, <1>5, <2>1 DEF Schedule!Onward
  <2>4. check'[c] = m /\ check' \in [Checks -> CallRecords]
    BY <1>1, <2>2, <2>3
  <2>5. m.at \in Schedule!Positions
    BY <1>1, <1>3, <1>5, <2>2 DEF Regular
  <2>6. ASSUME NEW d \in Schedule!Positions, m.seen[d], m.at < d \/ (m.at = d /\ m.pc = "next")
        PROVE  Schedule!IsDue(lastRun[d], m.now)
    <3>1. k.at < d
      BY <1>1, <1>3, <2>2, <2>6 DEF Regular
    <3>2. Schedule!IsDue(lastRun[d], k.now)
      BY <1>3, <2>2, <2>6, <3>1, Zenon DEF ScheduleInv, StillDue
    <3> QED BY <2>2, <3>2, Zenon
  <2> QED BY <1>1, <2>2, <2>4, <2>5, <2>6, CallMoves
<1> QED BY <1>4, <1>5

\* The schedules are read.
LEMMA LoadKeeps ==
    ASSUME Regular, OneCheck, ScheduleInv, NEW c \in Checks, Schedule!Load(c)
    PROVE  ScheduleInv'
<1>1. /\ check \in [Checks -> CallRecords] /\ clock' \in Nat /\ clock \in Nat
      /\ UNCHANGED <<lastRun, started>>
  BY DEF ScheduleInv, ScheduleTypes, Schedule!Load, Schedule!rows
<1>2. PICK seen :
        seen = [d \in Schedule!Positions |-> enabled[d] /\ Schedule!IsDue(lastRun[d], clock)]
  OBVIOUS
<1>3. PICK m : m = [Schedule!Idle EXCEPT !.pc = "next", !.now = clock, !.seen = seen]
  OBVIOUS
<1>4. m = [pc |-> "next", now |-> clock, at |-> 1, seen |-> seen]
  BY <1>3 DEF Schedule!Idle
<1>5. \A d \in Schedule!Positions : (enabled[d] /\ Schedule!IsDue(lastRun[d], clock)) \in BOOLEAN
  BY DEF Schedule!IsDue
<1>6. seen \in [Schedule!Positions -> BOOLEAN]
  BY <1>2, <1>5
<1>7. m \in CallRecords
  BY <1>1, <1>4, <1>6 DEF CallRecords
<1>8. check' = [check EXCEPT ![c] = m]
  BY <1>2, <1>3 DEF Schedule!Load
<1>9. check'[c] = m /\ check' \in [Checks -> CallRecords]
  BY <1>1, <1>7, <1>8
<1>10. m.pc = "next" /\ m.now = clock /\ m.at \in Schedule!Positions /\ m.seen = seen
  BY <1>4 DEF Regular
<1>11. \A d \in Schedule!Positions : m.seen[d] => Schedule!IsDue(lastRun[d], m.now)
  BY <1>2, <1>10, Zenon
<1> QED BY <1>1, <1>7, <1>9, <1>10, <1>11, CallMoves

\* lastRunAt is written.
LEMMA ClaimKeeps ==
    ASSUME Regular, OneCheck, ScheduleInv, NEW c \in Checks, Schedule!Claim(c)
    PROVE  ScheduleInv'
<1>1. /\ check \in [Checks -> CallRecords] /\ clock' \in Nat /\ started' = started
      /\ started \in [Schedule!Positions -> Seq(Nat)]
      /\ lastRun \in [Schedule!Positions -> Nat \cup {Never}]
      /\ check[c].pc = "next" /\ check[c].seen[check[c].at]
      /\ lastRun' = [lastRun EXCEPT ![check[c].at] = check[c].now]
      /\ check' = [check EXCEPT ![c].pc = "create"]
      /\ \A e \in Checks : e = c
  BY DEF ScheduleInv, ScheduleTypes, Schedule!Claim, Schedule!Step, OneCheck
<1>2. PICK k, a, n : k = check[c] /\ a = k.at /\ n = k.now
  OBVIOUS
<1>3. k \in CallRecords /\ a \in Schedule!Positions /\ n \in Nat
  BY <1>1, <1>2 DEF ScheduleInv, AtOne, CallRecords
<1>4. PICK m : m = [k EXCEPT !.pc = "create"]
  OBVIOUS
<1>5. m \in CallRecords /\ m.pc = "create" /\ m.at = a /\ m.now = n /\ m.seen = k.seen
  BY <1>2, <1>3, <1>4 DEF CallRecords
<1>6. check'[c] = m /\ check' \in [Checks -> CallRecords]
  BY <1>1, <1>2, <1>4, <1>5
<1>7. /\ lastRun' \in [Schedule!Positions -> Nat \cup {Never}] /\ lastRun'[a] = n
      /\ \A d \in Schedule!Positions : d # a => lastRun'[d] = lastRun[d]
  BY <1>1, <1>2, <1>3
<1>8. Schedule!IsDue(lastRun[a], n)
  BY <1>1, <1>2, <1>3, Zenon DEF ScheduleInv, StillDue
<1>9. \A i \in DOMAIN started[a] :
        started[a][i] \in Nat /\ Schedule!Slot(started[a][i]) < Schedule!Slot(n)
  <2> SUFFICES ASSUME NEW i \in DOMAIN started[a]
               PROVE  started[a][i] \in Nat /\ Schedule!Slot(started[a][i]) < Schedule!Slot(n)
    OBVIOUS
  <2>1. started[a][i] \in Nat
    BY <1>1, <1>3
  <2>2. lastRun[a] \in Nat /\ Schedule!Slot(started[a][i]) <= Schedule!Slot(lastRun[a])
    BY <1>3 DEF ScheduleInv, MadeBefore
  <2>3. Schedule!Slot(lastRun[a]) < Schedule!Slot(n)
    BY <1>3, <1>8, <2>2, DueIsLater
  <2>4. /\ Schedule!Slot(lastRun[a]) \in Nat /\ Schedule!Slot(n) \in Nat
        /\ Schedule!Slot(started[a][i]) \in Nat
    BY <1>3, <2>1, <2>2, SlotType
  <2> QED BY <2>1, <2>2, <2>3, <2>4
<1>10. ScheduleTypes'
  BY <1>1, <1>6, <1>7 DEF ScheduleTypes
<1>11. AtOne'
  BY <1>1, <1>3, <1>5, <1>6 DEF AtOne
<1>12. StillDue'
  <2> SUFFICES ASSUME NEW e \in Checks, NEW d \in Schedule!Positions,
                      check'[e].pc # "idle", check'[e].seen[d],
                      check'[e].at < d \/ (check'[e].at = d /\ check'[e].pc = "next")
               PROVE  Schedule!IsDue(lastRun'[d], check'[e].now)
    BY DEF StillDue, Schedule!IsDue, Schedule!NextRun
  <2>1. check'[e] = m
    BY <1>1, <1>6
  <2>2. a < d /\ k.seen[d]
    BY <1>5, <2>1
  <2>3. d # a
    BY <1>3, <2>2 DEF Regular
  <2>4. Schedule!IsDue(lastRun[d], n)
    BY <1>1, <1>2, <2>2, Zenon DEF ScheduleInv, StillDue
  <2> QED BY <1>5, <1>7, <2>1, <2>3, <2>4, Zenon
<1>13. AboutToMake'
  <2> SUFFICES ASSUME NEW e \in Checks
               PROVE  /\ lastRun'[check'[e].at] = check'[e].now
                      /\ \A i \in DOMAIN started'[check'[e].at] :
                           Schedule!Slot(started'[check'[e].at][i]) < Schedule!Slot(check'[e].now)
    BY DEF AboutToMake, Schedule!Slot
  <2>1. check'[e] = m
    BY <1>1, <1>6
  <2> QED BY <1>1, <1>5, <1>7, <1>9, <2>1
<1>14. MadeBefore'
  <2> SUFFICES ASSUME NEW d \in Schedule!Positions, NEW i \in DOMAIN started[d]
               PROVE  /\ lastRun'[d] \in Nat
                      /\ Schedule!Slot(started[d][i]) <= Schedule!Slot(lastRun'[d])
    BY <1>1 DEF MadeBefore, Schedule!Slot
  <2>1. CASE d = a
    <3>1. Schedule!Slot(n) \in Nat /\ Schedule!Slot(started[d][i]) \in Nat
      BY <1>3, <1>9, <2>1, SlotType
    <3> QED BY <1>3, <1>7, <1>9, <2>1, <3>1
  <2>2. CASE d # a
    <3>1. lastRun[d] \in Nat /\ Schedule!Slot(started[d][i]) <= Schedule!Slot(lastRun[d])
      BY DEF ScheduleInv, MadeBefore
    <3> QED BY <1>7, <2>2, <3>1
  <2> QED BY <2>1, <2>2
<1>15. Schedule!OncePerSlot'
  BY <1>1, Zenon DEF ScheduleInv, Schedule!OncePerSlot, Schedule!Slot
<1> QED BY <1>10, <1>11, <1>12, <1>13, <1>14, <1>15 DEF ScheduleInv

\* The backup is made.
LEMMA CreateKeeps ==
    ASSUME Regular, OneCheck, ScheduleInv, NEW c \in Checks, Schedule!Create(c)
    PROVE  ScheduleInv'
<1>1. /\ check \in [Checks -> CallRecords] /\ clock' \in Nat /\ lastRun' = lastRun
      /\ started \in [Schedule!Positions -> Seq(Nat)]
      /\ lastRun \in [Schedule!Positions -> Nat \cup {Never}]
      /\ check[c].pc = "create"
      /\ started' = [started EXCEPT ![check[c].at] = Append(@, check[c].now)]
      /\ check' = [check EXCEPT ![c].pc = "rotate"]
      /\ \A e \in Checks : e = c
  BY DEF ScheduleInv, ScheduleTypes, Schedule!Create, Schedule!Step, Schedule!rows, OneCheck
<1>2. PICK k, a, n : k = check[c] /\ a = k.at /\ n = k.now
  OBVIOUS
<1>3. k \in CallRecords /\ a \in Schedule!Positions /\ n \in Nat
  BY <1>1, <1>2 DEF ScheduleInv, AtOne, CallRecords
<1>4. PICK m : m = [k EXCEPT !.pc = "rotate"]
  OBVIOUS
<1>5. m \in CallRecords /\ m.pc = "rotate" /\ m.at = a /\ m.now = n /\ m.seen = k.seen
  BY <1>2, <1>3, <1>4 DEF CallRecords
<1>6. check'[c] = m /\ check' \in [Checks -> CallRecords]
  BY <1>1, <1>2, <1>4, <1>5
<1>7. PICK s \in Seq(Nat) : s = started[a]
  BY <1>1, <1>3
<1>8. /\ Append(s, n) \in Seq(Nat) /\ Len(s) \in Nat
      /\ DOMAIN Append(s, n) = 1 .. Len(s) + 1 /\ DOMAIN s = 1 .. Len(s)
      /\ Append(s, n)[Len(s) + 1] = n
      /\ \A i \in DOMAIN s : Append(s, n)[i] = s[i] /\ s[i] \in Nat
  BY <1>3, <1>7
<1>9. /\ started' \in [Schedule!Positions -> Seq(Nat)] /\ started'[a] = Append(s, n)
      /\ \A d \in Schedule!Positions : d # a => started'[d] = started[d]
  BY <1>1, <1>2, <1>3, <1>7, <1>8
<1>10. lastRun[a] = n /\ \A i \in DOMAIN s : Schedule!Slot(s[i]) < Schedule!Slot(n)
  BY <1>1, <1>2, <1>7, Zenon DEF ScheduleInv, AboutToMake
<1>11. Schedule!Slot(n) \in Nat /\ \A i \in DOMAIN s : Schedule!Slot(s[i]) \in Nat
  BY <1>3, <1>8, SlotType
<1>12. ScheduleTypes'
  BY <1>1, <1>6, <1>9 DEF ScheduleTypes
<1>13. AtOne' /\ AboutToMake'
  BY <1>1, <1>3, <1>5, <1>6 DEF AtOne, AboutToMake
<1>14. StillDue'
  <2> SUFFICES ASSUME NEW e \in Checks, NEW d \in Schedule!Positions,
                      check'[e].pc # "idle", check'[e].seen[d],
                      check'[e].at < d \/ (check'[e].at = d /\ check'[e].pc = "next")
               PROVE  Schedule!IsDue(lastRun[d], check'[e].now)
    BY <1>1 DEF StillDue, Schedule!IsDue, Schedule!NextRun
  <2>1. check'[e] = m
    BY <1>1, <1>6
  <2>2. a < d /\ k.seen[d]
    BY <1>5, <2>1
  <2>3. Schedule!IsDue(lastRun[d], n)
    BY <1>1, <1>2, <2>2, Zenon DEF ScheduleInv, StillDue
  <2> QED BY <1>5, <2>1, <2>3, Zenon
<1>15. MadeBefore'
  <2> SUFFICES ASSUME NEW d \in Schedule!Positions, NEW i \in DOMAIN started'[d]
               PROVE  /\ lastRun[d] \in Nat
                      /\ Schedule!Slot(started'[d][i]) <= Schedule!Slot(lastRun[d])
    BY <1>1 DEF MadeBefore, Schedule!Slot
  <2>1. CASE d # a
    BY <1>9, <2>1 DEF ScheduleInv, MadeBefore
  <2>2. CASE d = a /\ i = Len(s) + 1
    BY <1>3, <1>8, <1>9, <1>10, <1>11, <2>2
  <2>3. CASE d = a /\ i # Len(s) + 1
    <3>1. i \in DOMAIN s /\ started'[d][i] = s[i]
      BY <1>8, <1>9, <2>3
    <3> QED BY <1>3, <1>10, <1>11, <2>3, <3>1
  <2> QED BY <2>1, <2>2, <2>3
<1>16. Schedule!OncePerSlot'
  <2> SUFFICES ASSUME NEW d \in Schedule!Positions, NEW i \in DOMAIN started'[d],
                      NEW j \in DOMAIN started'[d], i < j
               PROVE  Schedule!Slot(started'[d][i]) < Schedule!Slot(started'[d][j])
    BY DEF Schedule!OncePerSlot, Schedule!Slot
  <2>1. CASE d # a
    BY <1>9, <2>1 DEF ScheduleInv, Schedule!OncePerSlot
  <2>2. CASE d = a
    <3>1. i \in DOMAIN s /\ started'[d][i] = s[i]
      BY <1>8, <1>9, <2>2
    <3>2. CASE j = Len(s) + 1
      BY <1>8, <1>9, <1>10, <2>2, <3>1, <3>2
    <3>3. CASE j # Len(s) + 1
      <4>1. j \in DOMAIN s /\ started'[d][j] = s[j]
        BY <1>8, <1>9, <2>2, <3>3
      <4> QED BY <1>7, <2>2, <3>1, <4>1 DEF ScheduleInv, Schedule!OncePerSlot
    <3> QED BY <3>2, <3>3
  <2> QED BY <2>1, <2>2
<1> QED BY <1>12, <1>13, <1>14, <1>15, <1>16 DEF ScheduleInv

\* What leaves checks, last runs and backups alone, and a crash.
LEMMA AsideKeeps ==
    ASSUME ScheduleInv, clock' \in Nat, UNCHANGED <<lastRun, started>>,
           check' = check \/ check' = [c \in Checks |-> Schedule!Idle]
    PROVE  ScheduleInv'
<1>1. Schedule!Idle \in CallRecords /\ Schedule!Idle.pc = "idle"
  BY DEF Schedule!Idle, CallRecords
<1>2. ScheduleTypes'
  BY <1>1 DEF ScheduleInv, ScheduleTypes
<1>3. MadeBefore' /\ Schedule!OncePerSlot'
  BY Zenon DEF ScheduleInv, MadeBefore, Schedule!OncePerSlot, Schedule!Slot
<1>4. CASE check' = check
  <2>1. AtOne' /\ StillDue' /\ AboutToMake'
    BY <1>4, Zenon
       DEF ScheduleInv, AtOne, StillDue, AboutToMake,
           Schedule!IsDue, Schedule!NextRun, Schedule!Slot
  <2> QED BY <1>2, <1>3, <2>1 DEF ScheduleInv
<1>5. CASE check' = [c \in Checks |-> Schedule!Idle]
  <2>1. AtOne' /\ StillDue' /\ AboutToMake'
    BY <1>1, <1>5 DEF AtOne, StillDue, AboutToMake
  <2> QED BY <1>2, <1>3, <2>1 DEF ScheduleInv
<1> QED BY <1>4, <1>5

\* Every step keeps the invariant.
LEMMA ScheduleStep ==
    ASSUME Regular, OneCheck, ScheduleInv, [Schedule!Next]_(Schedule!vars)
    PROVE  ScheduleInv'
<1>0. clock \in Nat
  BY DEF ScheduleInv, ScheduleTypes
<1>1. ASSUME NEW c \in Checks, Schedule!Load(c)
      PROVE  ScheduleInv'
  BY <1>1, LoadKeeps
<1>2. ASSUME NEW c \in Checks, Schedule!Skip(c) \/ Schedule!Throws(c) \/ Schedule!Rotate(c)
      PROVE  ScheduleInv'
  <2>1. check[c].pc # "idle" /\ Schedule!Onward(c) /\ UNCHANGED <<clock, lastRun, started>>
    BY <1>2 DEF Schedule!Skip, Schedule!Throws, Schedule!Rotate, Schedule!rows
  <2> QED BY <2>1, OnwardKeeps
<1>3. ASSUME NEW c \in Checks, Schedule!Claim(c)
      PROVE  ScheduleInv'
  BY <1>3, ClaimKeeps
<1>4. ASSUME NEW c \in Checks, Schedule!Create(c)
      PROVE  ScheduleInv'
  BY <1>4, CreateKeeps
<1>5. CASE \/ \E d \in Schedule!Positions : Schedule!SetSchedule(d)
           \/ Schedule!Minute \/ Schedule!Crash \/ UNCHANGED Schedule!vars
  <2>1. /\ clock' \in Nat /\ UNCHANGED <<lastRun, started>>
        /\ check' = check \/ check' = [c \in Checks |-> Schedule!Idle]
    BY <1>0, <1>5
        DEF Schedule!SetSchedule, Schedule!Minute, Schedule!Crash, Schedule!vars, Schedule!rows
  <2> QED BY <2>1, AsideKeeps
<1> QED BY <1>1, <1>2, <1>3, <1>4, <1>5 DEF Schedule!Next

\* OncePerSlot, the half of SchedulesOnTime that is about steps, for any schedules and
\* period: whatever is restarted, disabled or late, checkDueBackups starts at most one
\* backup of a schedule per period, as long as its calls do not overlap.
THEOREM OncePerSlotHolds ==
    ASSUME Regular, OneCheck
    PROVE  Schedule!Spec => []Schedule!OncePerSlot
<1>1. Schedule!Init => ScheduleInv
  BY ScheduleStart
<1>2. ScheduleInv /\ [Schedule!Next]_(Schedule!vars) => ScheduleInv'
  BY ScheduleStep
<1>3. ScheduleInv => Schedule!OncePerSlot
  BY DEF ScheduleInv
<1> QED BY <1>1, <1>2, <1>3, PTL DEF Schedule!Spec
=============================================================================
