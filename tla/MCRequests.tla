----------------------------- MODULE MCRequests ------------------------------
(***************************************************************************)
(* Requests of the API that interleave on shared rows, for TLC.  The parts *)
(* have no row in common, so a behaviour runs one of them:                 *)
(*   file     the file cf2, with a base row for deployment d1 and an       *)
(*            override row for d2, a sync, an editor and the re-sync for   *)
(*            an update of a secret;                                       *)
(*   batch    two batches over cf2 and the file cf1, which has one         *)
(*            deployment, and an editor; one batch is undone when an       *)
(*            operation fails;                                             *)
(*   keys     three batches with one Idempotency-Key, two with the same    *)
(*            body and one that also names the file cf3 of another         *)
(*            environment, and a crash of the process, without edits;      *)
(*   route    changes of the dependencies of four services, one request    *)
(*            after the other.                                             *)
(***************************************************************************)
EXTENDS SyncBatch, DependencyRoute

CONSTANTS cf1, cf2, cf3, b1, b2, b3, b4, b5

VARIABLE part

MCServiceFiles == {"rf", "ro", "rg"}
MCFileOf       == [r \in MCServiceFiles |-> IF r = "rg" THEN cf1 ELSE cf2]
MCServiceOf    == [r \in MCServiceFiles |-> IF r = "rg" THEN "t" ELSE "s"]
MCOverrideOf   == [r \in MCServiceFiles |-> IF r = "ro" THEN "d2" ELSE None]
MCDeployedBy   == [d \in Deployments |-> IF d = "d3" THEN "t" ELSE "s"]
MCEnvOf        == [x \in Files |-> IF x = cf3 THEN "other" ELSE "e"]
MCOps          == [b \in Batches |-> IF b = b2 THEN <<cf1>>
                                     ELSE IF b = b5 THEN <<cf1, cf3>> ELSE <<cf1, cf2>>]
MCRollback     == [b \in Batches |-> b # b2]
MCKeyOf        == [b \in Batches |-> IF b \in {b1, b2} THEN None ELSE "key"]

\* A step in which the other files and batches take no part.
Only(files, batches) ==
    /\ \A f \in Files \ files : content'[f] = content[f]
    /\ \A p \in Syncers : sync'[p].file \in files \cup {None}
    /\ \A e \in Editors : editor'[e].file \in files \cup {None}
    /\ \A b \in Batches \ batches : batch'[b] = batch[b] /\ sync'[b].pc = "idle"

mcVars == <<part, vars, routeVars>>

MCInit ==
    /\ part \in {"file", "batch", "keys", "route"}
    /\ BatchInit
    /\ RouteInit

MCNext ==
    \/ /\ part = "file" /\ Next /\ UNCHANGED <<part, batchVars, crashes, routeVars>>
       /\ Only({cf2}, {b1})
    \/ /\ part = "batch" /\ BatchNext /\ UNCHANGED <<part, routeVars>>
       /\ Only({cf1, cf2}, {b1, b2}) /\ edits' <= 1 /\ crashes' = crashes
    \/ /\ part = "keys" /\ BatchNext /\ UNCHANGED <<part, routeVars>>
       /\ Only(Files, {b3, b4, b5}) /\ UNCHANGED <<content, editor>>
    \/ part = "route" /\ RouteNext /\ UNCHANGED <<part, vars>>

MCSpec == MCInit /\ [][MCNext]_mcVars

=============================================================================
