--------------------------- MODULE CommitProtocol ---------------------------
(***************************************************************************)
(* How devices share one remote dataset that the commit protocol owns:     *)
(* reconciliation, the remote commit lock, the shared intent, the shared   *)
(* index, the device's own recovery journal and Full Sync                  *)
(* (services/saves.py, infrastructure/savesync_commit.py and               *)
(* infrastructure/savesync_index.py).                                      *)
(*                                                                         *)
(* A save group's content is a version; every emulator save creates a new  *)
(* one on top of the version it found. The files of a group, the staging   *)
(* trees and the flushing of a transaction are in SaveTransaction.         *)
(***************************************************************************)
EXTENDS Naturals, FiniteSets

CONSTANTS
    Device,     \* the devices sharing the dataset
    Group,      \* ownership groups of save files
    Nobody,     \* holder of a free lock
    NoIntent,   \* INTENT.json does not exist
    NoTx,       \* a device's recovery journal does not exist
    MaxEdits,   \* bound: versions created by emulators
    MaxOps,     \* bound: transactions started
    MaxFulls,   \* bound: Full Syncs
    MaxFaults   \* bound: crashes and failed steps

ASSUME NobodyAssumption == Nobody \notin Device
ASSUME BoundsAssumption ==
    MaxEdits \in Nat /\ MaxOps \in Nat /\ MaxFulls \in Nat /\ MaxFaults \in Nat

Version  == 0..MaxEdits
Manifest == [Group -> Version]
Op       == 0..MaxOps

Step == {"idle", "scanned", "locked", "resolved", "begun", "promoting", "verified",
         "published", "recorded", "closed", "rollback", "restoring",
         "rebuild", "rescanned", "rebuilt"}
InTransaction == {"promoting", "verified", "published", "recorded", "closed", "rollback",
                  "restoring"}
\* Why a transaction is being rolled back: recovery of an earlier process's, a
\* failure before publication, or a state file that could not be written after it
Cause == {"none", "recover", "abort", "late"}

VARIABLES
    payload,    \* remote-data: the version of each group
    head,       \* the index: per group its generation, its version and the
                \* completed_transaction_id (0: none)
    intent,     \* the shared intent
    lock,       \* holder of .savesync-journal.lock
    local,      \* per device: the saves its emulators see
    base,       \* per device: the baseline in its state file
    receipt,    \* per device: last_completed_operation_id, in the same file
    tx,         \* per device: its recovery journal
    pc,         \* per device: where its SaveSync process is
    full,       \* per device: inside a Full Sync
    plan,       \* per device: the manifests the operation scanned, and its id
    todo,       \* per device: groups left to promote or to restore
    cause       \* per device: why it rolls back

VARIABLES       \* history and bounds
    past,       \* the versions each version was made on top of
    pubs,       \* how often each operation was published
    raced,      \* versions made while a rollback was about to restore their group
    meddled,    \* payload was restored while another device held the commit lock,
                \* since the last Full Sync began
    edits, ops, fulls, faults

remoteVars == <<payload, head, intent, lock>>
deviceVars == <<local, base, receipt, tx>>
procVars   == <<pc, full, plan, todo, cause>>
ghosts     == <<past, pubs, raced, meddled>>
bounds     == <<edits, ops, fulls, faults>>
vars       == <<remoteVars, deviceVars, procVars, ghosts, bounds>>

Origin  == [g \in Group |-> 0]
NoPlan  == [op |-> 0, local |-> Origin, remote |-> Origin]

Intents == [op : Op, groups : SUBSET Group, before : Manifest, desired : Manifest,
            full : BOOLEAN]
Txs     == [op : Op, phase : {"applying", "promoted"}, up : SUBSET Group,
            down : SUBSET Group, local : Manifest, remote : Manifest]

ASSUME AbsentAssumption == NoIntent \notin Intents /\ NoTx \notin Txs

Init ==
    /\ payload = Origin
    /\ head = [g \in Group |-> [gen |-> 1, ver |-> 0, op |-> 0]]
    /\ intent = NoIntent /\ lock = Nobody
    /\ local = [d \in Device |-> Origin] /\ base = local
    /\ receipt = [d \in Device |-> 0]
    /\ tx = [d \in Device |-> NoTx]
    /\ pc = [d \in Device |-> "idle"]
    /\ full = [d \in Device |-> FALSE]
    /\ plan = [d \in Device |-> NoPlan]
    /\ todo = [d \in Device |-> {}]
    /\ cause = [d \in Device |-> "none"]
    /\ past = [v \in Version |-> {}]
    /\ pubs = [o \in 1..MaxOps |-> 0]
    /\ raced = {} /\ meddled = FALSE
    /\ edits = 0 /\ ops = 0 /\ fulls = 0 /\ faults = 0

At(d, step) == pc[d] = step
Go(d, step) == pc' = [pc EXCEPT ![d] = step]

\* Mutant: an operation that ends keeps the commit lock.
LeaveLocked(d) ==
    /\ Go(d, "idle")
    /\ full' = [full EXCEPT ![d] = FALSE]
    /\ plan' = [plan EXCEPT ![d] = NoPlan]
    /\ todo' = [todo EXCEPT ![d] = {}]
    /\ cause' = [cause EXCEPT ![d] = "none"]
    /\ UNCHANGED lock

\* The operation ends: its process state is forgotten, the commit lock released.
Leave(d) ==
    /\ Go(d, "idle")
    /\ lock' = IF lock = d THEN Nobody ELSE lock
    /\ full' = [full EXCEPT ![d] = FALSE]
    /\ plan' = [plan EXCEPT ![d] = NoPlan]
    /\ todo' = [todo EXCEPT ![d] = {}]
    /\ cause' = [cause EXCEPT ![d] = "none"]

-----------------------------------------------------------------------------
(* The three-way decision, per group.                                      *)

\* Mutants: only the writing side's own change is looked at.
UploadsAnyway(b, l, r)   == {g \in Group : l[g] # r[g] /\ l[g] # b[g]}
DownloadsAnyway(b, l, r) == {g \in Group : l[g] # r[g] /\ r[g] # b[g]}

Uploads(b, l, r)   == {g \in Group : l[g] # r[g] /\ r[g] = b[g]}
Downloads(b, l, r) == {g \in Group : l[g] # r[g] /\ l[g] = b[g]}
Conflicts(b, l, r) == {g \in Group : l[g] # r[g] /\ l[g] # b[g] /\ r[g] # b[g]}

Up(d)   == Uploads(base[d], plan[d].local, plan[d].remote)
Down(d) == Downloads(base[d], plan[d].local, plan[d].remote)

\* A conflicting group keeps its baseline; the others advance to what both sides
\* now hold.
Reconciled(b, l, r) ==
    [g \in Group |-> IF g \in Conflicts(b, l, r) THEN b[g]
                     ELSE IF g \in Downloads(b, l, r) THEN r[g] ELSE l[g]]

-----------------------------------------------------------------------------
(* Starting an operation                                                   *)

FullStart(d) ==
    /\ At(d, "idle") /\ ~full[d] /\ lock = Nobody /\ fulls < MaxFulls
    /\ fulls' = fulls + 1
    /\ lock' = d
    /\ full' = [full EXCEPT ![d] = TRUE]
    /\ meddled' = FALSE
    /\ UNCHANGED <<payload, head, intent, deviceVars, pc, plan, todo, cause, past,
                   pubs, raced, edits, ops, faults>>

\* _recover: not under the commit lock, unless inside a Full Sync.
Recover(d) ==
    /\ At(d, "idle") /\ tx[d] # NoTx
    /\ IF tx[d].phase = "promoted" /\ receipt[d] = tx[d].op
       THEN tx' = [tx EXCEPT ![d] = NoTx] /\ UNCHANGED <<pc, cause>>
       ELSE /\ Go(d, "rollback")
            /\ cause' = [cause EXCEPT ![d] = "recover"]
            /\ UNCHANGED tx
    /\ UNCHANGED <<remoteVars, local, base, receipt, full, plan, todo, ghosts, bounds>>

\* Both sides are scanned, without the commit lock in ordinary reconciliation.
Scan(d) ==
    /\ At(d, "idle") /\ tx[d] = NoTx /\ ops < MaxOps
    /\ Uploads(base[d], local[d], payload) \cup Downloads(base[d], local[d], payload) # {}
    /\ ops' = ops + 1
    /\ plan' = [plan EXCEPT ![d] = [op |-> ops', local |-> local[d], remote |-> payload]]
    /\ Go(d, "scanned")
    /\ UNCHANGED <<remoteVars, deviceVars, full, todo, cause, ghosts, edits, fulls, faults>>

\* Nothing to move: the baseline is refreshed. 0 is an id no journal bears.
NothingToMove(d) ==
    /\ At(d, "idle") /\ tx[d] = NoTx
    /\ Uploads(base[d], local[d], payload) \cup Downloads(base[d], local[d], payload) = {}
    /\ base' = [base EXCEPT ![d] = Reconciled(base[d], local[d], payload)]
    /\ receipt' = [receipt EXCEPT ![d] = 0]
    /\ IF full[d] THEN Go(d, "rebuild") ELSE UNCHANGED pc
    /\ UNCHANGED <<remoteVars, local, tx, full, plan, todo, cause, ghosts, bounds>>

-----------------------------------------------------------------------------
(* _RemoteCommit.begin                                                     *)

\* Downloads never take the commit lock.
SkipLock(d) ==
    /\ At(d, "scanned") /\ Up(d) = {}
    /\ Go(d, "begun")
    /\ UNCHANGED <<remoteVars, deviceVars, full, plan, todo, cause, ghosts, bounds>>

TakeLock(d) ==
    /\ At(d, "scanned") /\ Up(d) # {} /\ lock \in {Nobody, d}
    /\ lock' = d
    /\ Go(d, "locked")
    /\ UNCHANGED <<payload, head, intent, deviceVars, full, plan, todo, cause, ghosts,
                   bounds>>

PayloadIs(groups, manifest) == \A g \in groups : payload[g] = manifest[g]
Landed   == PayloadIs(intent.groups, intent.desired)
Unlanded == PayloadIs(intent.groups, intent.before)
\* Mutant: the completion receipts are not read.
NoReceipts == {}
Receipts == {head[g].op : g \in Group}

\* Mutant: a publication tells peers of every group it scanned.
PublishAll(groups, manifest, op) ==
    /\ head' = [g \in Group |-> [gen |-> head[g].gen + 1, ver |-> manifest[g], op |-> op]]
    /\ pubs' = [pubs EXCEPT ![op] = @ + 1]

PublishGroups(groups, manifest, op) ==
    /\ head' = [g \in Group |-> IF g \in groups
                                THEN [gen |-> head[g].gen + 1, ver |-> manifest[g], op |-> op]
                                ELSE head[g]]
    /\ pubs' = [pubs EXCEPT ![op] = @ + 1]

\* The payload of an interrupted commit landed without its publication.
PublishForward(d) ==
    /\ At(d, "locked") /\ intent # NoIntent
    /\ Landed /\ ~intent.full /\ ~full[d] /\ intent.op \notin Receipts
    /\ PublishGroups(intent.groups, intent.desired, intent.op)
    /\ UNCHANGED <<payload, intent, lock, deviceVars, procVars, past, raced, meddled, bounds>>

RetireIntent(d) ==
    /\ At(d, "locked") /\ intent # NoIntent
    /\ IF Landed THEN full[d] \/ (~intent.full /\ intent.op \in Receipts) ELSE Unlanded
    /\ intent' = NoIntent
    /\ UNCHANGED <<payload, head, lock, deviceVars, procVars, ghosts, bounds>>

\* A third version: the intent is moved aside and the operation refused.
PreserveIntent(d) ==
    /\ At(d, "locked") /\ intent # NoIntent /\ ~Landed /\ ~Unlanded
    /\ intent' = NoIntent
    /\ Leave(d)
    /\ UNCHANGED <<payload, head, deviceVars, ghosts, bounds>>

\* Only a Full Sync may follow an interrupted Full Sync that changed payload.
RefuseIntent(d) ==
    /\ At(d, "locked") /\ intent # NoIntent /\ Landed /\ intent.full /\ ~full[d]
    /\ Leave(d)
    /\ UNCHANGED <<payload, head, intent, deviceVars, ghosts, bounds>>

\* The compare-and-swap compares the index with itself under the lock and always
\* succeeds; what can refuse is the comparison of the index with the payload.
CheckIndex(d) ==
    /\ At(d, "locked") /\ intent = NoIntent
    /\ IF full[d] \/ \A g \in Up(d) : head[g].ver = payload[g]
       THEN /\ intent' = [op |-> plan[d].op, groups |-> Up(d), before |-> plan[d].remote,
                          desired |-> plan[d].local, full |-> full[d]]
            /\ Go(d, "begun")
            /\ UNCHANGED <<lock, full, plan, todo, cause>>
       ELSE Leave(d) /\ UNCHANGED intent
    /\ UNCHANGED <<payload, head, deviceVars, ghosts, bounds>>

\* abandon: retire the operation's own intent, if it wrote one. A Full Sync keeps
\* even that: close returns early while the publication is deferred.
Abandon(d) == intent' = IF intent # NoIntent /\ intent.op = plan[d].op /\ ~full[d]
                        THEN NoIntent ELSE intent

-----------------------------------------------------------------------------
(* Staging, promotion and verification                                     *)

Unchanged(d) == local[d] = plan[d].local /\ payload = plan[d].remote

Prepare(d) ==
    /\ At(d, "begun") /\ Unchanged(d)
    /\ tx' = [tx EXCEPT ![d] = [op |-> plan[d].op, phase |-> "applying", up |-> Up(d),
                                down |-> Down(d), local |-> plan[d].local,
                                remote |-> plan[d].remote]]
    /\ todo' = [todo EXCEPT ![d] = Up(d) \cup Down(d)]
    /\ Go(d, "promoting")
    /\ UNCHANGED <<remoteVars, local, base, receipt, full, plan, cause, ghosts, bounds>>

\* Either side changed since it was scanned: nothing was promoted yet.
StagingChanged(d) ==
    /\ At(d, "begun") /\ ~Unchanged(d)
    /\ Abandon(d)
    /\ Leave(d)
    /\ UNCHANGED <<payload, head, deviceVars, ghosts, bounds>>

Abort(d) == Go(d, "rollback") /\ cause' = [cause EXCEPT ![d] = "abort"]

PromoteRemote(d, g) ==
    /\ At(d, "promoting") /\ g \in todo[d] \cap tx[d].up
    /\ IF payload[g] = tx[d].remote[g]
       THEN /\ payload' = [payload EXCEPT ![g] = tx[d].local[g]]
            /\ todo' = [todo EXCEPT ![d] = @ \ {g}]
            /\ UNCHANGED <<pc, cause>>
       ELSE Abort(d) /\ UNCHANGED <<payload, todo>>
    /\ UNCHANGED <<head, intent, lock, deviceVars, full, plan, ghosts, bounds>>

PromoteLocal(d, g) ==
    /\ At(d, "promoting") /\ g \in todo[d] \cap tx[d].down
    /\ IF local[d][g] = tx[d].local[g]
       THEN /\ local' = [local EXCEPT ![d][g] = tx[d].remote[g]]
            /\ todo' = [todo EXCEPT ![d] = @ \ {g}]
            /\ UNCHANGED <<pc, cause>>
       ELSE Abort(d) /\ UNCHANGED <<local, todo>>
    /\ UNCHANGED <<remoteVars, base, receipt, tx, full, plan, ghosts, bounds>>

DesiredRemote(t, g) == IF g \in t.up THEN t.local[g] ELSE t.remote[g]
DesiredLocal(t, g)  == IF g \in t.down THEN t.remote[g] ELSE t.local[g]

\* The journal says "promoted"; then both sides are scanned once more.
FinalVerify(d) ==
    /\ At(d, "promoting") /\ todo[d] = {}
    /\ tx' = [tx EXCEPT ![d].phase = "promoted"]
    /\ IF \A g \in Group : /\ payload[g] = DesiredRemote(tx[d], g)
                           /\ local[d][g] = DesiredLocal(tx[d], g)
       THEN Go(d, "verified") /\ UNCHANGED cause
       ELSE Abort(d)
    /\ UNCHANGED <<remoteVars, local, base, receipt, full, plan, todo, ghosts, bounds>>

-----------------------------------------------------------------------------
(* Publication and completion                                              *)

\* Inside a Full Sync the publication is deferred to its end.
Publish(d) ==
    /\ At(d, "verified")
    /\ IF tx[d].up # {} /\ ~full[d]
       THEN PublishGroups(tx[d].up, tx[d].local, tx[d].op)
       ELSE UNCHANGED <<head, pubs>>
    /\ Go(d, "published")
    /\ UNCHANGED <<payload, intent, lock, deviceVars, full, plan, todo, cause, past, raced, meddled, bounds>>

WriteState(d) ==
    /\ At(d, "published")
    /\ base' = [base EXCEPT ![d] = Reconciled(@, tx[d].local, tx[d].remote)]
    /\ receipt' = [receipt EXCEPT ![d] = tx[d].op]
    /\ Go(d, "recorded")
    /\ UNCHANGED <<remoteVars, local, tx, full, plan, todo, cause, ghosts, bounds>>

Close(d) ==
    /\ At(d, "recorded")
    /\ intent' = IF tx[d].up # {} /\ ~full[d] THEN NoIntent ELSE intent
    /\ Go(d, "closed")
    /\ UNCHANGED <<payload, head, lock, deviceVars, full, plan, todo, cause, ghosts, bounds>>

FinalizeTx(d) ==
    /\ At(d, "closed")
    /\ tx' = [tx EXCEPT ![d] = NoTx]
    /\ IF full[d]
       THEN Go(d, "rebuild") /\ UNCHANGED <<lock, full, plan, todo, cause>>
       ELSE Leave(d)
    /\ UNCHANGED <<payload, head, intent, local, base, receipt, ghosts, bounds>>

-----------------------------------------------------------------------------
(* The end of a Full Sync: _publish_authoritative_index                    *)

\* Mutant: the index is rebuilt from the scan the Full Sync began with.
RescanNothing(d) ==
    /\ At(d, "rebuild")
    /\ Go(d, "rescanned")
    /\ UNCHANGED <<remoteVars, deviceVars, full, plan, todo, cause, ghosts, bounds>>

Rescan(d) ==
    /\ At(d, "rebuild")
    /\ plan' = [plan EXCEPT ![d].remote = payload]
    /\ Go(d, "rescanned")
    /\ UNCHANGED <<remoteVars, deviceVars, full, todo, cause, ghosts, bounds>>

Rebuild(d) ==
    /\ At(d, "rescanned")
    /\ head' = [g \in Group |->
                   [gen |-> head[g].gen + (IF head[g].ver = plan[d].remote[g] THEN 0 ELSE 1),
                    ver |-> plan[d].remote[g], op |-> 0]]
    /\ Go(d, "rebuilt")
    /\ UNCHANGED <<payload, intent, lock, deviceVars, full, plan, todo, cause, ghosts, bounds>>

FullEnd(d) ==
    /\ At(d, "rebuilt")
    /\ intent' = NoIntent
    /\ Leave(d)
    /\ UNCHANGED <<payload, head, deviceVars, ghosts, bounds>>

-----------------------------------------------------------------------------
(* Rollback                                                                *)

InPlace(d) == /\ \A g \in tx[d].up : payload[g] = tx[d].remote[g]
              /\ \A g \in tx[d].down : local[d][g] = tx[d].local[g]
ThirdVersion(d) ==
    \/ \E g \in tx[d].up : payload[g] \notin {tx[d].remote[g], tx[d].local[g]}
    \/ \E g \in tx[d].down : local[d][g] \notin {tx[d].remote[g], tx[d].local[g]}

\* Mutant: promotion never notes that it touched a live file.
UntouchedAlways(d) == TRUE

\* No replacement had begun: the staging is dropped, whatever the saves are now.
Untouched(d) == todo[d] = tx[d].up \cup tx[d].down
Withdraw(d) ==
    /\ At(d, "rollback") /\ Untouched(d)
    /\ tx' = [tx EXCEPT ![d] = NoTx]
    /\ Abandon(d)
    /\ Leave(d)
    /\ UNCHANGED <<payload, head, local, base, receipt, ghosts, bounds>>

\* Mutant: the journal is removed before the saves are put back.
PlanForgetful(d) ==
    /\ At(d, "rollback") /\ ~Untouched(d)
    /\ tx' = [tx EXCEPT ![d] = NoTx]
    /\ Go(d, "restoring")
    /\ UNCHANGED <<remoteVars, local, base, receipt, full, plan, todo, cause, ghosts, bounds>>

PlanRollback(d) ==
    /\ At(d, "rollback") /\ ~Untouched(d)
    /\ IF ThirdVersion(d)
       THEN Leave(d)
       ELSE /\ todo' = [todo EXCEPT ![d] =
                            {g \in tx[d].up : payload[g] # tx[d].remote[g]}
                            \cup {g \in tx[d].down : local[d][g] # tx[d].local[g]}]
            /\ Go(d, "restoring")
            /\ UNCHANGED <<lock, full, plan, cause>>
    /\ UNCHANGED <<payload, head, intent, deviceVars, ghosts, bounds>>

\* A planned restoration is not checked again.
RestoreRemote(d, g) ==
    /\ At(d, "restoring") /\ g \in todo[d] \cap tx[d].up
    /\ payload' = [payload EXCEPT ![g] = tx[d].remote[g]]
    /\ todo' = [todo EXCEPT ![d] = @ \ {g}]
    /\ meddled' = (meddled \/ lock \notin {Nobody, d})
    /\ UNCHANGED <<head, intent, lock, deviceVars, pc, full, plan, cause, past, pubs,
                   raced, bounds>>

RestoreLocal(d, g) ==
    /\ At(d, "restoring") /\ g \in todo[d] \cap tx[d].down
    /\ local' = [local EXCEPT ![d][g] = tx[d].local[g]]
    /\ todo' = [todo EXCEPT ![d] = @ \ {g}]
    /\ UNCHANGED <<remoteVars, base, receipt, tx, pc, full, plan, cause, ghosts, bounds>>

\* Mutant: a rolled back operation leaves its intent.
RestoredOnly(d) ==
    /\ At(d, "restoring") /\ todo[d] = {}
    /\ tx' = IF InPlace(d) THEN [tx EXCEPT ![d] = NoTx] ELSE tx
    /\ Leave(d)
    /\ UNCHANGED <<payload, head, intent, local, base, receipt, ghosts, bounds>>

\* A recovery lets the operation that found the journal go on. An operation that
\* failed ends here: it retires its intent unless it had published.
Restored(d) ==
    /\ At(d, "restoring") /\ todo[d] = {}
    /\ tx' = IF InPlace(d) THEN [tx EXCEPT ![d] = NoTx] ELSE tx
    /\ IF InPlace(d) /\ cause[d] = "abort" THEN Abandon(d) ELSE UNCHANGED intent
    /\ IF InPlace(d) /\ cause[d] = "recover"
       THEN /\ Go(d, "idle")
            /\ cause' = [cause EXCEPT ![d] = "none"]
            /\ UNCHANGED <<lock, full, plan, todo>>
       ELSE Leave(d)
    /\ UNCHANGED <<payload, head, local, base, receipt, ghosts, bounds>>

-----------------------------------------------------------------------------
(* The environment                                                         *)

\* An emulator saves, or the user restores an older save from elsewhere: what is
\* there afterwards is a new version made on top of the one found.
Edit(d, g) ==
    /\ edits < MaxEdits
    /\ edits' = edits + 1
    /\ local' = [local EXCEPT ![d][g] = edits']
    /\ past' = [past EXCEPT ![edits'] = past[local[d][g]] \cup {local[d][g]}]
    /\ raced' = IF At(d, "restoring") /\ g \in todo[d] \cap tx[d].down
                THEN raced \cup {edits'} ELSE raced
    /\ UNCHANGED <<remoteVars, base, receipt, tx, procVars, pubs, meddled, ops, fulls,
                   faults>>

\* The process dies: the lock of a dead process is released.
Crash(d) ==
    /\ faults < MaxFaults /\ ~(At(d, "idle") /\ ~full[d])
    /\ faults' = faults + 1
    /\ Leave(d)
    /\ UNCHANGED <<payload, head, intent, deviceVars, ghosts, edits, ops, fulls>>

\* A step raises. Before the transaction exists only the intent is retired; until
\* the publication the transaction is rolled back; a failed state file is rolled
\* back even after it; later failures leave everything to recovery. A failed
\* rebuild of the index is swallowed by the Full Sync.
Fail(d) ==
    /\ faults < MaxFaults
    /\ faults' = faults + 1
    /\ \/ /\ pc[d] \in {"locked", "begun"}
          /\ Abandon(d) /\ Leave(d)
       \/ /\ pc[d] \in {"promoting", "verified"}
          /\ Abort(d)
          /\ UNCHANGED <<intent, lock, full, plan, todo>>
       \/ /\ At(d, "published")
          /\ Go(d, "rollback")
          /\ cause' = [cause EXCEPT ![d] = "late"]
          /\ UNCHANGED <<intent, lock, full, plan, todo>>
       \/ /\ pc[d] \in {"recorded", "restoring", "rebuild", "rescanned"}
          /\ Leave(d) /\ UNCHANGED intent
    /\ UNCHANGED <<payload, head, deviceVars, ghosts, edits, ops, fulls>>

-----------------------------------------------------------------------------
Beginning(d) == \/ Scan(d) \/ NothingToMove(d) \/ SkipLock(d) \/ TakeLock(d)
                \/ PublishForward(d) \/ RetireIntent(d) \/ PreserveIntent(d)
                \/ RefuseIntent(d) \/ CheckIndex(d)
Applying(d)  == \/ Prepare(d) \/ StagingChanged(d) \/ FinalVerify(d)
                \/ \E g \in Group : PromoteRemote(d, g) \/ PromoteLocal(d, g)
Ending(d)    == \/ Publish(d) \/ WriteState(d) \/ Close(d) \/ FinalizeTx(d)
                \/ Rescan(d) \/ Rebuild(d) \/ FullEnd(d)
Undoing(d)   == \/ Recover(d) \/ Withdraw(d) \/ PlanRollback(d) \/ Restored(d)
                \/ \E g \in Group : RestoreRemote(d, g) \/ RestoreLocal(d, g)

Working(d) == Beginning(d) \/ Applying(d) \/ Ending(d) \/ Undoing(d)

Next == \E d \in Device : \/ Working(d) \/ FullStart(d) \/ Crash(d) \/ Fail(d)
                          \/ \E g \in Group : Edit(d, g)

Spec == Init /\ [][Next]_vars

\* Every device is asked to sync again and again, and an operation that can take
\* its next step takes it.
FairSpec == Spec /\ \A d \in Device : WF_vars(Working(d))
-----------------------------------------------------------------------------
(* Properties                                                              *)

TypeOK ==
    /\ payload \in Manifest
    /\ head \in [Group -> [gen : Nat, ver : Version, op : Op]]
    /\ intent \in Intents \cup {NoIntent}
    /\ lock \in Device \cup {Nobody}
    /\ local \in [Device -> Manifest] /\ base \in [Device -> Manifest]
    /\ receipt \in [Device -> Op]
    /\ tx \in [Device -> Txs \cup {NoTx}]
    /\ \A d \in Device : pc[d] \in InTransaction => tx[d] # NoTx
    /\ pc \in [Device -> Step] /\ full \in [Device -> BOOLEAN]
    /\ plan \in [Device -> [op : Op, local : Manifest, remote : Manifest]]
    /\ todo \in [Device -> SUBSET Group] /\ cause \in [Device -> Cause]
    /\ past \in [Version -> SUBSET Version]
    /\ pubs \in [1..MaxOps -> Nat] /\ raced \subseteq Version
    /\ meddled \in BOOLEAN
    /\ edits \in 0..MaxEdits /\ ops \in 0..MaxOps
    /\ fulls \in 0..MaxFulls /\ faults \in 0..MaxFaults

Extends(w, v) == w = v \/ v \in past[w]

\* Every save an emulator ever made is still part of some copy: the one of a
\* device, or the remote payload, holds it or a save made on top of it. (A save
\* made in the window of a rollback is SaveTransaction's ThirdVersionKept.)
NoProgressLost ==
    \A v \in (1..edits) \ raced : \E g \in Group :
        \/ Extends(payload[g], v)
        \/ \E d \in Device : Extends(local[d][g], v)

\* A version the index tells peers of is replaced in the payload only by a save
\* made on top of it, whatever plan, however old, a device carries out.
PublishedNeverRegresses ==
    [][\A g \in Group : payload[g] = head[g].ver /\ payload'[g] # payload[g]
                     => payload[g] \in past[payload'[g]]]_vars

\* What the index tells and what the payload holds are the shared and the offered
\* versions of SharedSaves: the payload leaves the index only for a save made on
\* top of it, one at a time, and comes back to it by a publication of what the
\* payload holds or by a rollback to what was published.
Shared == INSTANCE SharedSaves WITH shared  <- [g \in Group |-> head[g].ver],
                                    offered <- payload
SavesShared == Shared!Spec

\* When nobody holds the commit lock and no device has a journal to recover, the
\* index describes the payload and no intent is left behind.
AtRest == lock = Nobody /\ \A d \in Device : tx[d] = NoTx
IndexMatchesPayload == AtRest => \A g \in Group : head[g].ver = payload[g]
IntentRetired       == AtRest => intent = NoIntent

\* At rest the shared metadata is true and complete.
IndexHonest == IndexMatchesPayload /\ IntentRetired

\* The receipt in the index stops recovery from publishing an operation twice,
\* whichever device finds the intent and however often the finisher dies.
PublishedOnce == \A o \in 1..MaxOps : pubs[o] <= 1

\* A Full Sync that ends normally leaves an index that describes the payload and
\* no intent, whatever it found, unless a recovery outside the commit lock
\* restored payload under its hands or is still to come.
FullSyncRepairsStep ==
    \A d \in Device :
        /\ At(d, "rebuilt") /\ (At(d, "idle"))' /\ faults' = faults /\ ~meddled
        => intent' = NoIntent /\ \A g \in Group : head[g].ver = payload[g]
FullSyncRepairs == [][FullSyncRepairsStep]_vars

\* Without faults, devices that keep syncing end up with the shared version of
\* every group, with a conflict for the user to resolve, or with a recovery journal
\* that a save written into a half-done promotion keeps from being resolved.
Settled(d) == \A g \in Group \ Conflicts(base[d], local[d], payload) : local[d][g] = payload[g]
Blocked(d) == tx[d] # NoTx /\ ThirdVersion(d)
Converges  == <>[](ops = MaxOps \/ \A d \in Device : Settled(d) \/ Blocked(d))
=============================================================================
