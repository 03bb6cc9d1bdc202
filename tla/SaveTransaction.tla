-------------------------- MODULE SaveTransaction --------------------------
(***************************************************************************)
(* The journaled, multi-view replacement of save files                     *)
(* (infrastructure/save_transaction.py) together with what its callers in  *)
(* services/saves.py do around it: publication, the completion receipt in  *)
(* the local state file, and the legacy journal append.                    *)
(*                                                                         *)
(* One device is modelled: its SaveSync process (one operation at a time,  *)
(* under the operation lock), the emulators that write saves without any   *)
(* lock, process crashes, power loss and I/O errors.                       *)
(***************************************************************************)
EXTENDS Naturals, FiniteSets

CONSTANTS
    View,       \* physical destination roots (local save roots, remote root)
    Path,       \* relative paths inside a root
    Content,    \* contents a save file may have
    Absent,     \* the "content" of a path where no file exists
    NoTree,     \* a staging or history directory that does not exist
    Publishes,  \* TRUE: an upload publishes the shared index before its receipt
                \* (owned dataset); FALSE: unowned dataset, or a Full Sync that
                \* defers publication
    MaxOps,     \* bound: transactions started
    MaxWrites,  \* bound: emulator writes
    MaxFaults   \* bound: crashes, power losses and I/O errors

ASSUME AbsentAssumption == Absent \notin Content
ASSUME NoTreeAssumption == NoTree \notin [Path -> Content \cup {Absent}]
ASSUME PublishesAssumption == Publishes \in BOOLEAN
ASSUME BoundsAssumption == MaxOps \in Nat /\ MaxWrites \in Nat /\ MaxFaults \in Nat

Version  == Content \cup {Absent}
Target   == View \X Path
Manifest == [Target -> Version]
Tree     == [Path -> Version]

Phase  == {"none", "preparing", "prepared", "applying", "promoted"}
\* Force upload, force download and conflict resolution treat failures alike.
Caller == {"reconcile", "command"}
Step   == {"idle", "staging", "prepared", "verifying", "promoting", "replacing",
           "syncing", "synced", "applied", "published", "receipted", "finalizing",
           "rollback", "restoring", "cleanup", "restoreState"}

VARIABLES
    live,       \* the save files, as every process sees them
    synced,     \* what is durable of them: a power loss may fall back to it
    stage,      \* files materialised in the transaction's staging trees
    candidate,  \* per view: this operation's snapshot (previous_candidate)
    previous,   \* per view: the stable .savesync-previous generation
    journal,    \* the recovery journal; phase "none": no file
    receipt,    \* last_completed_operation_id of the state file, 0: none. The
                \* baseline is in the same file, so it moves with the receipt
    pc,         \* where the SaveSync process is
    mem         \* its SelectedTransaction, in memory only

VARIABLES       \* history and bounds, read by no guard but the bounds
    published,  \* operations whose content peers have been told of
    outcome,    \* how each operation was resolved
    written,    \* targets an emulator wrote since the operation began, or wrote
                \* before it and not yet durably
    raced,      \* ... and of those, the ones written after their last check
    ops, writes, faults

fileVars == <<live, synced, stage, candidate, previous>>
procVars == <<pc, mem>>
ghosts   == <<published, outcome, written, raced>>
bounds   == <<ops, writes, faults>>
vars     == <<fileVars, journal, receipt, procVars, ghosts, bounds>>

IdleMem == [touched |-> FALSE, todo |-> {}, at |-> {}, views |-> {}, failed |-> FALSE,
            keep |-> FALSE, prior |-> 0, caller |-> "reconcile", upload |-> FALSE]

\* touched: _live_touched; todo: targets left to replace or restore; at: the one
\* verified and about to be replaced; views: views left to stage, restore, install
\* or clean; failed: a restore error; keep: cleanup ends in the new content;
\* prior: the receipt before the operation
MemType == [touched : BOOLEAN, todo : SUBSET Target, at : SUBSET Target,
            views : SUBSET View, failed : BOOLEAN, keep : BOOLEAN, prior : 0..MaxOps, caller : Caller,
            upload : BOOLEAN]

-----------------------------------------------------------------------------
(* The delta a transaction is cropped to.                                  *)

Changed == {t \in Target : journal.current[t] # journal.desired[t]}
TxViews == {t[1] : t \in Changed}
Of(v)   == {t \in Changed : t[1] = v}

\* Mutant: the snapshot is taken from the wrong manifest.
SnapshotOfDesired(v) == [p \in Path |-> IF <<v, p>> \in Changed
                                        THEN journal.desired[<<v, p>>] ELSE Absent]

Snapshot(v) == [p \in Path |-> IF <<v, p>> \in Changed
                               THEN journal.current[<<v, p>>] ELSE Absent]

Original(t) == live[t] = journal.current[t]
Desired(t)  == live[t] = journal.desired[t]

Go(step)      == pc' = step
Phased(phase) == journal' = [journal EXCEPT !.phase = phase]

Init ==
    /\ live \in Manifest
    /\ synced = live
    /\ stage = [t \in Target |-> Absent]
    /\ candidate = [v \in View |-> NoTree]
    /\ previous = [v \in View |-> NoTree]
    /\ journal = [phase |-> "none", op |-> 0, current |-> live, desired |-> live]
    /\ receipt = 0
    /\ pc = "idle"
    /\ mem = IdleMem
    /\ published = {}
    /\ outcome = [o \in 1..MaxOps |-> "none"]
    /\ written = {}
    /\ raced = {}
    /\ ops = 0 /\ writes = 0 /\ faults = 0

-----------------------------------------------------------------------------
(* prepare_transaction                                                     *)

Begin(desired, caller, upload) ==
    /\ pc = "idle" /\ journal.phase = "none"
    /\ ops < MaxOps
    /\ desired # live
    /\ ops' = ops + 1
    /\ journal' = [phase |-> "preparing", op |-> ops', current |-> live,
                   desired |-> desired]
    /\ mem' = [IdleMem EXCEPT !.views = {t[1] : t \in {u \in Target : live[u] # desired[u]}},
                              !.prior = receipt, !.caller = caller,
                              !.upload = upload]
    /\ written' = {t \in Target : live[t] # synced[t]}
    /\ raced' = {}
    /\ Go("staging")
    /\ UNCHANGED <<fileVars, receipt, published, outcome, writes, faults>>

StageView(v) ==
    /\ pc = "staging" /\ v \in mem.views
    /\ \A t \in Of(v) : journal.current[t] = Absent \/ Original(t)
    /\ stage' = [t \in Target |-> IF t \in Of(v) THEN journal.desired[t] ELSE stage[t]]
    /\ candidate' = [candidate EXCEPT ![v] = Snapshot(v)]
    /\ mem' = [mem EXCEPT !.views = @ \ {v}]
    /\ UNCHANGED <<live, synced, previous, journal, receipt, pc, ghosts, bounds>>

StageRefused(v) ==
    /\ pc = "staging" /\ v \in mem.views
    /\ \E t \in Of(v) : journal.current[t] # Absent /\ ~Original(t)
    /\ mem' = [mem EXCEPT !.views = TxViews]
    /\ Go("cleanup")
    /\ UNCHANGED <<fileVars, journal, receipt, ghosts, bounds>>

Prepared ==
    /\ pc = "staging" /\ mem.views = {}
    /\ Phased("prepared")
    /\ Go("prepared")
    /\ UNCHANGED <<fileVars, receipt, mem, ghosts, bounds>>

-----------------------------------------------------------------------------
(* apply_transaction                                                       *)

StartApply ==
    /\ pc = "prepared"
    /\ live = journal.current
    /\ Phased("applying")
    /\ Go("verifying")
    /\ UNCHANGED <<fileVars, receipt, mem, ghosts, bounds>>

VerifyCurrent ==
    /\ pc = "verifying"
    /\ IF live = journal.current
       THEN Go("promoting") /\ mem' = [mem EXCEPT !.todo = Changed]
       ELSE Go("rollback") /\ UNCHANGED mem
    /\ UNCHANGED <<fileVars, journal, receipt, ghosts, bounds>>

\* Mutant: a target is replaced on the strength of the earlier full scan alone.
CheckNothing(t) ==
    /\ pc = "promoting" /\ t \in mem.todo
    /\ Go("replacing")
    /\ mem' = [mem EXCEPT !.todo = @ \ {t}, !.at = {t}]
    /\ UNCHANGED <<fileVars, journal, receipt, ghosts, bounds>>

CheckTarget(t) ==
    /\ pc = "promoting" /\ t \in mem.todo
    /\ IF Original(t)
       THEN /\ Go("replacing")
            /\ mem' = [mem EXCEPT !.todo = @ \ {t}, !.at = {t}]
            /\ raced' = raced \ {t}
       ELSE Go("rollback") /\ UNCHANGED <<mem, raced>>
    /\ UNCHANGED <<fileVars, journal, receipt, published, outcome, written, bounds>>

ReplaceTarget(t) ==
    /\ pc = "replacing" /\ t \in mem.at
    /\ live' = [live EXCEPT ![t] = journal.desired[t]]
    /\ stage' = [stage EXCEPT ![t] = Absent]
    /\ mem' = [mem EXCEPT !.touched = TRUE, !.at = {}]
    /\ Go("promoting")
    /\ UNCHANGED <<synced, candidate, previous, journal, receipt, ghosts, bounds>>

VerifyDesired ==
    /\ pc = "promoting" /\ mem.todo = {}
    /\ Go(IF live = journal.desired THEN "syncing" ELSE "rollback")
    /\ UNCHANGED <<fileVars, journal, receipt, mem, ghosts, bounds>>

\* Mutant: the new saves are not flushed before the phase moves on.
SyncNothing ==
    /\ pc = "syncing"
    /\ Go("synced")
    /\ UNCHANGED <<fileVars, journal, receipt, mem, ghosts, bounds>>

SyncLive ==
    /\ pc = "syncing"
    /\ synced' = [t \in Target |-> IF t \in Changed THEN live[t] ELSE synced[t]]
    /\ Go("synced")
    /\ UNCHANGED <<live, stage, candidate, previous, journal, receipt, mem, ghosts, bounds>>

Promoted ==
    /\ pc = "synced"
    /\ Phased("promoted")
    /\ Go("applied")
    /\ UNCHANGED <<fileVars, receipt, mem, ghosts, bounds>>

-----------------------------------------------------------------------------
(* The callers: _reconcile_once, _commit_force and resolve_conflict        *)

\* The rescan after staging no longer finds what was planned for.
StagingChanged ==
    /\ pc = "prepared" /\ live # journal.current
    /\ Go("rollback")
    /\ UNCHANGED <<fileVars, journal, receipt, mem, ghosts, bounds>>

\* The source changed, a session became active, or the verification after
\* promotion or the publication failed: the operation is given up.
CallerAborts ==
    /\ pc \in {"prepared", "applied"}
    /\ Go("rollback")
    /\ UNCHANGED <<fileVars, journal, receipt, mem, ghosts, bounds>>

Publish ==
    /\ pc = "applied"
    /\ published' = IF Publishes /\ mem.upload THEN published \cup {journal.op}
                                               ELSE published
    /\ Go("published")
    /\ UNCHANGED <<fileVars, journal, receipt, mem, outcome, written, raced, bounds>>

WriteReceipt ==
    /\ pc = "published"
    /\ receipt' = journal.op
    /\ Go("receipted")
    /\ UNCHANGED <<fileVars, journal, mem, ghosts, bounds>>

\* _write_state failed. Only the force and conflict paths ask whether the
\* index is already committed; reconciliation rolls back in any case.
ReceiptFails ==
    /\ pc = "published" /\ faults < MaxFaults
    /\ faults' = faults + 1
    /\ IF mem.caller # "reconcile" /\ journal.op \in published
       THEN Go("idle") /\ mem' = IdleMem
       ELSE Go("rollback") /\ UNCHANGED mem
    /\ UNCHANGED <<fileVars, journal, receipt, ghosts, ops, writes>>

AppendJournal ==
    /\ pc = "receipted"
    /\ mem' = [mem EXCEPT !.views = TxViews]
    /\ Go("finalizing")
    /\ UNCHANGED <<fileVars, journal, receipt, ghosts, bounds>>

\* Fatal only while the index has not been published. The receipt, and the
\* baseline with it, has already been written.
AppendFails ==
    /\ pc = "receipted" /\ mem.upload /\ journal.op \notin published
    /\ faults < MaxFaults
    /\ faults' = faults + 1
    /\ Go("rollback")
    /\ UNCHANGED <<fileVars, journal, receipt, mem, ghosts, ops, writes>>

\* _reconcile_once writes the state it started from back; the two others do not.
RestoreState ==
    /\ pc = "restoreState"
    /\ receipt' = mem.prior
    /\ Go("idle") /\ mem' = IdleMem
    /\ UNCHANGED <<fileVars, journal, ghosts, bounds>>

-----------------------------------------------------------------------------
(* finalize                                                                *)

ValidSnapshot(v) == IF candidate[v] # NoTree THEN candidate[v] = Snapshot(v)
                                             ELSE previous[v] = Snapshot(v)

ValidateFinalize ==
    /\ pc = "finalizing" /\ mem.views = TxViews /\ ~mem.keep
    /\ IF \A v \in TxViews : ValidSnapshot(v)
       THEN mem' = [mem EXCEPT !.keep = TRUE] /\ UNCHANGED pc
       ELSE mem' = IdleMem /\ Go("idle")
    /\ UNCHANGED <<fileVars, journal, receipt, ghosts, bounds>>

RemovePrevious(v) ==
    /\ pc = "finalizing" /\ mem.keep /\ v \in mem.views
    /\ candidate[v] # NoTree /\ previous[v] # NoTree
    /\ previous' = [previous EXCEPT ![v] = NoTree]
    /\ UNCHANGED <<live, synced, stage, candidate, journal, receipt, procVars, ghosts, bounds>>

\* Mutant: the operation's snapshot is dropped instead of becoming the history.
InstallNothing(v) ==
    /\ pc = "finalizing" /\ mem.keep /\ v \in mem.views
    /\ candidate' = [candidate EXCEPT ![v] = NoTree]
    /\ mem' = [mem EXCEPT !.views = @ \ {v}]
    /\ UNCHANGED <<live, synced, stage, previous, journal, receipt, pc, ghosts, bounds>>

InstallPrevious(v) ==
    /\ pc = "finalizing" /\ mem.keep /\ v \in mem.views
    /\ candidate[v] # NoTree => previous[v] = NoTree
    /\ IF candidate[v] # NoTree
       THEN /\ previous' = [previous EXCEPT ![v] = candidate[v]]
            /\ candidate' = [candidate EXCEPT ![v] = NoTree]
       ELSE UNCHANGED <<previous, candidate>>
    /\ mem' = [mem EXCEPT !.views = @ \ {v}]
    /\ UNCHANGED <<live, synced, stage, journal, receipt, pc, ghosts, bounds>>

\* Mutant: the targets, not their views, are handed to the cleanup.
FinalizeTargets ==
    /\ pc = "finalizing" /\ mem.keep /\ mem.views = {}
    /\ mem' = [mem EXCEPT !.views = Changed]
    /\ Go("cleanup")
    /\ UNCHANGED <<fileVars, journal, receipt, ghosts, bounds>>

FinalizeInstalled ==
    /\ pc = "finalizing" /\ mem.keep /\ mem.views = {}
    /\ mem' = [mem EXCEPT !.views = TxViews]
    /\ Go("cleanup")
    /\ UNCHANGED <<fileVars, journal, receipt, ghosts, bounds>>

-----------------------------------------------------------------------------
(* rollback and _cleanup                                                   *)

\* Mutant: what the target holds now is not looked at.
RestorableUnread(t) ==
    \/ Original(t)
    \/ journal.current[t] = Absent
    \/ /\ candidate[t[1]] # NoTree
       /\ candidate[t[1]][t[2]] = journal.current[t]

Restorable(t) ==
    \/ Original(t)
    \/ /\ Desired(t)
       /\ \/ journal.current[t] = Absent
          \/ /\ candidate[t[1]] # NoTree
             /\ candidate[t[1]][t[2]] = journal.current[t]

PlanRollback ==
    /\ pc = "rollback"
    /\ IF ~mem.touched
       THEN /\ mem' = [mem EXCEPT !.todo = {}, !.at = {}, !.views = TxViews]
            /\ Go("cleanup") /\ UNCHANGED raced
       ELSE IF \A t \in Changed : Restorable(t)
       THEN /\ mem' = [mem EXCEPT !.todo = {t \in Changed : ~Original(t)},
                                  !.at = {}, !.views = TxViews]
            /\ raced' = raced \ Changed
            /\ Go("restoring")
       ELSE mem' = IdleMem /\ Go("idle") /\ UNCHANGED raced
    /\ UNCHANGED <<fileVars, journal, receipt, published, outcome, written, bounds>>

\* No target is looked at again between the plan and its replacement.
RestoreTarget(t) ==
    /\ pc = "restoring" /\ t \in mem.todo
    /\ live' = [live EXCEPT ![t] = journal.current[t]]
    /\ mem' = [mem EXCEPT !.todo = @ \ {t}]
    /\ UNCHANGED <<synced, stage, candidate, previous, journal, receipt, pc, ghosts, bounds>>

VerifyRestored(v) ==
    /\ pc = "restoring" /\ v \in mem.views /\ mem.todo \cap Of(v) = {}
    /\ IF \A t \in Of(v) : Original(t)
       THEN /\ synced' = [t \in Target |-> IF t \in Of(v) THEN live[t] ELSE synced[t]]
            /\ mem' = [mem EXCEPT !.views = @ \ {v}]
       ELSE /\ mem' = [mem EXCEPT !.views = @ \ {v}, !.failed = TRUE]
            /\ UNCHANGED synced
    /\ UNCHANGED <<live, stage, candidate, previous, journal, receipt, pc, ghosts, bounds>>

\* Mutant: a completed restoration leaves without cleaning up.
RestoredUncleaned ==
    /\ pc = "restoring" /\ mem.views = {}
    /\ mem' = IdleMem /\ Go("idle")
    /\ UNCHANGED <<fileVars, journal, receipt, ghosts, bounds>>

Restored ==
    /\ pc = "restoring" /\ mem.views = {}
    /\ IF mem.failed THEN mem' = IdleMem /\ Go("idle")
                     ELSE mem' = [mem EXCEPT !.views = TxViews] /\ Go("cleanup")
    /\ UNCHANGED <<fileVars, journal, receipt, ghosts, bounds>>

CleanView(v) ==
    /\ pc = "cleanup" /\ v \in mem.views
    /\ stage' = [t \in Target |-> IF t[1] = v THEN Absent ELSE stage[t]]
    /\ candidate' = [candidate EXCEPT ![v] = NoTree]
    /\ mem' = [mem EXCEPT !.views = @ \ {v}]
    /\ UNCHANGED <<live, synced, previous, journal, receipt, pc, ghosts, bounds>>

UnlinkJournal ==
    /\ pc = "cleanup" /\ mem.views = {}
    /\ Phased("none")
    /\ outcome' = [outcome EXCEPT ![journal.op] = IF mem.keep THEN "kept" ELSE "rolledBack"]
    /\ IF receipt = journal.op /\ ~mem.keep /\ mem.caller = "reconcile"
       THEN Go("restoreState") /\ UNCHANGED mem
       ELSE Go("idle") /\ mem' = IdleMem
    /\ UNCHANGED <<fileVars, receipt, published, written, raced, bounds>>

-----------------------------------------------------------------------------
(* recover_transaction, run by the next operation under the lock           *)

\* Mutant: recovery always rolls back.
CompletedNever == FALSE
\* Mutant: an application interrupted half-way is taken for one not begun.
InterruptedLate == journal.phase = "promoted"

Completed   == journal.phase = "promoted" /\ receipt = journal.op
Interrupted == journal.phase \in {"applying", "promoted"}

Recover ==
    /\ pc = "idle" /\ journal.phase # "none"
    /\ IF Completed
       THEN /\ Go("finalizing")
            /\ mem' = [IdleMem EXCEPT !.views = TxViews]
       ELSE /\ Go("rollback")
            /\ mem' = [IdleMem EXCEPT !.touched = Interrupted, !.caller = "command"]
    /\ UNCHANGED <<fileVars, journal, receipt, ghosts, bounds>>

-----------------------------------------------------------------------------
(* The environment                                                         *)

\* An emulator saves, or deletes a save. It takes no lock, and the write may or
\* may not be durable yet.
EmulatorWrite(t, c, durable) ==
    /\ writes < MaxWrites /\ c # live[t]
    /\ writes' = writes + 1
    /\ live' = [live EXCEPT ![t] = c]
    /\ synced' = IF durable THEN [synced EXCEPT ![t] = c] ELSE synced
    /\ written' = written \cup {t}
    /\ raced' = IF \/ t \in mem.at
                   \/ pc = "restoring" /\ t \in mem.todo
                THEN raced \cup {t} ELSE raced
    /\ UNCHANGED <<stage, candidate, previous, journal, receipt, procVars,
                   published, outcome, ops, faults>>

\* The process dies and is started again.
Crash ==
    /\ faults < MaxFaults /\ pc # "idle"
    /\ faults' = faults + 1
    /\ Go("idle") /\ mem' = IdleMem
    /\ UNCHANGED <<fileVars, journal, receipt, ghosts, ops, writes>>

\* So does the machine: any subset of the unsynced changes to saves is lost.
PowerLoss(lost) ==
    /\ faults < MaxFaults
    /\ lost # {} /\ \A t \in lost : live[t] # synced[t]
    /\ faults' = faults + 1
    /\ live' = [t \in Target |-> IF t \in lost THEN synced[t] ELSE live[t]]
    /\ synced' = live'
    /\ Go("idle") /\ mem' = IdleMem
    /\ UNCHANGED <<stage, candidate, previous, journal, receipt, published,
                   outcome, written, raced, ops, writes>>

\* An I/O error surfaces as an exception in the step the process is at.
IOError ==
    /\ faults < MaxFaults
    /\ faults' = faults + 1
    /\ \/ /\ pc = "staging"
          /\ Go("cleanup") /\ mem' = [mem EXCEPT !.views = TxViews]
       \/ /\ pc \in {"prepared", "verifying", "promoting", "replacing", "syncing",
                    "synced", "applied"}
          /\ Go("rollback") /\ UNCHANGED mem
       \/ /\ pc = "published" /\ journal.op \in published
          /\ Go("idle") /\ mem' = IdleMem
       \/ /\ pc \in {"rollback", "restoring", "cleanup", "finalizing", "restoreState"}
          /\ Go("idle") /\ mem' = IdleMem
    /\ UNCHANGED <<fileVars, journal, receipt, ghosts, ops, writes>>

-----------------------------------------------------------------------------
Prepare  == \/ Prepared
            \/ \E v \in View : StageView(v) \/ StageRefused(v)
Apply    == \/ StartApply \/ VerifyCurrent \/ VerifyDesired \/ SyncLive \/ Promoted
            \/ \E t \in Target : CheckTarget(t) \/ ReplaceTarget(t)
Complete == StagingChanged \/ Publish \/ WriteReceipt \/ AppendJournal \/ RestoreState
Finalize == \/ ValidateFinalize \/ FinalizeInstalled
            \/ \E v \in View : RemovePrevious(v) \/ InstallPrevious(v)
Rollback == \/ PlanRollback \/ Restored
            \/ \E t \in Target : RestoreTarget(t)
            \/ \E v \in View : VerifyRestored(v)
Cleanup  == UnlinkJournal \/ \E v \in View : CleanView(v)

\* What the process does once it has been given a transaction.
Working == Prepare \/ Apply \/ Complete \/ Finalize \/ Rollback \/ Cleanup \/ Recover

Start == \E desired \in Manifest, caller \in Caller, upload \in BOOLEAN :
            Begin(desired, caller, upload)

Environment == \/ \E t \in Target, c \in Version, durable \in BOOLEAN :
                     EmulatorWrite(t, c, durable)
               \/ Crash \/ IOError
               \/ \E lost \in SUBSET Target : PowerLoss(lost)

Next == Start \/ Working \/ CallerAborts \/ ReceiptFails \/ AppendFails \/ Environment

Spec     == Init /\ [][Next]_vars
FairSpec == Spec /\ WF_vars(Working)
-----------------------------------------------------------------------------
(* Properties                                                              *)

TypeOK ==
    /\ live \in Manifest /\ synced \in Manifest /\ stage \in Manifest
    /\ candidate \in [View -> Tree \cup {NoTree}]
    /\ previous \in [View -> Tree \cup {NoTree}]
    /\ journal \in [phase : Phase, op : 0..MaxOps, current : Manifest, desired : Manifest]
    /\ receipt \in 0..MaxOps
    /\ pc \in Step /\ mem \in MemType
    /\ published \subseteq 0..MaxOps
    /\ outcome \in [1..MaxOps -> {"none", "kept", "rolledBack"}]
    /\ written \subseteq Target /\ raced \subseteq Target
    /\ ops \in 0..MaxOps /\ writes \in 0..MaxWrites /\ faults \in 0..MaxFaults

\* From the first replacement on, and after the operation is over, the content a
\* target had before it still exists: in place, in this operation's snapshot, or
\* in the stable history. Only an emulator may have replaced it since.
KeptIn(tree, t) == tree # NoTree /\ tree[t[2]] = journal.current[t]

SaveNeverLost ==
    journal.phase \in {"applying", "promoted"} \/ (journal.op > 0 /\ journal.phase = "none")
    => \A t \in Changed :
          \/ journal.current[t] = Absent
          \/ Original(t)
          \/ KeptIn(candidate[t[1]], t)
          \/ KeptIn(previous[t[1]], t)
          \/ t \in written

\* Once the journal is gone the operation happened in every view or in none,
\* whatever crashed in between; a save an emulator wrote meanwhile is its own.
AllOrNothing ==
    journal.op > 0 /\ journal.phase = "none" =>
        \A t \in Changed \ written :
            IF outcome[journal.op] = "kept" THEN Desired(t) ELSE Original(t)

\* Promotion and rollback destroy a content that is neither the one before nor
\* the one after the operation only if it was written after that file's own
\* last check (the check of _apply_view, the plan of rollback).
ThirdVersionKept ==
    [][writes' = writes /\ faults' = faults =>
          \A t \in Target : live'[t] # live[t] =>
              live[t] \in {journal.current[t], journal.desired[t]} \/ t \in raced]_vars

\* The completion receipt, which carries the new baseline, is on disk only when
\* the saves it speaks of are: a power loss right after it loses none of them.
ReceiptMeansDurable ==
    journal.phase # "none" /\ receipt = journal.op =>
        /\ journal.phase = "promoted"
        /\ \A t \in Changed \ written : synced[t] = journal.desired[t]

\* Between operations, with no recovery pending, the receipt (and the baseline
\* beside it) never names an operation whose saves were put back.
ReceiptMeansKept ==
    pc = "idle" /\ journal.phase = "none" /\ receipt # 0 => outcome[receipt] = "kept"

\* What is remembered of an operation is true: it happened in every view or in
\* none, and a receipt speaks of saves that are durable and were not put back.
OutcomeHonest == AllOrNothing /\ ReceiptMeansDurable /\ ReceiptMeansKept

\* An operation published to the peers is not rolled back.
PublishedKept == \A o \in published : outcome[o] # "rolledBack"

\* If SaveSync keeps being invoked, a recovery journal stays unresolved only
\* because an emulator wrote a target whose content can no longer be put back.
Blocked == \E t \in Changed \cap written : ~Restorable(t)
StuckOnlyIfBlocked == <>[](journal.phase # "none") => <>[]Blocked

-----------------------------------------------------------------------------
(* Inductive strengthenings, used by the proofs                            *)

\* A verified target is replaced, and a planned one restored, only while it still
\* holds what was verified or planned for, or an emulator raced with the step.
WindowInv ==
    /\ pc = "replacing" => \A t \in mem.at : Original(t) \/ t \in raced
    /\ pc = "restoring" => \A t \in mem.todo : Desired(t) \/ t \in raced

Applying == {"verifying", "promoting", "replacing", "syncing", "synced"}
Holding  == {"prepared", "applied", "published", "receipted"} \cup Applying

Untouched(t) == t \in written \/ (live[t] = journal.current[t] /\ synced[t] = journal.current[t])
Guarded(v)   == \/ candidate[v] = Snapshot(v)
                \/ previous[v] = Snapshot(v)
                \/ \A t \in Of(v) : Untouched(t)

InPhase ==
    /\ pc = "staging" => journal.phase = "preparing"
    /\ pc = "prepared" => journal.phase = "prepared"
    /\ pc \in Applying => journal.phase = "applying"
    /\ mem.keep => pc \in {"finalizing", "cleanup"}

NotYetTouched ==
    journal.phase \in {"preparing", "prepared"} \/ (pc \in Holding \cup {"rollback"} /\ ~mem.touched)
    => \A t \in Changed : Untouched(t)

SnapshotHeld ==
    /\ pc = "staging" => \A v \in TxViews \ mem.views : candidate[v] = Snapshot(v)
    /\ pc \in Holding => \A v \in TxViews : candidate[v] = Snapshot(v)

AllGuarded ==
    journal.phase \in {"applying", "promoted"} \/ (journal.op > 0 /\ journal.phase = "none")
    => \A v \in TxViews : Guarded(v)

FinalizeInv ==
    pc = "finalizing" /\ mem.keep =>
        \A v \in TxViews : ValidSnapshot(v) /\ (v \notin mem.views => previous[v] = Snapshot(v))

RestoreInv ==
    pc = "restoring" /\ ~mem.failed =>
        \A v \in TxViews \ mem.views :
            mem.todo \cap Of(v) = {} /\ \A t \in Of(v) : Untouched(t)

CleanupInv ==
    pc = "cleanup" => IF mem.keep THEN \A v \in TxViews : previous[v] = Snapshot(v)
                                  ELSE \A t \in Changed : Untouched(t)

LossInv == /\ InPhase /\ NotYetTouched /\ SnapshotHeld /\ AllGuarded
           /\ FinalizeInv /\ RestoreInv /\ CleanupInv
=============================================================================
