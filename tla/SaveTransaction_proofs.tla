----------------------- MODULE SaveTransaction_proofs -----------------------
(***************************************************************************)
(* Proofs about SaveTransaction, for any views, paths, contents and bounds *)
(* and for owned and unowned datasets alike.                               *)
(*                                                                         *)
(* No operation, whatever crashes, power losses, I/O errors and emulator   *)
(* writes interleave with it, loses the content a save had before it: the  *)
(* inductive invariant is LossInv of SaveTransaction.  And on an owned     *)
(* dataset what is remembered of an operation is true: HonestInv, below.   *)
(***************************************************************************)
EXTENDS SaveTransaction, TLAPS

USE AbsentAssumption, NoTreeAssumption, PublishesAssumption, BoundsAssumption

(* A snapshot is a tree.                                                   *)
LEMMA SnapshotType ==
    ASSUME TypeOK, NEW v \in View
    PROVE  Snapshot(v) \in Tree
<1>1. \A p \in Path : <<v, p>> \in Target
  BY DEF Target
<1>2. \A p \in Path : journal.current[<<v, p>>] \in Version
  BY <1>1 DEF TypeOK, Manifest
<1>3. QED
  BY <1>2 DEF Snapshot, Tree, Version

(* The views of a transaction are views, and its targets targets.          *)
LEMMA ScopeType == TxViews \subseteq View /\ Changed \subseteq Target
<1>1. Changed \subseteq Target
  BY DEF Changed
<1>2. \A t \in Target : t[1] \in View /\ t[2] \in Path
  BY DEF Target
<1>3. QED
  BY <1>1, <1>2 DEF TxViews

LEMMA IdleMemType == IdleMem \in MemType
BY DEF IdleMem, MemType, Caller

-----------------------------------------------------------------------------
(* Type correctness, one lemma per part of the next-state relation.        *)

LEMMA InitType == Init => TypeOK
BY IdleMemType DEF Init, TypeOK, Manifest, Version, Phase, Step

LEMMA StartType == TypeOK /\ Start => TypeOK'
<1> SUFFICES ASSUME TypeOK, NEW desired \in Manifest, NEW caller \in Caller,
                    NEW upload \in BOOLEAN, Begin(desired, caller, upload)
             PROVE  TypeOK'
  BY DEF Start
<1>1. \A t \in Target : t[1] \in View
  BY DEF Target
<1>2. ops' \in 0..MaxOps /\ ops' = ops + 1
  BY DEF Begin, TypeOK
<1>3. mem' \in MemType
  <2>1. {t[1] : t \in {u \in Target : live[u] # desired[u]}} \subseteq View
    BY <1>1
  <2>2. receipt \in 0..MaxOps
    BY DEF TypeOK
  <2>3. QED
    BY <2>1, <2>2 DEF Begin, IdleMem, MemType
<1>4. journal' \in [phase : Phase, op : 0..MaxOps, current : Manifest, desired : Manifest]
  BY <1>2 DEF Begin, TypeOK, Phase
<1>5. QED
  BY <1>2, <1>3, <1>4 DEF Begin, TypeOK, Go, Step, fileVars

LEMMA PrepareType == TypeOK /\ Prepare => TypeOK'
<1> SUFFICES ASSUME TypeOK, Prepare PROVE TypeOK'
  OBVIOUS
<1> USE ScopeType
<1>1. CASE Prepared
  BY <1>1 DEF Prepared, TypeOK, Go, Phased, Step, Phase, fileVars, ghosts, bounds
<1>2. ASSUME NEW v \in View, StageView(v) PROVE TypeOK'
  <2>1. stage' \in Manifest
    BY <1>2 DEF StageView, TypeOK, Manifest
  <2>2. mem' \in MemType
    BY <1>2 DEF StageView, TypeOK, MemType
  <2>3. QED
    BY <1>2, <2>1, <2>2, SnapshotType DEF StageView, TypeOK, ghosts, bounds
<1>3. ASSUME NEW v \in View, StageRefused(v) PROVE TypeOK'
  BY <1>3 DEF StageRefused, TypeOK, MemType, Go, Step, fileVars, ghosts, bounds
<1>4. QED
  BY <1>1, <1>2, <1>3 DEF Prepare

LEMMA ApplyType == TypeOK /\ Apply => TypeOK'
<1> SUFFICES ASSUME TypeOK, Apply PROVE TypeOK'
  OBVIOUS
<1> USE ScopeType
<1>1. CASE StartApply
  BY <1>1 DEF StartApply, TypeOK, Go, Phased, Step, Phase, fileVars, ghosts, bounds
<1>2. CASE VerifyCurrent
  BY <1>2 DEF VerifyCurrent, TypeOK, MemType, Go, Step, fileVars, ghosts, bounds
<1>3. CASE VerifyDesired
  BY <1>3 DEF VerifyDesired, TypeOK, Go, Step, fileVars, ghosts, bounds
<1>4. CASE SyncLive
  <2>1. synced' \in Manifest
    BY <1>4 DEF SyncLive, TypeOK, Manifest
  <2>2. QED
    BY <1>4, <2>1 DEF SyncLive, TypeOK, Go, Step, ghosts, bounds
<1>5. CASE Promoted
  BY <1>5 DEF Promoted, TypeOK, Go, Phased, Step, Phase, fileVars, ghosts, bounds
<1>6. ASSUME NEW t \in Target, CheckTarget(t) PROVE TypeOK'
  <2>0. mem \in MemType
    BY DEF TypeOK
  <2>1. mem' \in MemType
    <3>1. CASE Original(t)
      <4>1. mem' = [mem EXCEPT !.todo = mem.todo \ {t}, !.at = {t}]
        BY <1>6, <3>1 DEF CheckTarget
      <4>2. mem.todo \ {t} \in SUBSET Target /\ {t} \in SUBSET Target
        BY <2>0 DEF MemType
      <4>3. QED
        BY <2>0, <4>1, <4>2 DEF MemType
    <3>2. CASE ~Original(t)
      BY <1>6, <2>0, <3>2 DEF CheckTarget
    <3>3. QED
      BY <3>1, <3>2
  <2>2. raced' \subseteq Target /\ pc' \in Step
    BY <1>6 DEF CheckTarget, TypeOK, Go, Step
  <2>3. QED
    BY <1>6, <2>1, <2>2 DEF CheckTarget, TypeOK, fileVars, bounds
<1>7. ASSUME NEW t \in Target, ReplaceTarget(t) PROVE TypeOK'
  BY <1>7 DEF ReplaceTarget, TypeOK, MemType, Manifest, Version, Go, Step, ghosts, bounds
<1>8. QED
  BY <1>1, <1>2, <1>3, <1>4, <1>5, <1>6, <1>7 DEF Apply

LEMMA CompleteType == TypeOK /\ Complete => TypeOK'
<1> SUFFICES ASSUME TypeOK, Complete PROVE TypeOK'
  OBVIOUS
<1> USE ScopeType, IdleMemType DEF TypeOK, Go, Step, fileVars, ghosts, bounds
<1>0. CASE StagingChanged
  BY <1>0 DEF StagingChanged
<1>1. CASE Publish
  BY <1>1 DEF Publish
<1>2. CASE WriteReceipt
  BY <1>2 DEF WriteReceipt
<1>3. CASE AppendJournal
  BY <1>3 DEF AppendJournal, MemType
<1>4. CASE RestoreState
  BY <1>4 DEF RestoreState, MemType
<1>5. QED
  BY <1>0, <1>1, <1>2, <1>3, <1>4 DEF Complete

LEMMA FinalizeType == TypeOK /\ Finalize => TypeOK'
<1> SUFFICES ASSUME TypeOK, Finalize PROVE TypeOK'
  OBVIOUS
<1> USE ScopeType, IdleMemType DEF Go, Step, fileVars, ghosts, bounds
<1>1. CASE ValidateFinalize
  <2>0. mem \in MemType
    BY DEF TypeOK
  <2>1. mem' \in MemType /\ pc' \in Step
    <3>1. CASE \A v \in TxViews : ValidSnapshot(v)
      <4>1. mem' = [mem EXCEPT !.keep = TRUE] /\ pc' = pc
        BY <1>1, <3>1 DEF ValidateFinalize
      <4>2. QED
        BY <2>0, <4>1 DEF MemType, TypeOK
    <3>2. CASE ~\A v \in TxViews : ValidSnapshot(v)
      BY <1>1, <3>2 DEF ValidateFinalize
    <3>3. QED
      BY <3>1, <3>2
  <2>2. QED
    BY <1>1, <2>1 DEF ValidateFinalize, TypeOK
<1>2. CASE FinalizeInstalled
  BY <1>2 DEF FinalizeInstalled, TypeOK, MemType
<1>3. ASSUME NEW v \in View, RemovePrevious(v) PROVE TypeOK'
  BY <1>3 DEF RemovePrevious, TypeOK, procVars
<1>4. ASSUME NEW v \in View, InstallPrevious(v) PROVE TypeOK'
  <2>1. mem' \in MemType
    BY <1>4 DEF InstallPrevious, TypeOK, MemType
  <2>2. previous' \in [View -> Tree \cup {NoTree}] /\ candidate' \in [View -> Tree \cup {NoTree}]
    BY <1>4 DEF InstallPrevious, TypeOK
  <2>3. QED
    BY <1>4, <2>1, <2>2 DEF InstallPrevious, TypeOK
<1>5. QED
  BY <1>1, <1>2, <1>3, <1>4 DEF Finalize

LEMMA RollbackType == TypeOK /\ Rollback => TypeOK'
<1> SUFFICES ASSUME TypeOK, Rollback PROVE TypeOK'
  OBVIOUS
<1> USE ScopeType, IdleMemType DEF Go, Step, fileVars, ghosts, bounds
<1>1. CASE PlanRollback
  <2>0. mem \in MemType
    BY DEF TypeOK
  <2>1. mem' \in MemType
    <3>1. CASE ~mem.touched
      BY <1>1, <2>0, <3>1 DEF PlanRollback, MemType
    <3>2. CASE mem.touched /\ \A t \in Changed : Restorable(t)
      <4>1. {t \in Changed : ~Original(t)} \in SUBSET Target
        OBVIOUS
      <4>2. mem' = [mem EXCEPT !.todo = {t \in Changed : ~Original(t)},
                               !.at = {}, !.views = TxViews]
        BY <1>1, <3>2 DEF PlanRollback
      <4>3. QED
        BY <2>0, <4>1, <4>2 DEF MemType
    <3>3. CASE mem.touched /\ ~\A t \in Changed : Restorable(t)
      BY <1>1, <3>3 DEF PlanRollback
    <3>4. QED
      BY <3>1, <3>2, <3>3
  <2>2. raced' \subseteq Target /\ pc' \in Step
    BY <1>1 DEF PlanRollback, TypeOK
  <2>3. QED
    BY <1>1, <2>1, <2>2 DEF PlanRollback, TypeOK
<1>2. CASE Restored
  <2>1. mem' \in MemType /\ pc' \in Step
    BY <1>2 DEF Restored, TypeOK, MemType
  <2>2. QED
    BY <1>2, <2>1 DEF Restored, TypeOK
<1>3. ASSUME NEW t \in Target, RestoreTarget(t) PROVE TypeOK'
  BY <1>3 DEF RestoreTarget, TypeOK, MemType, Manifest, Version
<1>4. ASSUME NEW v \in View, VerifyRestored(v) PROVE TypeOK'
  <2>0. mem \in MemType
    BY DEF TypeOK
  <2>1. mem' \in MemType
    <3>1. CASE \A t \in Of(v) : Original(t)
      BY <1>4, <2>0, <3>1 DEF VerifyRestored, MemType
    <3>2. CASE ~\A t \in Of(v) : Original(t)
      BY <1>4, <2>0, <3>2 DEF VerifyRestored, MemType
    <3>3. QED
      BY <3>1, <3>2
  <2>2. synced' \in Manifest
    BY <1>4 DEF VerifyRestored, TypeOK, Manifest
  <2>3. QED
    BY <1>4, <2>1, <2>2 DEF VerifyRestored, TypeOK
<1>5. QED
  BY <1>1, <1>2, <1>3, <1>4 DEF Rollback

LEMMA CleanupType == TypeOK /\ (Cleanup \/ Recover) => TypeOK'
<1> SUFFICES ASSUME TypeOK, Cleanup \/ Recover PROVE TypeOK'
  OBVIOUS
<1> USE ScopeType, IdleMemType DEF Go, Step, fileVars, ghosts, bounds
<1>1. CASE UnlinkJournal
  <2>1. mem' \in MemType /\ pc' \in Step
    BY <1>1 DEF UnlinkJournal, TypeOK
  <2>2. outcome' \in [1..MaxOps -> {"none", "kept", "rolledBack"}]
    BY <1>1 DEF UnlinkJournal, TypeOK
  <2>3. journal' \in [phase : Phase, op : 0..MaxOps, current : Manifest, desired : Manifest]
    BY <1>1 DEF UnlinkJournal, TypeOK, Phased, Phase
  <2>4. QED
    BY <1>1, <2>1, <2>2, <2>3 DEF UnlinkJournal, TypeOK
<1>2. ASSUME NEW v \in View, CleanView(v) PROVE TypeOK'
  <2>1. stage' \in Manifest
    BY <1>2 DEF CleanView, TypeOK, Manifest, Version
  <2>2. QED
    BY <1>2, <2>1 DEF CleanView, TypeOK, MemType
<1>3. CASE Recover
  <2>1. mem' \in MemType /\ pc' \in Step
    <3>1. CASE Completed
      <4>1. mem' = [IdleMem EXCEPT !.views = TxViews]
        BY <1>3, <3>1 DEF Recover
      <4>2. QED
        BY <1>3, <3>1, <4>1, ScopeType DEF Recover, IdleMem, MemType, Caller
    <3>2. CASE ~Completed
      <4> DEFINE touched == Interrupted
      <4>1. touched \in BOOLEAN
        BY DEF Interrupted
      <4>2. mem' = [IdleMem EXCEPT !.touched = touched, !.caller = "command"] /\ pc' = "rollback"
        BY <1>3, <3>2 DEF Recover
      <4> HIDE DEF touched
      <4>3. QED
        BY <4>1, <4>2 DEF IdleMem, MemType, Caller
    <3>3. QED
      BY <3>1, <3>2
  <2>2. QED
    BY <1>3, <2>1 DEF Recover, TypeOK
<1>4. QED
  BY <1>1, <1>2, <1>3 DEF Cleanup

LEMMA FailureType == TypeOK /\ (CallerAborts \/ ReceiptFails \/ AppendFails) => TypeOK'
<1> SUFFICES ASSUME TypeOK, CallerAborts \/ ReceiptFails \/ AppendFails PROVE TypeOK'
  OBVIOUS
<1> USE IdleMemType DEF Go, Step, fileVars, ghosts, bounds
<1>1. CASE CallerAborts
  BY <1>1 DEF CallerAborts, TypeOK
<1>2. CASE ReceiptFails
  <2>1. mem' \in MemType /\ pc' \in Step
    BY <1>2 DEF ReceiptFails, TypeOK
  <2>2. QED
    BY <1>2, <2>1 DEF ReceiptFails, TypeOK
<1>3. CASE AppendFails
  BY <1>3 DEF AppendFails, TypeOK
<1>4. QED
  BY <1>1, <1>2, <1>3

LEMMA EnvironmentType == TypeOK /\ Environment => TypeOK'
<1> SUFFICES ASSUME TypeOK, Environment PROVE TypeOK'
  OBVIOUS
<1> USE ScopeType, IdleMemType DEF Go, Step, fileVars, procVars, ghosts, bounds
<1>1. ASSUME NEW t \in Target, NEW c \in Version, NEW durable \in BOOLEAN,
             EmulatorWrite(t, c, durable)
      PROVE  TypeOK'
  <2>1. live' \in Manifest /\ synced' \in Manifest
    BY <1>1 DEF EmulatorWrite, TypeOK, Manifest
  <2>2. written' \subseteq Target /\ raced' \subseteq Target
    BY <1>1 DEF EmulatorWrite, TypeOK
  <2>3. QED
    BY <1>1, <2>1, <2>2 DEF EmulatorWrite, TypeOK
<1>2. CASE Crash
  BY <1>2 DEF Crash, TypeOK
<1>3. ASSUME NEW lost \in SUBSET Target, PowerLoss(lost) PROVE TypeOK'
  <2>1. live' \in Manifest
    BY <1>3 DEF PowerLoss, TypeOK, Manifest
  <2>2. QED
    BY <1>3, <2>1 DEF PowerLoss, TypeOK
<1>4. CASE IOError
  <2>1. mem' \in MemType /\ pc' \in Step
    BY <1>4 DEF IOError, TypeOK, MemType
  <2>2. QED
    BY <1>4, <2>1 DEF IOError, TypeOK
<1>5. QED
  BY <1>1, <1>2, <1>3, <1>4 DEF Environment

\* Every variable keeps its type: in particular no tree, journal or receipt of a
\* transaction is ever anything save_transaction.py could not have written.
THEOREM TypeCorrect == Spec => []TypeOK
<1>1. TypeOK /\ [Next]_vars => TypeOK'
  <2> SUFFICES ASSUME TypeOK, [Next]_vars PROVE TypeOK'
    OBVIOUS
  <2>1. CASE UNCHANGED vars
    BY <2>1 DEF vars, fileVars, procVars, ghosts, bounds, TypeOK
  <2>2. QED
    BY <2>1, StartType, PrepareType, ApplyType, CompleteType, FinalizeType,
       RollbackType, CleanupType, FailureType, EnvironmentType DEF Next, Working
<1>2. QED
  BY <1>1, InitType, PTL DEF Spec

-----------------------------------------------------------------------------
(* What an operation destroys: only contents it knows.                     *)

LEMMA WindowInductive == TypeOK /\ WindowInv /\ [Next]_vars => WindowInv'
<1> SUFFICES ASSUME TypeOK, WindowInv, [Next]_vars PROVE WindowInv'
  OBVIOUS
<1> USE DEF WindowInv, Original, Desired, Go
<1>1. CASE UNCHANGED vars
  BY <1>1 DEF vars, fileVars, procVars, ghosts
<1>2. ASSUME pc' \notin {"replacing", "restoring"} PROVE WindowInv'
  BY <1>2
<1>3. ASSUME NEW t \in Target, CheckTarget(t) PROVE WindowInv'
  <2>1. CASE Original(t)
    <3>1. mem'.at = {t} /\ pc' = "replacing"
      BY <1>3, <2>1 DEF CheckTarget, TypeOK, MemType
    <3>2. live' = live /\ journal' = journal
      BY <1>3 DEF CheckTarget, fileVars
    <3>3. QED
      BY <2>1, <3>1, <3>2
  <2>2. CASE ~Original(t)
    BY <1>2, <1>3, <2>2 DEF CheckTarget
  <2>3. QED
    BY <2>1, <2>2
<1>4. CASE PlanRollback
  <2>1. CASE mem.touched /\ \A t \in Changed : Restorable(t)
    <3>1. mem'.todo = {t \in Changed : ~Original(t)} /\ pc' = "restoring"
      BY <1>4, <2>1 DEF PlanRollback, TypeOK, MemType
    <3>2. live' = live /\ journal' = journal
      BY <1>4 DEF PlanRollback, fileVars
    <3>3. QED
      BY <2>1, <3>1, <3>2 DEF Restorable
  <2>2. CASE ~(mem.touched /\ \A t \in Changed : Restorable(t))
    BY <1>2, <1>4, <2>2 DEF PlanRollback
  <2>3. QED
    BY <2>1, <2>2
<1>5. ASSUME NEW t \in Target, RestoreTarget(t) PROVE WindowInv'
  <2>1. mem'.todo = mem.todo \ {t} /\ pc = "restoring" /\ pc' = pc
    BY <1>5 DEF RestoreTarget, TypeOK, MemType
  <2>2. \A u \in Target : u # t => live'[u] = live[u]
    BY <1>5 DEF RestoreTarget, TypeOK, Manifest
  <2>3. mem.todo \subseteq Target
    BY DEF TypeOK, MemType
  <2>4. QED
    BY <1>5, <2>1, <2>2, <2>3 DEF RestoreTarget, ghosts
<1>6. ASSUME NEW v \in View, VerifyRestored(v) PROVE WindowInv'
  <2>1. mem'.todo = mem.todo /\ pc = "restoring" /\ pc' = pc
    <3>1. mem \in MemType
      BY DEF TypeOK
    <3>2. \/ mem' = [mem EXCEPT !.views = mem.views \ {v}]
          \/ mem' = [mem EXCEPT !.views = mem.views \ {v}, !.failed = TRUE]
      BY <1>6 DEF VerifyRestored
    <3>3. QED
      BY <1>6, <3>1, <3>2 DEF VerifyRestored, MemType
  <2>2. QED
    BY <1>6, <2>1 DEF VerifyRestored, ghosts
<1>7. ASSUME NEW t \in Target, NEW c \in Version, NEW durable \in BOOLEAN,
             EmulatorWrite(t, c, durable)
      PROVE  WindowInv'
  <2>1. \A u \in Target : u # t => live'[u] = live[u]
    BY <1>7 DEF EmulatorWrite, TypeOK, Manifest
  <2>2. mem' = mem /\ pc' = pc /\ journal' = journal /\ raced \subseteq raced'
    BY <1>7 DEF EmulatorWrite, procVars
  <2>3. mem.at \subseteq Target /\ mem.todo \subseteq Target
    BY DEF TypeOK, MemType
  <2>4. /\ t \in mem.at => t \in raced'
        /\ pc = "restoring" /\ t \in mem.todo => t \in raced'
    <3>1. raced' = IF t \in mem.at \/ (pc = "restoring" /\ t \in mem.todo)
                   THEN raced \cup {t} ELSE raced
      BY <1>7 DEF EmulatorWrite
    <3>2. QED
      BY <3>1
  <2>5. ASSUME pc = "replacing", NEW u \in mem.at PROVE Original(u)' \/ u \in raced'
    <3>1. CASE u = t
      <4>1. u \in raced'
        BY <2>4, <2>5, <3>1
      <4>2. QED
        BY <4>1
    <3>2. CASE u # t
      <4>1. live'[u] = live[u] /\ journal'.current[u] = journal.current[u]
        BY <2>1, <2>2, <2>3, <2>5, <3>2
      <4>2. live[u] = journal.current[u] \/ u \in raced
        BY <2>5
      <4>3. QED
        BY <2>2, <4>1, <4>2
    <3>3. QED
      BY <3>1, <3>2
  <2>6. ASSUME pc = "restoring", NEW u \in mem.todo PROVE Desired(u)' \/ u \in raced'
    BY <2>1, <2>2, <2>3, <2>4, <2>6
  <2>7. QED
    BY <2>2, <2>5, <2>6
<1>8. CASE \/ Start \/ Prepare \/ Complete \/ Finalize \/ Cleanup \/ Recover
           \/ CallerAborts \/ ReceiptFails \/ AppendFails
           \/ Crash \/ IOError \/ \E lost \in SUBSET Target : PowerLoss(lost)
  <2>1. pc' \notin {"replacing", "restoring"}
    BY <1>8 DEF Start, Begin, Prepare, Prepared, StageView, StageRefused,
      Complete, StagingChanged, Publish, WriteReceipt, AppendJournal, RestoreState,
      Finalize, ValidateFinalize, FinalizeInstalled, RemovePrevious, InstallPrevious,
      Cleanup, UnlinkJournal, CleanView, Recover, CallerAborts, ReceiptFails,
      AppendFails, Crash, IOError, PowerLoss, procVars
  <2>2. QED
    BY <1>2, <2>1
<1>9. CASE StartApply \/ VerifyCurrent \/ VerifyDesired \/ SyncLive \/ Promoted \/ Restored
  BY <1>2, <1>9 DEF StartApply, VerifyCurrent, VerifyDesired, SyncLive, Promoted, Restored
<1>10. ASSUME NEW t \in Target, ReplaceTarget(t) PROVE WindowInv'
  BY <1>2, <1>10 DEF ReplaceTarget
<1>11. QED
  BY <1>1, <1>3, <1>4, <1>5, <1>6, <1>7, <1>8, <1>9, <1>10
     DEF Next, Working, Apply, Rollback, Environment

LEMMA WindowStep ==
    ASSUME TypeOK, WindowInv, [Next]_vars, writes' = writes, faults' = faults,
           NEW u \in Target, live'[u] # live[u]
    PROVE  live[u] \in {journal.current[u], journal.desired[u]} \/ u \in raced
<1>1. ASSUME NEW t \in Target, ReplaceTarget(t) PROVE t = u
  BY <1>1 DEF ReplaceTarget, TypeOK, Manifest
<1>2. ASSUME NEW t \in Target, RestoreTarget(t) PROVE t = u
  BY <1>2 DEF RestoreTarget, TypeOK, Manifest
<1>3. \/ \E t \in Target : ReplaceTarget(t) \/ RestoreTarget(t)
      \/ UNCHANGED live
  <2>1. CASE Environment
    BY <2>1 DEF Environment, EmulatorWrite, Crash, IOError, PowerLoss, TypeOK
  <2>2. CASE Start \/ Prepare \/ Complete \/ Finalize \/ Cleanup \/ Recover
             \/ CallerAborts \/ ReceiptFails \/ AppendFails
    BY <2>2 DEF Start, Begin, Prepare, Prepared, StageView, StageRefused,
      Complete, StagingChanged, Publish, WriteReceipt, AppendJournal, RestoreState,
      Finalize, ValidateFinalize, FinalizeInstalled, RemovePrevious, InstallPrevious,
      Cleanup, UnlinkJournal, CleanView, Recover, CallerAborts, ReceiptFails,
      AppendFails, fileVars
  <2>3. CASE Apply
    BY <2>3 DEF Apply, StartApply, VerifyCurrent, VerifyDesired, SyncLive, Promoted,
      CheckTarget, fileVars
  <2>4. CASE Rollback
    BY <2>4 DEF Rollback, PlanRollback, Restored, VerifyRestored, fileVars
  <2>5. CASE UNCHANGED vars
    BY <2>5 DEF vars, fileVars
  <2>6. QED
    BY <2>1, <2>2, <2>3, <2>4, <2>5 DEF Next, Working
<1>4. CASE ReplaceTarget(u)
  BY <1>4 DEF ReplaceTarget, WindowInv, Original
<1>5. CASE RestoreTarget(u)
  BY <1>5 DEF RestoreTarget, WindowInv, Desired
<1>6. QED
  BY <1>1, <1>2, <1>3, <1>4, <1>5

\* Whatever the interleaving with emulators and crashes, promotion and rollback
\* destroy a third version of a save only inside that file's own check window.
THEOREM ThirdVersionSafe == Spec => ThirdVersionKept
<1>1. Init => WindowInv
  BY DEF Init, WindowInv
<1>2. TypeOK /\ WindowInv /\ [Next]_vars =>
        [writes' = writes /\ faults' = faults =>
            \A t \in Target : live'[t] # live[t] =>
                live[t] \in {journal.current[t], journal.desired[t]} \/ t \in raced]_vars
  BY WindowStep
<1>3. QED
  BY <1>1, <1>2, WindowInductive, TypeCorrect, PTL DEF Spec, ThirdVersionKept

-----------------------------------------------------------------------------
(* The old content of a save is never lost.                                *)

(* Changed targets and their views name each other.                        *)
LEMMA Scope ==
    /\ \A v : Of(v) \subseteq Changed
    /\ \A t \in Changed : t \in Target /\ t \in Of(t[1]) /\ t[1] \in TxViews
BY DEF Of, Changed, TxViews

(* A snapshot holds the original content of every changed target.          *)
LEMMA SnapshotAt ==
    ASSUME TypeOK, NEW t \in Changed
    PROVE  /\ Snapshot(t[1]) # NoTree
           /\ Snapshot(t[1])[t[2]] = journal.current[t]
<1>1. t[1] \in View /\ t[2] \in Path /\ <<t[1], t[2]>> = t
  BY DEF Changed, Target
<1>2. Snapshot(t[1]) \in Tree
  BY <1>1, SnapshotType
<1>3. Snapshot(t[1])[t[2]] = journal.current[t]
  BY <1>1 DEF Snapshot
<1>4. NoTree \notin Tree
  BY NoTreeAssumption DEF Tree, Version
<1>5. QED
  BY <1>2, <1>3, <1>4

LEMMA GuardedMeansKept == TypeOK /\ AllGuarded => SaveNeverLost
<1> SUFFICES ASSUME TypeOK, NEW t \in Changed, Guarded(t[1])
             PROVE  \/ Original(t)
                    \/ KeptIn(candidate[t[1]], t)
                    \/ KeptIn(previous[t[1]], t)
                    \/ t \in written
  BY Scope DEF AllGuarded, SaveNeverLost
<1>1. CASE candidate[t[1]] = Snapshot(t[1])
  BY <1>1, SnapshotAt DEF KeptIn
<1>2. CASE previous[t[1]] = Snapshot(t[1])
  BY <1>2, SnapshotAt DEF KeptIn
<1>3. CASE \A u \in Of(t[1]) : Untouched(u)
  BY <1>3, Scope DEF Untouched, Original
<1>4. QED
  BY <1>1, <1>2, <1>3 DEF Guarded

-----------------------------------------------------------------------------
(* What a step of a running transaction leaves alone.                      *)

SameScope == /\ journal'.current = journal.current
             /\ journal'.desired = journal.desired
             /\ journal'.op = journal.op

LEMMA StableScope ==
    ASSUME SameScope
    PROVE  /\ Changed' = Changed /\ TxViews' = TxViews
           /\ \A v : Of(v)' = Of(v)
           /\ \A v : Snapshot(v)' = Snapshot(v)
<1>1. Changed' = Changed
  BY DEF SameScope, Changed
<1>2. QED
  BY <1>1 DEF SameScope, TxViews, Of, Snapshot

(* A step that keeps untouched targets untouched and moves no snapshot     *)
(* leaves every guarded view guarded.                                      *)
StillUntouched == \A t \in Changed : Untouched(t) => Untouched(t)'

LEMMA StillGuarded ==
    ASSUME SameScope, StillUntouched, NEW v,
           candidate'[v] = candidate[v], previous'[v] = previous[v], Guarded(v)
    PROVE  Guarded(v)'
<1>1. Of(v)' = Of(v) /\ Snapshot(v)' = Snapshot(v)
  BY StableScope
<1>2. CASE candidate[v] = Snapshot(v)
  BY <1>1, <1>2 DEF Guarded
<1>3. CASE previous[v] = Snapshot(v)
  BY <1>1, <1>3 DEF Guarded
<1>4. CASE \A t \in Of(v) : Untouched(t)
  BY <1>1, <1>4, Scope DEF Guarded, StillUntouched
<1>5. QED
  BY <1>2, <1>3, <1>4 DEF Guarded

(* A step that moves no file at all.                                       *)
Quiet == SameScope /\ UNCHANGED <<fileVars, written>>

LEMMA QuietStep ==
    ASSUME Quiet
    PROVE  /\ Changed' = Changed /\ TxViews' = TxViews
           /\ \A v : Of(v)' = Of(v)
           /\ \A v : Snapshot(v)' = Snapshot(v)
           /\ StillUntouched
           /\ \A v : Guarded(v) => Guarded(v)'
           /\ \A v : ValidSnapshot(v) => ValidSnapshot(v)'
           /\ live' = live /\ synced' = synced
           /\ candidate' = candidate /\ previous' = previous
<1>1. StillUntouched
  BY DEF Quiet, SameScope, StillUntouched, Untouched, fileVars
<1>2. QED
  BY <1>1, StableScope, StillGuarded DEF Quiet, fileVars, ValidSnapshot

-----------------------------------------------------------------------------
(* Preservation of LossInv, one lemma per part of the next-state relation. *)

LEMMA InitLoss == Init => LossInv
BY DEF Init, LossInv, InPhase, NotYetTouched, SnapshotHeld, AllGuarded, FinalizeInv,
       RestoreInv, CleanupInv, Applying, Holding, IdleMem

LEMMA StartLoss == TypeOK /\ LossInv /\ Start => LossInv'
<1> SUFFICES ASSUME TypeOK, LossInv, NEW desired \in Manifest, NEW caller \in Caller,
                    NEW upload \in BOOLEAN, Begin(desired, caller, upload)
             PROVE  LossInv'
  BY DEF Start
<1>1. /\ journal' = [phase |-> "preparing", op |-> ops', current |-> live, desired |-> desired]
      /\ pc' = "staging" /\ mem'.keep = FALSE
      /\ mem'.views = {t[1] : t \in {u \in Target : live[u] # desired[u]}}
      /\ live' = live /\ synced' = synced
      /\ written' = {t \in Target : live[t] # synced[t]}
  BY DEF Begin, IdleMem, Go, fileVars
<1>2. Changed' = {u \in Target : live[u] # desired[u]}
  BY <1>1 DEF Changed
<1>3. TxViews' = mem'.views
  BY <1>1, <1>2 DEF TxViews
<1>4. \A t \in Changed' : Untouched(t)'
  BY <1>1, <1>2 DEF Untouched
<1>5. QED
  BY <1>1, <1>3, <1>4 DEF LossInv, InPhase, NotYetTouched, SnapshotHeld, AllGuarded,
     FinalizeInv, RestoreInv, CleanupInv, Applying, Holding

LEMMA PrepareLoss == TypeOK /\ LossInv /\ Prepare => LossInv'
<1> SUFFICES ASSUME TypeOK, LossInv, Prepare PROVE LossInv'
  OBVIOUS
<1> USE DEF Go, Phased, LossInv, InPhase, NotYetTouched, SnapshotHeld, AllGuarded,
            FinalizeInv, RestoreInv, CleanupInv, Applying, Holding
<1>1. CASE Prepared
  <2>1. Quiet /\ journal'.phase = "prepared"
    BY <1>1 DEF Prepared, Quiet, SameScope, ghosts, TypeOK
  <2>2. QED
    BY <1>1, <2>1, QuietStep DEF Prepared, StillUntouched
<1>2. ASSUME NEW v \in View, StageRefused(v) PROVE LossInv'
  <2>1. Quiet /\ journal' = journal /\ mem'.keep = mem.keep
    BY <1>2 DEF StageRefused, Quiet, SameScope, ghosts, TypeOK, MemType
  <2>2. QED
    BY <1>2, <2>1, QuietStep DEF StageRefused, StillUntouched
<1>3. ASSUME NEW v \in View, StageView(v) PROVE LossInv'
  <2>1. SameScope /\ journal' = journal /\ pc' = pc /\ pc = "staging"
    BY <1>3 DEF StageView, SameScope
  <2>2. mem'.keep = mem.keep /\ mem'.views = mem.views \ {v}
    BY <1>3 DEF StageView, TypeOK, MemType
  <2>3. StillUntouched
    BY <1>3, <2>1 DEF StageView, StillUntouched, Untouched, ghosts
  <2>4. candidate'[v] = Snapshot(v) /\ \A w \in View \ {v} : candidate'[w] = candidate[w]
    BY <1>3 DEF StageView, TypeOK
  <2>5. QED
    BY <2>1, <2>2, <2>3, <2>4, StableScope, ScopeType DEF StillUntouched
<1>4. QED
  BY <1>1, <1>2, <1>3 DEF Prepare

LEMMA ApplyLoss == TypeOK /\ LossInv /\ Apply => LossInv'
<1> SUFFICES ASSUME TypeOK, LossInv, Apply PROVE LossInv'
  OBVIOUS
<1> USE DEF Go, Phased, LossInv, InPhase, NotYetTouched, SnapshotHeld, AllGuarded,
            FinalizeInv, RestoreInv, CleanupInv, Applying, Holding
<1>1. CASE StartApply
  <2>1. Quiet /\ journal'.phase = "applying"
    BY <1>1 DEF StartApply, Quiet, SameScope, ghosts, TypeOK
  <2>2. \A v \in TxViews : Guarded(v)
    BY <1>1 DEF StartApply, Guarded
  <2>3. QED
    BY <1>1, <2>1, <2>2, QuietStep DEF StartApply, StillUntouched
<1>2. CASE VerifyCurrent
  <2>1. Quiet /\ journal' = journal /\ mem'.keep = mem.keep /\ mem'.touched = mem.touched
    BY <1>2 DEF VerifyCurrent, Quiet, SameScope, ghosts, TypeOK, MemType
  <2>2. QED
    BY <1>2, <2>1, QuietStep DEF VerifyCurrent, StillUntouched
<1>3. CASE VerifyDesired
  <2>1. Quiet /\ journal' = journal /\ mem' = mem /\ pc = "promoting"
        /\ pc' \in {"syncing", "rollback"}
    BY <1>3 DEF VerifyDesired, Quiet, SameScope, ghosts
  <2>2. QED
    BY <2>1, QuietStep DEF StillUntouched
<1>4. CASE SyncLive
  <2>1. /\ SameScope /\ journal' = journal /\ mem' = mem /\ written' = written
        /\ candidate' = candidate /\ previous' = previous /\ live' = live
    BY <1>4 DEF SyncLive, SameScope, ghosts
  <2>2. StillUntouched
    BY <1>4, Scope DEF SyncLive, StillUntouched, Untouched, ghosts
  <2>3. QED
    BY <1>4, <2>1, <2>2, StableScope, StillGuarded DEF SyncLive, StillUntouched
<1>5. CASE Promoted
  <2>1. Quiet /\ journal'.phase = "promoted"
    BY <1>5 DEF Promoted, Quiet, SameScope, ghosts, TypeOK
  <2>2. QED
    BY <1>5, <2>1, QuietStep DEF Promoted, StillUntouched
<1>6. ASSUME NEW t \in Target, CheckTarget(t) PROVE LossInv'
  <2>1. Quiet /\ journal' = journal
    BY <1>6 DEF CheckTarget, Quiet, SameScope
  <2>2. mem'.keep = mem.keep /\ mem'.touched = mem.touched
    <3>1. mem \in MemType
      BY DEF TypeOK
    <3>2. mem' = mem \/ mem' = [mem EXCEPT !.todo = mem.todo \ {t}, !.at = {t}]
      BY <1>6 DEF CheckTarget
    <3>3. QED
      BY <3>1, <3>2 DEF MemType
  <2>3. pc = "promoting" /\ pc' \in {"replacing", "rollback"}
    BY <1>6 DEF CheckTarget
  <2>4. QED
    BY <2>1, <2>2, <2>3, QuietStep DEF StillUntouched
<1>7. ASSUME NEW t \in Target, ReplaceTarget(t) PROVE LossInv'
  <2>1. /\ SameScope /\ journal' = journal /\ candidate' = candidate
        /\ mem'.keep = mem.keep /\ mem'.touched = TRUE
        /\ pc = "replacing" /\ pc' = "promoting"
    BY <1>7 DEF ReplaceTarget, SameScope, TypeOK, MemType
  <2>2. \A v \in TxViews : candidate[v] = Snapshot(v) /\ Guarded(v)'
    BY <2>1, StableScope DEF Guarded
  <2>3. QED
    BY <2>1, <2>2, StableScope
<1>8. QED
  BY <1>1, <1>2, <1>3, <1>4, <1>5, <1>6, <1>7 DEF Apply

LEMMA CompleteLoss == TypeOK /\ LossInv /\ Complete => LossInv'
<1> SUFFICES ASSUME TypeOK, LossInv, Complete PROVE LossInv'
  OBVIOUS
<1> USE DEF Go, Phased, LossInv, InPhase, NotYetTouched, SnapshotHeld, AllGuarded,
            FinalizeInv, RestoreInv, CleanupInv, Applying, Holding
<1>1. Quiet /\ journal' = journal
  BY DEF Complete, StagingChanged, Publish, WriteReceipt, AppendJournal, RestoreState,
         Quiet, SameScope, ghosts
<1>2. CASE StagingChanged \/ Publish \/ WriteReceipt
  BY <1>1, <1>2, QuietStep DEF StagingChanged, Publish, WriteReceipt, StillUntouched
<1>3. CASE AppendJournal
  <2>1. mem'.keep = mem.keep
    BY <1>3 DEF AppendJournal, TypeOK, MemType
  <2>2. QED
    BY <1>1, <1>3, <2>1, QuietStep DEF AppendJournal, StillUntouched
<1>4. CASE RestoreState
  BY <1>1, <1>4, QuietStep DEF RestoreState, IdleMem, StillUntouched
<1>5. QED
  BY <1>2, <1>3, <1>4 DEF Complete

LEMMA FinalizeLoss == TypeOK /\ LossInv /\ Finalize => LossInv'
<1> SUFFICES ASSUME TypeOK, LossInv, Finalize PROVE LossInv'
  OBVIOUS
<1> USE DEF Go, Phased, LossInv, InPhase, NotYetTouched, SnapshotHeld, AllGuarded,
            FinalizeInv, RestoreInv, CleanupInv, Applying, Holding
<1>1. CASE ValidateFinalize
  <2>1. Quiet /\ journal' = journal
    BY <1>1 DEF ValidateFinalize, Quiet, SameScope, ghosts
  <2>2. CASE \A v \in TxViews : ValidSnapshot(v)
    <3>1. mem'.views = TxViews /\ pc' = pc /\ pc = "finalizing"
      BY <1>1, <2>2 DEF ValidateFinalize, TypeOK, MemType
    <3>2. QED
      BY <2>1, <2>2, <3>1, QuietStep DEF StillUntouched
  <2>3. CASE ~\A v \in TxViews : ValidSnapshot(v)
    BY <1>1, <2>1, <2>3, QuietStep DEF ValidateFinalize, IdleMem, StillUntouched
  <2>4. QED
    BY <2>2, <2>3
<1>2. CASE FinalizeInstalled
  <2>1. Quiet /\ journal' = journal /\ mem'.keep = TRUE
    BY <1>2 DEF FinalizeInstalled, Quiet, SameScope, ghosts, TypeOK, MemType
  <2>2. QED
    BY <1>2, <2>1, QuietStep DEF FinalizeInstalled, StillUntouched
<1>3. ASSUME NEW v \in View, RemovePrevious(v) PROVE LossInv'
  <2>1. /\ SameScope /\ journal' = journal /\ candidate' = candidate
        /\ mem' = mem /\ pc' = pc /\ pc = "finalizing" /\ mem.keep /\ v \in mem.views
    BY <1>3 DEF RemovePrevious, SameScope, procVars
  <2>2. StillUntouched
    BY <1>3, <2>1 DEF RemovePrevious, StillUntouched, Untouched, ghosts
  <2>3. v \in TxViews => candidate[v] = Snapshot(v)
    BY <1>3, <2>1 DEF RemovePrevious, ValidSnapshot
  <2>4. \A w \in View \ {v} : previous'[w] = previous[w]
    BY <1>3 DEF RemovePrevious, TypeOK
  <2>5. \A w \in TxViews : Guarded(w) => Guarded(w)'
    <3> SUFFICES ASSUME NEW w \in TxViews, Guarded(w) PROVE Guarded(w)'
      OBVIOUS
    <3>1. CASE w = v
      BY <2>1, <2>3, <3>1, StableScope DEF Guarded
    <3>2. CASE w # v
      BY <2>1, <2>2, <2>4, <3>2, ScopeType, StillGuarded
    <3>3. QED
      BY <3>1, <3>2
  <2>6. \A w \in TxViews : ValidSnapshot(w)' /\ (w \notin mem.views => previous'[w] = Snapshot(w))
    <3> SUFFICES ASSUME NEW w \in TxViews
                 PROVE  ValidSnapshot(w)' /\ (w \notin mem.views => previous'[w] = Snapshot(w))
      OBVIOUS
    <3>0. ValidSnapshot(w) /\ candidate[v] # NoTree
      BY <1>3, <2>1 DEF RemovePrevious
    <3>1. CASE w = v
      BY <2>1, <2>3, <3>0, <3>1, StableScope DEF ValidSnapshot
    <3>2. CASE w # v
      BY <2>1, <2>4, <3>0, <3>2, ScopeType, StableScope DEF ValidSnapshot
    <3>3. QED
      BY <3>1, <3>2
  <2>7. QED
    BY <2>1, <2>2, <2>5, <2>6, StableScope DEF StillUntouched
<1>4. ASSUME NEW v \in View, InstallPrevious(v) PROVE LossInv'
  <2>1. /\ SameScope /\ journal' = journal
        /\ pc' = pc /\ pc = "finalizing" /\ mem.keep /\ v \in mem.views
    BY <1>4 DEF InstallPrevious, SameScope
  <2>2. mem'.keep = mem.keep /\ mem'.views = mem.views \ {v} /\ mem'.touched = mem.touched
    BY <1>4 DEF InstallPrevious, TypeOK, MemType
  <2>3. StillUntouched
    BY <1>4, <2>1 DEF InstallPrevious, StillUntouched, Untouched, ghosts
  <2>4. \A w \in View \ {v} : previous'[w] = previous[w] /\ candidate'[w] = candidate[w]
    BY <1>4 DEF InstallPrevious, TypeOK
  <2>5. v \in TxViews => previous'[v] = Snapshot(v) /\ candidate'[v] = NoTree
    <3>1. v \in TxViews => ValidSnapshot(v)
      BY <2>1
    <3>2. CASE candidate[v] # NoTree
      BY <1>4, <3>1, <3>2 DEF InstallPrevious, ValidSnapshot, TypeOK
    <3>3. CASE candidate[v] = NoTree
      BY <1>4, <3>1, <3>3 DEF InstallPrevious, ValidSnapshot
    <3>4. QED
      BY <3>2, <3>3
  <2>6. \A w \in TxViews : Guarded(w) => Guarded(w)'
    <3> SUFFICES ASSUME NEW w \in TxViews, Guarded(w) PROVE Guarded(w)'
      OBVIOUS
    <3>1. CASE w = v
      BY <2>1, <2>5, <3>1, StableScope DEF Guarded
    <3>2. CASE w # v
      BY <2>1, <2>3, <2>4, <3>2, ScopeType, StillGuarded
    <3>3. QED
      BY <3>1, <3>2
  <2>7. \A w \in TxViews : ValidSnapshot(w)' /\ (w \notin mem'.views => previous'[w] = Snapshot(w))
    <3> SUFFICES ASSUME NEW w \in TxViews
                 PROVE  ValidSnapshot(w)' /\ (w \notin mem'.views => previous'[w] = Snapshot(w))
      OBVIOUS
    <3>1. CASE w = v
      BY <2>1, <2>5, <3>1, StableScope DEF ValidSnapshot
    <3>2. CASE w # v
      BY <2>1, <2>2, <2>4, <3>2, ScopeType, StableScope DEF ValidSnapshot
    <3>3. QED
      BY <3>1, <3>2
  <2>8. QED
    BY <2>1, <2>2, <2>3, <2>6, <2>7, StableScope DEF StillUntouched
<1>5. QED
  BY <1>1, <1>2, <1>3, <1>4 DEF Finalize

LEMMA RollbackLoss == TypeOK /\ LossInv /\ Rollback => LossInv'
<1> SUFFICES ASSUME TypeOK, LossInv, Rollback PROVE LossInv'
  OBVIOUS
<1> USE DEF Go, Phased, LossInv, InPhase, NotYetTouched, SnapshotHeld, AllGuarded,
            FinalizeInv, RestoreInv, CleanupInv, Applying, Holding
<1>1. CASE PlanRollback
  <2>1. Quiet /\ journal' = journal /\ pc = "rollback" /\ mem \in MemType
    BY <1>1 DEF PlanRollback, Quiet, SameScope, TypeOK
  <2>2. CASE ~mem.touched
    <3>1. pc' = "cleanup" /\ mem'.keep = mem.keep
      BY <1>1, <2>1, <2>2 DEF PlanRollback, MemType
    <3>2. QED
      BY <2>1, <2>2, <3>1, QuietStep DEF StillUntouched
  <2>3. CASE mem.touched /\ \A t \in Changed : Restorable(t)
    <3>1. pc' = "restoring" /\ mem'.keep = mem.keep /\ mem'.views = TxViews
      BY <1>1, <2>1, <2>3 DEF PlanRollback, MemType
    <3>2. QED
      BY <2>1, <3>1, QuietStep DEF StillUntouched
  <2>4. CASE mem.touched /\ ~\A t \in Changed : Restorable(t)
    <3>1. pc' = "idle" /\ mem'.keep = FALSE
      BY <1>1, <2>4 DEF PlanRollback, IdleMem
    <3>2. QED
      BY <2>1, <3>1, QuietStep DEF StillUntouched
  <2>5. QED
    BY <2>2, <2>3, <2>4
<1>2. CASE Restored
  <2>1. Quiet /\ journal' = journal /\ pc = "restoring" /\ mem \in MemType /\ mem.views = {}
    BY <1>2 DEF Restored, Quiet, SameScope, ghosts, TypeOK
  <2>2. CASE mem.failed
    BY <1>2, <2>1, <2>2, QuietStep DEF Restored, IdleMem, StillUntouched
  <2>3. CASE ~mem.failed
    <3>1. pc' = "cleanup" /\ mem'.keep = mem.keep
      BY <1>2, <2>1, <2>3 DEF Restored, MemType
    <3>2. \A t \in Changed : Untouched(t)
      BY <2>1, <2>3, Scope
    <3>3. QED
      BY <2>1, <3>1, <3>2, QuietStep DEF StillUntouched
  <2>4. QED
    BY <2>2, <2>3
<1>3. ASSUME NEW t \in Target, RestoreTarget(t) PROVE LossInv'
  <2>1. /\ SameScope /\ journal' = journal /\ pc' = pc /\ pc = "restoring"
        /\ candidate' = candidate /\ previous' = previous
    BY <1>3 DEF RestoreTarget, SameScope
  <2>2. /\ mem'.keep = mem.keep /\ mem'.failed = mem.failed /\ mem'.views = mem.views
        /\ mem'.todo = mem.todo \ {t}
    BY <1>3 DEF RestoreTarget, TypeOK, MemType
  <2>3. StillUntouched
    BY <1>3, <2>1, Scope DEF RestoreTarget, StillUntouched, Untouched, ghosts, TypeOK, Manifest
  <2>4. QED
    BY <2>1, <2>2, <2>3, StableScope, StillGuarded, Scope DEF StillUntouched
<1>4. ASSUME NEW v \in View, VerifyRestored(v) PROVE LossInv'
  <2>1. /\ SameScope /\ journal' = journal /\ pc' = pc /\ pc = "restoring"
        /\ candidate' = candidate /\ previous' = previous /\ live' = live /\ written' = written
    BY <1>4 DEF VerifyRestored, SameScope, ghosts
  <2>2. mem \in MemType
    BY DEF TypeOK
  <2>3. CASE \A t \in Of(v) : Original(t)
    <3>1. /\ mem'.keep = mem.keep /\ mem'.failed = mem.failed
          /\ mem'.views = mem.views \ {v} /\ mem'.todo = mem.todo
      BY <1>4, <2>2, <2>3 DEF VerifyRestored, MemType
    <3>2. synced' = [t \in Target |-> IF t \in Of(v) THEN live[t] ELSE synced[t]]
      BY <1>4, <2>3 DEF VerifyRestored
    <3>3. \A t \in Of(v) : Untouched(t)'
      BY <2>1, <2>3, <3>2, Scope DEF Untouched, Original
    <3>4. StillUntouched
      BY <2>1, <3>2, <3>3, Scope DEF StillUntouched, Untouched
    <3>5. mem.todo \cap Of(v) = {}
      BY <1>4 DEF VerifyRestored
    <3>6. QED
      BY <2>1, <3>1, <3>3, <3>4, <3>5, StableScope, StillGuarded, Scope DEF StillUntouched
  <2>4. CASE ~\A t \in Of(v) : Original(t)
    <3>1. mem'.keep = mem.keep /\ mem'.failed = TRUE
      BY <1>4, <2>2, <2>4 DEF VerifyRestored, MemType
    <3>2. Quiet
      BY <1>4, <2>1, <2>4 DEF VerifyRestored, Quiet, fileVars
    <3>3. QED
      BY <2>1, <3>1, <3>2, QuietStep DEF StillUntouched
  <2>5. QED
    BY <2>3, <2>4
<1>5. QED
  BY <1>1, <1>2, <1>3, <1>4 DEF Rollback

LEMMA CleanupLoss == TypeOK /\ LossInv /\ (Cleanup \/ Recover) => LossInv'
<1> SUFFICES ASSUME TypeOK, LossInv, Cleanup \/ Recover PROVE LossInv'
  OBVIOUS
<1> USE DEF Go, Phased, LossInv, InPhase, NotYetTouched, SnapshotHeld, AllGuarded,
            FinalizeInv, RestoreInv, CleanupInv, Applying, Holding
<1>1. CASE UnlinkJournal
  <2>1. Quiet /\ journal'.phase = "none"
    BY <1>1 DEF UnlinkJournal, Quiet, SameScope, TypeOK
  <2>2. pc = "cleanup" /\ pc' \in {"restoreState", "idle"} /\ mem'.keep = FALSE
    BY <1>1 DEF UnlinkJournal, IdleMem, TypeOK, MemType
  <2>3. \A v \in TxViews : Guarded(v)
    BY <2>2, Scope DEF Guarded
  <2>4. QED
    BY <2>1, <2>2, <2>3, QuietStep DEF StillUntouched
<1>2. ASSUME NEW v \in View, CleanView(v) PROVE LossInv'
  <2>1. /\ SameScope /\ journal' = journal /\ pc' = pc /\ pc = "cleanup"
        /\ previous' = previous /\ mem'.keep = mem.keep
    BY <1>2 DEF CleanView, SameScope, TypeOK, MemType
  <2>2. StillUntouched
    BY <1>2, <2>1 DEF CleanView, StillUntouched, Untouched, ghosts
  <2>3. \A w \in TxViews : Guarded(w)'
    BY <2>1, <2>2, StableScope, Scope DEF Guarded, StillUntouched
  <2>4. QED
    BY <2>1, <2>2, <2>3, StableScope DEF StillUntouched
<1>3. CASE Recover
  <2>1. Quiet /\ journal' = journal /\ mem'.keep = FALSE
    BY <1>3 DEF Recover, Quiet, SameScope, ghosts, IdleMem
  <2>2. CASE Completed
    BY <1>3, <2>1, <2>2, QuietStep DEF Recover, StillUntouched
  <2>3. CASE ~Completed
    <3> DEFINE touched == Interrupted
    <3>1. pc' = "rollback" /\ mem' = [IdleMem EXCEPT !.touched = touched, !.caller = "command"]
      BY <1>3, <2>3 DEF Recover
    <3>2. mem'.touched = touched
      BY <3>1 DEF IdleMem
    <3>3. QED
      BY <1>3, <2>1, <3>1, <3>2, QuietStep DEF Recover, Interrupted, StillUntouched, TypeOK, Phase
  <2>4. QED
    BY <2>2, <2>3
<1>4. QED
  BY <1>1, <1>2, <1>3 DEF Cleanup

LEMMA FailureLoss == TypeOK /\ LossInv /\ (CallerAborts \/ ReceiptFails \/ AppendFails) => LossInv'
<1> SUFFICES ASSUME TypeOK, LossInv, CallerAborts \/ ReceiptFails \/ AppendFails
             PROVE  LossInv'
  OBVIOUS
<1> USE DEF Go, Phased, LossInv, InPhase, NotYetTouched, SnapshotHeld, AllGuarded,
            FinalizeInv, RestoreInv, CleanupInv, Applying, Holding
<1>1. Quiet /\ journal' = journal
  BY DEF CallerAborts, ReceiptFails, AppendFails, Quiet, SameScope, ghosts
<1>2. \/ mem' = mem /\ pc' = "rollback" /\ pc \in Holding
      \/ mem' = IdleMem /\ pc' = "idle"
  BY DEF CallerAborts, ReceiptFails, AppendFails
<1>3. QED
  BY <1>1, <1>2, QuietStep DEF IdleMem, StillUntouched

LEMMA EnvironmentLoss == TypeOK /\ LossInv /\ Environment => LossInv'
<1> SUFFICES ASSUME TypeOK, LossInv, Environment PROVE LossInv'
  OBVIOUS
<1> USE DEF Go, Phased, LossInv, InPhase, NotYetTouched, SnapshotHeld, AllGuarded,
            FinalizeInv, RestoreInv, CleanupInv, Applying, Holding
<1>1. ASSUME NEW t \in Target, NEW c \in Version, NEW durable \in BOOLEAN,
             EmulatorWrite(t, c, durable)
      PROVE  LossInv'
  <2>1. /\ SameScope /\ journal' = journal /\ pc' = pc /\ mem' = mem
        /\ candidate' = candidate /\ previous' = previous
    BY <1>1 DEF EmulatorWrite, SameScope, procVars
  <2>2. StillUntouched
    <3>1. \A u \in Target \ {t} : live'[u] = live[u] /\ synced'[u] = synced[u]
      BY <1>1 DEF EmulatorWrite, TypeOK, Manifest
    <3>2. written' = written \cup {t}
      BY <1>1 DEF EmulatorWrite
    <3>3. QED
      BY <2>1, <3>1, <3>2, Scope DEF StillUntouched, Untouched
  <2>3. QED
    BY <2>1, <2>2, StableScope, StillGuarded, Scope DEF StillUntouched, ValidSnapshot
<1>2. CASE Crash
  <2>1. Quiet /\ journal' = journal
    BY <1>2 DEF Crash, Quiet, SameScope, ghosts
  <2>2. QED
    BY <1>2, <2>1, QuietStep DEF Crash, IdleMem, StillUntouched
<1>3. ASSUME NEW lost \in SUBSET Target, PowerLoss(lost) PROVE LossInv'
  <2>1. /\ SameScope /\ journal' = journal /\ written' = written
        /\ candidate' = candidate /\ previous' = previous
        /\ pc' = "idle" /\ mem'.keep = FALSE
    BY <1>3 DEF PowerLoss, SameScope, IdleMem
  <2>2. StillUntouched
    BY <1>3, <2>1, Scope DEF PowerLoss, StillUntouched, Untouched
  <2>3. QED
    BY <2>1, <2>2, StableScope, StillGuarded, Scope DEF StillUntouched
<1>4. CASE IOError
  <2>1. Quiet /\ journal' = journal
    BY <1>4 DEF IOError, Quiet, SameScope, ghosts
  <2>2. \/ pc = "staging" /\ pc' = "cleanup" /\ mem'.keep = mem.keep
        \/ pc \in Holding /\ pc' = "rollback" /\ mem' = mem
        \/ pc' = "idle" /\ mem'.keep = FALSE
    BY <1>4 DEF IOError, IdleMem, TypeOK, MemType
  <2>3. QED
    BY <2>1, <2>2, QuietStep DEF StillUntouched
<1>5. QED
  BY <1>1, <1>2, <1>3, <1>4 DEF Environment

LEMMA LossStep == TypeOK /\ LossInv /\ [Next]_vars => LossInv'
<1> SUFFICES ASSUME TypeOK, LossInv, [Next]_vars PROVE LossInv'
  OBVIOUS
<1>1. CASE UNCHANGED vars
  <2>1. Quiet /\ journal' = journal /\ pc' = pc /\ mem' = mem
    BY <1>1 DEF vars, Quiet, SameScope, ghosts, procVars
  <2>2. InPhase' /\ NotYetTouched' /\ SnapshotHeld' /\ AllGuarded'
    BY <2>1, QuietStep DEF LossInv, InPhase, NotYetTouched, SnapshotHeld, AllGuarded,
       StillUntouched, Applying, Holding
  <2>3. FinalizeInv'
    BY <2>1, QuietStep DEF LossInv, FinalizeInv
  <2>4. RestoreInv'
    BY <2>1, QuietStep, Scope DEF LossInv, RestoreInv, StillUntouched
  <2>5. CleanupInv'
    BY <2>1, QuietStep DEF LossInv, CleanupInv, StillUntouched
  <2>6. QED
    BY <2>2, <2>3, <2>4, <2>5 DEF LossInv
<1>2. QED
  BY <1>1, StartLoss, PrepareLoss, ApplyLoss, CompleteLoss, FinalizeLoss, RollbackLoss,
     CleanupLoss, FailureLoss, EnvironmentLoss DEF Next, Working

\* The content a save had before an operation survives it, in place, in the
\* operation's snapshot or in the stable history, in every interleaving of the
\* transaction with crashes, power losses, I/O errors and emulators.
THEOREM SaveSafe == Spec => []SaveNeverLost
<1>1. Spec => []LossInv
  BY InitLoss, LossStep, TypeCorrect, PTL DEF Spec
<1>2. TypeOK /\ LossInv => SaveNeverLost
  BY GuardedMeansKept DEF LossInv
<1>3. QED
  BY <1>1, <1>2, TypeCorrect, PTL

-----------------------------------------------------------------------------
(* On an owned dataset what is remembered of an operation is true.  The     *)
(* receipt is written when everything is durable, and nothing that follows *)
(* it rolls the operation back: the journal append is not fatal any more.  *)

Done(t) == t \in written \/ (live[t] = journal.desired[t] /\ synced[t] = journal.desired[t])

\* The operation whose journal is there has its receipt.
Receipted == receipt = journal.op /\ journal.phase # "none"

OperationInv ==
    /\ journal.op = ops /\ receipt <= ops
    /\ journal.op = 0 => journal.phase = "none"
    /\ journal.phase = "none" => pc = "idle"

ReceiptInv ==
    /\ pc # "restoreState"
    /\ pc \in {"applied", "published", "receipted", "finalizing"} => journal.phase = "promoted"
    /\ pc \in {"receipted", "finalizing"} \/ mem.keep => Receipted
    /\ Receipted => /\ journal.phase = "promoted"
                    /\ pc \in {"receipted", "finalizing", "idle"} \/ mem.keep

PublishInv == pc \in {"published", "receipted"} /\ mem.upload => journal.op \in published

DoneInv ==
    /\ pc = "syncing" => \A t \in Changed : t \in written \/ live[t] = journal.desired[t]
    /\ pc \in {"synced", "applied", "published"} \/ Receipted => \A t \in Changed : Done(t)

ResultInv ==
    /\ journal.phase = "none" /\ journal.op > 0 =>
         \A t \in Changed : IF outcome[journal.op] = "kept" THEN Done(t) ELSE Untouched(t)
    /\ receipt # 0 /\ ~Receipted => outcome[receipt] = "kept"

HonestInv == OperationInv /\ ReceiptInv /\ PublishInv /\ DoneInv /\ ResultInv

LEMMA HonestMeansHonest == TypeOK /\ HonestInv => OutcomeHonest
<1> SUFFICES ASSUME TypeOK, HonestInv PROVE OutcomeHonest
  OBVIOUS
<1> USE DEF HonestInv, OperationInv, ReceiptInv, DoneInv, ResultInv, Receipted, Done
<1>1. AllOrNothing
  BY Scope DEF AllOrNothing, Untouched, Desired, Original
<1>2. ReceiptMeansDurable
  BY DEF ReceiptMeansDurable
<1>3. ReceiptMeansKept
  BY DEF ReceiptMeansKept
<1>4. QED
  BY <1>1, <1>2, <1>3 DEF OutcomeHonest

LEMMA InitHonest == Init => HonestInv
BY DEF Init, HonestInv, OperationInv, ReceiptInv, PublishInv, DoneInv, ResultInv, Receipted, IdleMem

(* A step that writes no save leaves what is done done.                     *)
LEMMA QuietDone ==
    ASSUME Quiet
    PROVE  /\ Changed' = Changed /\ journal'.op = journal.op
           /\ \A t \in Changed : Done(t)' = Done(t) /\ Untouched(t)' = Untouched(t)
           /\ live' = live /\ synced' = synced /\ written' = written
           /\ journal'.desired = journal.desired
BY QuietStep DEF Quiet, SameScope, Done, Untouched, fileVars

LEMMA StartHonest == TypeOK /\ HonestInv /\ Start => HonestInv'
<1> SUFFICES ASSUME TypeOK, HonestInv, NEW desired \in Manifest, NEW caller \in Caller,
                    NEW upload \in BOOLEAN, Begin(desired, caller, upload)
             PROVE  HonestInv'
  BY DEF Start
<1>1. /\ journal'.op = ops' /\ journal'.phase = "preparing"
      /\ ops' = ops + 1 /\ ops \in Nat /\ receipt' = receipt /\ receipt \in Nat
      /\ pc = "idle" /\ pc' = "staging" /\ mem'.keep = FALSE
      /\ outcome' = outcome /\ journal.phase = "none"
  BY DEF Begin, Go, IdleMem, TypeOK
<1>2. receipt <= ops
  BY DEF HonestInv, OperationInv
<1>3. ~Receipted' /\ ~Receipted
  BY <1>1, <1>2 DEF Receipted
<1>4. QED
  BY <1>1, <1>2, <1>3 DEF HonestInv, OperationInv, ReceiptInv, PublishInv, DoneInv, ResultInv

LEMMA PrepareHonest == TypeOK /\ LossInv /\ HonestInv /\ Prepare => HonestInv'
<1> SUFFICES ASSUME TypeOK, LossInv, HonestInv, Prepare PROVE HonestInv'
  OBVIOUS
<1>1. /\ pc = "staging" /\ pc' \in {"staging", "prepared", "cleanup"}
      /\ SameScope /\ journal'.phase \in {journal.phase, "prepared"} /\ journal.phase = "preparing"
      /\ UNCHANGED <<receipt, ops, outcome>> /\ mem'.keep = mem.keep
  BY DEF Prepare, Prepared, StageView, StageRefused, SameScope, Go, Phased, bounds, ghosts, TypeOK, MemType,
         LossInv, InPhase
<1>2. ~Receipted /\ ~Receipted' /\ ~mem.keep /\ journal.op # 0
  BY <1>1 DEF HonestInv, ReceiptInv, OperationInv, Receipted, SameScope
<1>3. QED
  BY <1>1, <1>2 DEF HonestInv, OperationInv, ReceiptInv, PublishInv, DoneInv, ResultInv, SameScope

LEMMA ApplyHonest == TypeOK /\ LossInv /\ HonestInv /\ Apply => HonestInv'
<1> SUFFICES ASSUME TypeOK, LossInv, HonestInv, Apply PROVE HonestInv'
  OBVIOUS
<1>1. /\ pc \in {"prepared"} \cup Applying
      /\ pc' \in {"verifying", "promoting", "rollback", "replacing", "syncing", "synced", "applied"}
      /\ SameScope /\ journal'.phase \in {journal.phase, "applying", "promoted"}
      /\ journal.phase \in {"prepared", "applying"}
      /\ UNCHANGED <<receipt, ops, outcome>> /\ mem'.keep = mem.keep
  BY DEF Apply, StartApply, VerifyCurrent, VerifyDesired, SyncLive, Promoted, CheckTarget, ReplaceTarget,
         SameScope, Go, Phased, bounds, ghosts, TypeOK, MemType, LossInv, InPhase, Applying
<1>2. ~Receipted /\ ~mem.keep /\ journal.op # 0
  BY <1>1 DEF HonestInv, ReceiptInv, OperationInv, Receipted, Applying
<1>3. ~Receipted' /\ journal'.op = journal.op
  BY <1>1, <1>2 DEF HonestInv, ReceiptInv, OperationInv, Receipted, SameScope
<1>4. pc' = "applied" => journal'.phase = "promoted"
  BY <1>1 DEF Apply, StartApply, VerifyCurrent, VerifyDesired, SyncLive, Promoted, CheckTarget, ReplaceTarget,
              Go, Phased, TypeOK, Phase
<1>5. DoneInv'
  <2>1. CASE VerifyDesired
    <3>1. Quiet /\ pc' \in {"syncing", "rollback"} /\ (pc' = "syncing" => live = journal.desired)
      BY <2>1 DEF VerifyDesired, Quiet, SameScope, ghosts, Go
    <3>2. QED
      BY <1>3, <3>1, QuietDone DEF DoneInv
  <2>2. CASE SyncLive
    <3>1. /\ Changed' = Changed /\ pc' = "synced"
          /\ \A t \in Changed : t \in written \/ live[t] = journal.desired[t]
      BY <2>2, StableScope, <1>1 DEF SyncLive, HonestInv, DoneInv, Go
    <3>2. \A t \in Changed : synced'[t] = live[t]
      BY <2>2, Scope DEF SyncLive
    <3>3. \A t \in Changed : Done(t)'
      BY <2>2, <3>1, <3>2 DEF SyncLive, Done, ghosts
    <3>4. QED
      BY <1>3, <3>1, <3>3 DEF DoneInv
  <2>3. CASE Promoted
    <3>1. Quiet /\ pc = "synced" /\ pc' = "applied"
      BY <2>3 DEF Promoted, Quiet, SameScope, ghosts, Go, Phased, TypeOK
    <3>2. QED
      BY <1>3, <3>1, QuietDone DEF DoneInv, HonestInv
  <2>4. CASE StartApply \/ VerifyCurrent \/ \E t \in Target : CheckTarget(t) \/ ReplaceTarget(t)
    <3>1. pc' \in {"verifying", "promoting", "rollback", "replacing"}
      BY <2>4 DEF StartApply, VerifyCurrent, CheckTarget, ReplaceTarget, Go
    <3>2. QED
      BY <1>3, <3>1 DEF DoneInv
  <2>5. QED
    BY <2>1, <2>2, <2>3, <2>4 DEF Apply
<1>6. QED
  BY <1>1, <1>2, <1>3, <1>4, <1>5 DEF HonestInv, OperationInv, ReceiptInv, PublishInv, ResultInv, SameScope, Applying

LEMMA CompleteHonest == TypeOK /\ Publishes /\ LossInv /\ HonestInv /\ Complete => HonestInv'
<1> SUFFICES ASSUME TypeOK, Publishes, LossInv, HonestInv, Complete PROVE HonestInv'
  OBVIOUS
<1>1. Quiet /\ journal' = journal /\ UNCHANGED <<ops, outcome>>
  BY DEF Complete, StagingChanged, Publish, WriteReceipt, AppendJournal, RestoreState,
         Quiet, SameScope, ghosts, bounds
<1>2. CASE StagingChanged
  BY <1>1, <1>2, QuietDone DEF StagingChanged, Go, HonestInv, OperationInv, ReceiptInv, PublishInv, DoneInv,
     ResultInv, Receipted
<1>3. CASE Publish
  BY <1>1, <1>3, QuietDone DEF Publish, Go, HonestInv, OperationInv, ReceiptInv, PublishInv, DoneInv,
     ResultInv, Receipted
<1>4. CASE WriteReceipt
  <2>1. /\ pc = "published" /\ pc' = "receipted" /\ receipt' = journal.op /\ mem' = mem
        /\ published' = published /\ journal.phase = "promoted"
    BY <1>4 DEF WriteReceipt, Go, ghosts, HonestInv, ReceiptInv
  <2>2. Receipted' /\ ~mem.keep /\ journal.op = ops /\ ops \in Nat
    BY <1>1, <2>1 DEF Receipted, LossInv, InPhase, HonestInv, OperationInv, TypeOK
  <2>3. QED
    BY <1>1, <2>1, <2>2, QuietDone DEF HonestInv, OperationInv, ReceiptInv, PublishInv, DoneInv, ResultInv
<1>5. CASE AppendJournal
  <2>1. /\ pc = "receipted" /\ pc' = "finalizing" /\ mem'.keep = mem.keep /\ receipt' = receipt
        /\ Receipted
    BY <1>5 DEF AppendJournal, Go, TypeOK, MemType, HonestInv, ReceiptInv
  <2>2. Receipted'
    BY <1>1, <2>1 DEF Receipted
  <2>3. QED
    BY <1>1, <2>1, <2>2, QuietDone DEF HonestInv, OperationInv, ReceiptInv, PublishInv, DoneInv, ResultInv
<1>6. CASE RestoreState
  BY <1>6 DEF RestoreState, HonestInv, ReceiptInv
<1>7. QED
  BY <1>2, <1>3, <1>4, <1>5, <1>6 DEF Complete

LEMMA FinalizeHonest == TypeOK /\ LossInv /\ HonestInv /\ Finalize => HonestInv'
<1> SUFFICES ASSUME TypeOK, LossInv, HonestInv, Finalize PROVE HonestInv'
  OBVIOUS
<1>1. /\ pc = "finalizing" /\ pc' \in {"finalizing", "cleanup", "idle"} /\ journal' = journal
      /\ UNCHANGED <<receipt, live, synced, written, ops, outcome>>
      /\ pc' = "cleanup" => mem'.keep
  BY DEF Finalize, ValidateFinalize, FinalizeInstalled, RemovePrevious, InstallPrevious, Go, bounds, ghosts,
         fileVars, procVars, TypeOK, MemType
<1>2. Receipted /\ Receipted' /\ journal.phase = "promoted"
  BY <1>1 DEF HonestInv, ReceiptInv, Receipted
<1>3. Changed' = Changed /\ \A t \in Changed : Done(t) /\ Done(t)'
  BY <1>1, <1>2, StableScope DEF SameScope, Done, HonestInv, DoneInv
<1>4. QED
  BY <1>1, <1>2, <1>3 DEF HonestInv, OperationInv, ReceiptInv, PublishInv, DoneInv, ResultInv

(* A rollback is of an operation without its receipt, and touches no result. *)
LEMMA RollbackHonest == TypeOK /\ LossInv /\ HonestInv /\ Rollback => HonestInv'
<1> SUFFICES ASSUME TypeOK, LossInv, HonestInv, Rollback PROVE HonestInv'
  OBVIOUS
<1>1. /\ pc \in {"rollback", "restoring"} /\ pc' \in {"restoring", "cleanup", "idle"}
      /\ journal' = journal /\ UNCHANGED <<receipt, ops, outcome>>
  BY DEF Rollback, PlanRollback, Restored, RestoreTarget, VerifyRestored, Go, bounds, ghosts
<1>2. mem.keep = FALSE /\ mem'.keep = FALSE
  <2>1. ~mem.keep /\ mem \in MemType
    BY <1>1 DEF LossInv, InPhase, TypeOK
  <2>2. mem.keep = FALSE
    BY <2>1 DEF MemType
  <2>3. \/ mem'.keep = mem.keep \/ mem'.keep = FALSE
    <3>1. CASE PlanRollback
      <4>1. CASE ~mem.touched
        BY <2>1, <3>1, <4>1 DEF PlanRollback, MemType
      <4>2. CASE mem.touched /\ \A t \in Changed : Restorable(t)
        BY <2>1, <3>1, <4>2 DEF PlanRollback, MemType
      <4>3. CASE mem.touched /\ ~\A t \in Changed : Restorable(t)
        BY <3>1, <4>3 DEF PlanRollback, IdleMem
      <4>4. QED
        BY <4>1, <4>2, <4>3
    <3>2. CASE Restored
      BY <2>1, <3>2 DEF Restored, IdleMem, MemType
    <3>3. ASSUME NEW t \in Target, RestoreTarget(t) PROVE mem'.keep = mem.keep
      BY <2>1, <3>3 DEF RestoreTarget, MemType
    <3>4. ASSUME NEW v \in View, VerifyRestored(v) PROVE mem'.keep = mem.keep
      BY <2>1, <3>4 DEF VerifyRestored, MemType
    <3>5. QED
      BY <3>1, <3>2, <3>3, <3>4 DEF Rollback
  <2>4. QED
    BY <2>2, <2>3
<1>3. ~Receipted /\ ~Receipted' /\ journal.phase # "none"
  BY <1>1, <1>2 DEF HonestInv, ReceiptInv, OperationInv, Receipted
<1>4. QED
  BY <1>1, <1>2, <1>3 DEF HonestInv, OperationInv, ReceiptInv, PublishInv, DoneInv, ResultInv

LEMMA CleanupHonest == TypeOK /\ LossInv /\ HonestInv /\ Cleanup => HonestInv'
<1> SUFFICES ASSUME TypeOK, LossInv, HonestInv, Cleanup PROVE HonestInv'
  OBVIOUS
<1>1. CASE UnlinkJournal
  <2>1. /\ Quiet /\ journal'.phase = "none" /\ journal'.op = journal.op /\ pc = "cleanup"
        /\ UNCHANGED <<receipt, ops>> /\ journal.phase # "none" /\ journal.op \in 1..MaxOps
    BY <1>1 DEF UnlinkJournal, Quiet, SameScope, Phased, bounds, TypeOK, HonestInv, OperationInv
  <2>2. outcome' = [outcome EXCEPT ![journal.op] = IF mem.keep THEN "kept" ELSE "rolledBack"]
    BY <1>1 DEF UnlinkJournal
  <2>3. outcome'[journal.op] = IF mem.keep THEN "kept" ELSE "rolledBack"
    BY <2>1, <2>2 DEF TypeOK
  <2>4. receipt = journal.op <=> mem.keep
    BY <2>1 DEF HonestInv, ReceiptInv, Receipted
  <2>5. pc' = "idle" /\ mem'.keep = FALSE
    BY <1>1, <2>4 DEF UnlinkJournal, Go, IdleMem
  <2>6. \A t \in Changed : IF mem.keep THEN Done(t) ELSE Untouched(t)
    BY <2>1, <2>4 DEF HonestInv, DoneInv, Receipted, LossInv, CleanupInv
  <2>7. \A t \in Changed' : IF outcome'[journal'.op] = "kept" THEN Done(t)' ELSE Untouched(t)'
    BY <2>1, <2>3, <2>6, QuietDone
  <2>8. ~Receipted' /\ (receipt # 0 => outcome'[receipt] = "kept")
    <3>1. CASE receipt = journal.op
      BY <2>1, <2>3, <2>4, <3>1 DEF Receipted
    <3>2. CASE receipt # journal.op
      BY <2>1, <2>2, <3>2 DEF Receipted, HonestInv, ResultInv, TypeOK
    <3>3. QED
      BY <3>1, <3>2
  <2>9. QED
    BY <2>1, <2>5, <2>7, <2>8 DEF HonestInv, OperationInv, ReceiptInv, PublishInv, DoneInv, ResultInv
<1>2. ASSUME NEW v \in View, CleanView(v) PROVE HonestInv'
  <2>1. /\ pc' = pc /\ pc = "cleanup" /\ journal' = journal /\ mem'.keep = mem.keep
        /\ UNCHANGED <<receipt, live, synced, written, ops, outcome>>
    BY <1>2 DEF CleanView, bounds, ghosts, TypeOK, MemType
  <2>2. Changed' = Changed /\ \A t \in Changed : Done(t)' = Done(t) /\ Untouched(t)' = Untouched(t)
    BY <2>1, StableScope DEF SameScope, Done, Untouched
  <2>3. Receipted' = Receipted
    BY <2>1 DEF Receipted
  <2>4. QED
    BY <2>1, <2>2, <2>3 DEF HonestInv, OperationInv, ReceiptInv, PublishInv, DoneInv, ResultInv
<1>3. QED
  BY <1>1, <1>2 DEF Cleanup

(* The process ends, is refused or fails; no file is touched.               *)
LEMMA EndsHonest ==
    ASSUME TypeOK, HonestInv, Quiet, journal' = journal, UNCHANGED <<receipt, ops, outcome>>,
           pc' \in {"idle", "rollback", "cleanup", "finalizing"}, mem'.keep = FALSE, journal.phase # "none",
           pc' \in {"rollback", "cleanup"} => ~Receipted,
           pc' = "finalizing" => Receipted
    PROVE  HonestInv'
<1>1. Receipted' = Receipted
  BY DEF Receipted
<1>2. QED
  BY <1>1, QuietDone DEF HonestInv, OperationInv, ReceiptInv, PublishInv, DoneInv, ResultInv

LEMMA RecoverHonest == TypeOK /\ HonestInv /\ Recover => HonestInv'
<1> SUFFICES ASSUME TypeOK, HonestInv, Recover PROVE HonestInv'
  OBVIOUS
<1>1. /\ Quiet /\ journal' = journal /\ UNCHANGED <<receipt, ops, outcome>> /\ journal.phase # "none"
      /\ mem'.keep = FALSE
  BY DEF Recover, Quiet, SameScope, ghosts, bounds, IdleMem
<1>2. IF Receipted THEN pc' = "finalizing" ELSE pc' = "rollback"
  BY <1>1 DEF Recover, Completed, Go, HonestInv, ReceiptInv, Receipted
<1>3. QED
  BY <1>1, <1>2, EndsHonest

LEMMA FailureHonest ==
    TypeOK /\ Publishes /\ LossInv /\ HonestInv /\ (CallerAborts \/ ReceiptFails \/ AppendFails) => HonestInv'
<1> SUFFICES ASSUME TypeOK, Publishes, LossInv, HonestInv, CallerAborts \/ ReceiptFails \/ AppendFails
             PROVE  HonestInv'
  OBVIOUS
<1>1. ~AppendFails
  BY DEF AppendFails, HonestInv, PublishInv
<1>2. /\ Quiet /\ journal' = journal /\ UNCHANGED <<receipt, ops, outcome>>
      /\ pc \in {"prepared", "applied", "published"}
      /\ \/ mem' = mem /\ pc' = "rollback"
         \/ mem' = IdleMem /\ pc' = "idle"
  BY <1>1 DEF CallerAborts, ReceiptFails, Quiet, SameScope, ghosts, bounds, Go
<1>3. ~mem.keep /\ mem'.keep = FALSE
  BY <1>2 DEF LossInv, InPhase, IdleMem, TypeOK, MemType
<1>4. ~Receipted /\ journal.phase # "none"
  BY <1>2, <1>3 DEF HonestInv, ReceiptInv, OperationInv
<1>5. QED
  BY <1>2, <1>3, <1>4, EndsHonest

LEMMA EnvironmentHonest == TypeOK /\ LossInv /\ HonestInv /\ Environment => HonestInv'
<1> SUFFICES ASSUME TypeOK, LossInv, HonestInv, Environment PROVE HonestInv'
  OBVIOUS
<1>1. ASSUME NEW t \in Target, NEW c \in Version, NEW durable \in BOOLEAN, EmulatorWrite(t, c, durable)
      PROVE  HonestInv'
  <2>1. /\ SameScope /\ journal' = journal /\ pc' = pc /\ mem' = mem /\ published' = published
        /\ UNCHANGED <<receipt, ops, outcome>> /\ written' = written \cup {t}
        /\ \A u \in Target \ {t} : live'[u] = live[u] /\ synced'[u] = synced[u]
    BY <1>1 DEF EmulatorWrite, SameScope, procVars, TypeOK, Manifest
  <2>2. Changed' = Changed /\ Receipted' = Receipted
    BY <2>1, StableScope DEF Receipted
  <2>3. \A u \in Changed : /\ Done(u) => Done(u)'
                           /\ Untouched(u) => Untouched(u)'
                           /\ (u \in written \/ live[u] = journal.desired[u])
                              => (u \in written' \/ live'[u] = journal'.desired[u])
    BY <2>1, Scope DEF Done, Untouched
  <2>4. QED
    BY <2>1, <2>2, <2>3 DEF HonestInv, OperationInv, ReceiptInv, PublishInv, DoneInv, ResultInv
<1>2. CASE Crash
  <2>1. /\ Quiet /\ journal' = journal /\ UNCHANGED <<receipt, ops, outcome>> /\ pc' = "idle"
        /\ mem'.keep = FALSE /\ journal.phase # "none"
    BY <1>2 DEF Crash, Quiet, SameScope, ghosts, Go, IdleMem, HonestInv, OperationInv
  <2>2. QED
    BY <2>1, EndsHonest
<1>3. ASSUME NEW lost \in SUBSET Target, PowerLoss(lost) PROVE HonestInv'
  <2>1. /\ SameScope /\ journal' = journal /\ pc' = "idle" /\ mem'.keep = FALSE /\ written' = written
        /\ UNCHANGED <<receipt, ops, outcome>>
        /\ live' = [t \in Target |-> IF t \in lost THEN synced[t] ELSE live[t]]
        /\ synced' = live'
    BY <1>3 DEF PowerLoss, SameScope, IdleMem, Go
  <2>2. Changed' = Changed /\ Receipted' = Receipted
    BY <2>1, StableScope DEF Receipted
  <2>3. \A u \in Changed : (Done(u) => Done(u)') /\ (Untouched(u) => Untouched(u)')
    BY <2>1, Scope DEF Done, Untouched
  <2>4. QED
    BY <2>1, <2>2, <2>3 DEF HonestInv, OperationInv, ReceiptInv, PublishInv, DoneInv, ResultInv
<1>4. CASE IOError
  <2>1. /\ Quiet /\ journal' = journal /\ UNCHANGED <<receipt, ops, outcome>> /\ pc # "idle"
        /\ \/ pc = "staging" /\ pc' = "cleanup" /\ mem'.keep = mem.keep
           \/ pc \in Holding \ {"receipted"} /\ pc' = "rollback" /\ mem' = mem
           \/ pc' = "idle" /\ mem'.keep = FALSE
    BY <1>4 DEF IOError, Quiet, SameScope, ghosts, Go, IdleMem, TypeOK, MemType, Holding, Applying
  <2>2. journal.phase # "none"
    BY <2>1 DEF HonestInv, OperationInv
  <2>3. mem'.keep = FALSE
    BY <2>1 DEF LossInv, InPhase, Holding, Applying, TypeOK, MemType
  <2>4. pc' \in {"rollback", "cleanup"} => ~Receipted
    BY <2>1, <2>3 DEF HonestInv, ReceiptInv, LossInv, InPhase, Holding, Applying
  <2>5. QED
    BY <2>1, <2>2, <2>3, <2>4, EndsHonest
<1>5. QED
  BY <1>1, <1>2, <1>3, <1>4 DEF Environment

LEMMA HonestStep == TypeOK /\ Publishes /\ LossInv /\ HonestInv /\ [Next]_vars => HonestInv'
<1> SUFFICES ASSUME TypeOK, Publishes, LossInv, HonestInv, [Next]_vars PROVE HonestInv'
  OBVIOUS
<1>1. CASE UNCHANGED vars
  <2>1. /\ Quiet /\ journal' = journal /\ pc' = pc /\ mem' = mem /\ published' = published
        /\ UNCHANGED <<receipt, ops, outcome>>
    BY <1>1 DEF vars, Quiet, SameScope, ghosts, procVars, bounds
  <2>2. Receipted' = Receipted
    BY <2>1 DEF Receipted
  <2>3. QED
    BY <2>1, <2>2, QuietDone DEF HonestInv, OperationInv, ReceiptInv, PublishInv, DoneInv, ResultInv
<1>2. QED
  BY <1>1, StartHonest, PrepareHonest, ApplyHonest, CompleteHonest, FinalizeHonest, RollbackHonest,
     CleanupHonest, RecoverHonest, FailureHonest, EnvironmentHonest DEF Next, Working

\* On an owned dataset, whatever crashes, power losses, failures and emulators interleave with it, an
\* operation happens in every view or in none, its receipt speaks of durable saves, and no receipt is of an
\* operation that was put back.  (On an unowned one a failed journal append takes a receipt back.)
THEOREM AlwaysHonest == Spec => [](Publishes => OutcomeHonest)
<1>1. Init => (Publishes => HonestInv)
  BY InitHonest
<1>2. TypeOK /\ LossInv /\ (Publishes => HonestInv) /\ [Next]_vars => (Publishes => HonestInv)'
  BY HonestStep
<1>3. TypeOK /\ (Publishes => HonestInv) => (Publishes => OutcomeHonest)
  BY HonestMeansHonest
<1>4. Spec => []LossInv
  BY InitLoss, LossStep, TypeCorrect, PTL DEF Spec
<1>5. QED
  BY <1>1, <1>2, <1>3, <1>4, TypeCorrect, PTL DEF Spec
=============================================================================
