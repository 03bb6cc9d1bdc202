---------------------------- MODULE Update_proofs ----------------------------
(***************************************************************************)
(* Proofs about Update, for any releases and any number of updates: after  *)
(* a chain of updates that failed anywhere, what is installed, recorded    *)
(* and running is what the last one found or what it installed.            *)
(*                                                                         *)
(* AtStep says where the old environment and the new one are at each step. *)
(***************************************************************************)
EXTENDS Update, TLAPS

-----------------------------------------------------------------------------
(* The inductive invariant.                                                *)

Early == {"staging", "staged", "stopped"}
Switched == {"wrappers", "ui", "ui_in", "ui_wrap", "rest", "record"}
Ends == {"cleanup", "restart"}
Pcs == Early \cup Switched \cup Ends \cup {"idle", "moved", "rollback", "recording"}

\* The history has its shape, and an update that runs began with an environment.
Shape ==
    /\ pc \in Pcs
    /\ before = [live |-> before.live, ui |-> before.ui, record |-> before.record]
    /\ before.live \in Releases \cup {None} /\ before.record \in Releases \cup {None, Torn}
    /\ pc # "idle" => before.live # None /\ target \in Releases
    /\ pc \in {"staged", "stopped", "moved"} => candidate = target
    /\ pc # "idle" => out # "crashed"

\* Where the environments are, and what is recorded, at each step.
AtStep ==
    /\ pc \in Early => live = before.live
    /\ pc = "moved" => live = None
    /\ pc \in Switched \cup {"recording"} => live = target
    /\ pc \in {"moved", "rollback"} \cup Switched => backup = before.live
    /\ pc \in Early \cup {"moved", "rollback"} \cup Switched => record = before.record
    /\ pc = "recording" => record = Torn

\* How an update ended, until the next one begins.
AtEnd ==
    /\ pc \in Ends => out \in {"installed", "failed"}
    /\ pc = "rollback" => out = "failed"
    /\ pc \in Ends \cup {"idle"} /\ out = "failed" /\ faults \cap {"activate", "rollback", "record"} = {} =>
           \/ live = before.live /\ record = before.record
           \/ pc = "idle" /\ "restart" \in faults /\ live = target /\ record = target
    /\ pc \in Ends /\ out = "failed" => \/ live = before.live /\ record = before.record
                                        \/ live = None \/ record = Torn
    /\ pc \in Ends /\ out = "installed" => live = target /\ record = target

\* What an update found was as honest as what it leaves.
FoundHonest ==
    /\ pc # "idle" /\ before.record \in Releases =>
           before.record = before.live \/ "crash" \in faults
    /\ RecordHonest

\* The interface is in its place, or moved away for the length of the swap.
UiSound ==
    before.ui # None /\ faults \cap {"kill", "ui"} = {} /\ ~(pc = "idle" /\ out = "crashed") =>
        /\ pc # "ui_in" => ui # None
        /\ pc \in {"ui_in", "ui_wrap"} => uiBefore # None

UpdateInv ==
    /\ UpdateAssumption
    /\ TypeOK /\ Shape /\ AtStep /\ AtEnd /\ FoundHonest /\ UiSound /\ ManagerReturns

LEMMA InitInv == UpdateAssumption /\ Init => UpdateInv
<1> SUFFICES ASSUME UpdateAssumption, Init PROVE UpdateInv
  OBVIOUS
<1> USE DEF UpdateAssumption, Init, Pcs, Early, Switched, Ends
<1>1. TypeOK
  <2>1. {manager, wasRunning} \subseteq BOOLEAN
    BY Zenon
  <2>2. {live, candidate, backup, ui, uiBefore, target} \subseteq Releases \cup {None}
    OBVIOUS
  <2>3. /\ record \in Releases \cup {None, Torn}
        /\ faults \subseteq Faults /\ updates \in 0..MaxUpdates
    OBVIOUS
  <2>4. QED
    BY <2>1, <2>2, <2>3 DEF TypeOK
<1>2. before = [live |-> 0, ui |-> 0, record |-> 0] /\ pc = "idle"
  BY DEF Installed
<1>3. Shape
  BY <1>2 DEF Shape
<1>4. AtStep /\ AtEnd /\ FoundHonest /\ UiSound /\ ManagerReturns
  BY DEF AtStep, AtEnd, FoundHonest, RecordHonest, UiSound, ManagerReturns
<1>5. QED
  BY <1>1, <1>3, <1>4 DEF UpdateInv

LEMMA StepInv == UpdateInv /\ [Next]_vars => UpdateInv'
<1> SUFFICES ASSUME UpdateInv, [Next]_vars PROVE UpdateInv'
  OBVIOUS
<1> USE DEF UpdateAssumption, places, UpdateInv, TypeOK, Shape, AtStep, AtEnd, FoundHonest,
    RecordHonest, UiSound, ManagerReturns, Installed, Pcs, Early, Switched, Ends, Faults
<1>0. ASSUME NEW r \in Releases, Begin(r) PROVE UpdateInv'
  <2>1. before' = [live |-> live, ui |-> ui, record |-> record]
    BY <1>0 DEF Begin
  <2>2. TypeOK'
    <3>1. {manager', wasRunning'} \subseteq BOOLEAN
      BY <1>0, Zenon DEF Begin
    <3>2. target' \in Releases /\ updates' \in 0..MaxUpdates /\ out' = "none"
      BY <1>0 DEF Begin
    <3>3. /\ UNCHANGED <<live, candidate, backup, ui, uiBefore, record>>
          /\ faults' = faults \cap {"crash"}
      BY <1>0 DEF Begin
    <3>4. QED
      BY <3>1, <3>2, <3>3
  <2>3. Shape'
    BY <1>0, <2>1 DEF Begin
  <2>4. AtStep' /\ AtEnd' /\ FoundHonest' /\ UiSound' /\ ManagerReturns'
    BY <1>0, <2>1 DEF Begin
  <2>5. QED
    BY <2>2, <2>3, <2>4
<1>1. CASE Stage
  BY <1>1 DEF Stage
<1>2. CASE FailPlainly
  BY <1>2 DEF FailPlainly, GiveUp
<1>3. CASE StopManager
  BY <1>3 DEF StopManager
<1>3a. CASE FailStop
  <2>1. {manager', wasRunning'} \subseteq BOOLEAN
    BY <1>3a, Zenon DEF FailStop
  <2>2. /\ pc' = "cleanup" /\ out' = "failed"
        /\ UNCHANGED <<live, candidate, backup, ui, uiBefore, record, target, before, faults, updates>>
    BY <1>3a DEF FailStop, GiveUp
  <2>3. QED
    BY <1>3a, <2>1, <2>2 DEF FailStop
<1>4. CASE MoveAway
  BY <1>4 DEF MoveAway
<1>5. CASE Activate
  BY <1>5 DEF Activate
<1>6. CASE FailActivate
  BY <1>6 DEF FailActivate, GiveUp
<1>7. CASE Wrappers
  BY <1>7 DEF Wrappers
<1>8. CASE FailWrappers
  BY <1>8 DEF FailWrappers, GiveUp
<1>9. CASE SkipUi
  BY <1>9 DEF SkipUi
<1>10. CASE UiAway
  BY <1>10 DEF UiAway
<1>11. CASE UiIn
  BY <1>11 DEF UiIn
<1>12. CASE UiDone
  BY <1>12 DEF UiDone
<1>13. CASE FailUi
  BY <1>13 DEF FailUi, UiPutBack
<1>13a. CASE StrandUi
  BY <1>13a DEF StrandUi
<1>14. CASE Rest
  BY <1>14 DEF Rest
<1>15. CASE Kill
  BY <1>15 DEF Kill, GiveUp
<1>16. CASE Rollback
  <2>1. TypeOK' /\ Shape'
    BY <1>16 DEF Rollback, Restored
  <2>2. backup # None /\ live' = before.live
    BY <1>16 DEF Rollback, Restored
  <2>3. AtStep' /\ AtEnd'
    BY <1>16, <2>2 DEF Rollback
  <2>4. FoundHonest' /\ UiSound' /\ ManagerReturns'
    BY <1>16 DEF Rollback
  <2>5. QED
    BY <2>1, <2>3, <2>4
<1>16a. CASE FailRollback
  BY <1>16a DEF FailRollback
<1>17. CASE OpenRecord
  BY <1>17 DEF OpenRecord
<1>18. CASE CloseRecord
  BY <1>18 DEF CloseRecord, Recorded
<1>19. CASE FailRecord
  BY <1>19 DEF FailRecord, GiveUp
<1>20. CASE Cleanup
  BY <1>20 DEF Cleanup
<1>21. CASE Restart
  BY <1>21 DEF Restart, Started
<1>21a. CASE FailRestart
  BY <1>21a DEF FailRestart, Started, GiveUp
<1>22. CASE Crash
  BY <1>22 DEF Crash
<1>23. CASE UNCHANGED vars
  BY <1>23 DEF vars
<1>24. QED
  BY <1>0, <1>1, <1>2, <1>3, <1>3a, <1>4, <1>5, <1>6, <1>7, <1>8, <1>9, <1>10, <1>11, <1>12, <1>13, <1>13a,
       <1>14, <1>15, <1>16, <1>16a, <1>17, <1>18, <1>19, <1>20, <1>21, <1>21a, <1>22, <1>23 DEF Next, Step

-----------------------------------------------------------------------------
(* What follows from it.                                                   *)

\* Whatever fails along the way of an update (perform_update), alone or in a chain of
\* updates: the release and the record that were there are there afterwards, unless a step failed that
\* nothing rolls back or only the server did not start; what is recorded is never newer than
\* what runs; the interface stays unless its own swap was cut short or could not be undone;
\* and the server runs again, or the update says that it failed.
THEOREM UpdatesAreSafe == UpdateAssumption /\ Spec => []UpdateSafe
<1>1. UpdateAssumption /\ Init => UpdateInv
  BY InitInv
<1>2. UpdateInv /\ [Next]_vars => UpdateInv'
  BY StepInv
<1>3. UpdateInv => UpdateSafe
  BY DEF UpdateInv, UpdateSafe, AtStep, AtEnd, FoundHonest, UiSound, FailedIsUnchanged, UiThere
<1>4. QED
  BY <1>1, <1>2, <1>3, PTL DEF Spec
=============================================================================
