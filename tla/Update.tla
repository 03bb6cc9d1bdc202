------------------------------ MODULE Update ------------------------------
(***************************************************************************)
(* A software update on the device: a candidate environment is built and   *)
(* tried, takes the place of the live one, reconciles the launchers and    *)
(* the Ports interface in a child process, and is recorded.  Every step    *)
(* may fail, the child may be killed, and the power may go at any point.   *)
(***************************************************************************)
EXTENDS Naturals, FiniteSets

CONSTANTS Releases, None, MaxUpdates,
          Torn        \* a version file that was not written to its end

UpdateAssumption == MaxUpdates \in Nat /\ 0 \in Releases /\ {None, Torn} \cap Releases = {}
Faults == {"crash", "kill", "ui", "activate", "rollback", "record", "restart"}

VARIABLES
    live, candidate, backup,    \* the environments: in use, staged, moved away
    ui, uiBefore,               \* the payload of the Ports interface, and the one moved away
    record,                     \* version.json
    manager, wasRunning,        \* the library server; whether the update has stopped it
    pc, target, out,            \* the step of the update, what it installs, how the last one ended
    before,                     \* history: what was installed when the update began
    faults,                     \* history: the faults of this update that perform_update does not roll back in
                                \* full, and the loss of power of any
    updates

vars == <<live, candidate, backup, ui, uiBefore, record, manager, wasRunning, pc, target, out, before, faults, updates>>
places == <<live, candidate, backup>>
Installed == [live |-> live, ui |-> ui, record |-> record]

Init ==
    /\ live = 0 /\ ui = 0 /\ record = 0 /\ candidate = None /\ backup = None /\ uiBefore = None
    /\ manager \in BOOLEAN /\ wasRunning = FALSE /\ pc = "idle" /\ target = None /\ out = "none"
    /\ before = Installed /\ faults = {} /\ updates = 0
-----------------------------------------------------------------------------
(* Before anything installed is touched. *)

\* check_for_update: a version file that cannot be read counts as out of date.
Available(r) == record = Torn \/ record # r
Begin(r) ==
    /\ pc = "idle" /\ live # None /\ updates < MaxUpdates /\ updates' = updates + 1
    /\ Available(r) /\ target' = r /\ before' = Installed /\ out' = "none" /\ wasRunning' = FALSE
    /\ pc' = "staging" /\ faults' = faults \cap {"crash"} /\ UNCHANGED <<places, ui, uiBefore, record, manager>>
\* Download, unpack, validate, build, smoke test.
Stage ==
    /\ pc = "staging" /\ candidate' = target /\ pc' = "staged"
    /\ UNCHANGED <<live, backup, ui, uiBefore, record, manager, wasRunning, target, out, before, faults, updates>>
GiveUp(to) == out' = "failed" /\ pc' = to
\* The steps from which an error goes straight to the cleanup.
FailPlainly ==
    /\ pc \in {"staging", "staged", "stopped"} /\ GiveUp("cleanup")
    /\ UNCHANGED <<places, ui, uiBefore, record, manager, wasRunning, target, before, faults, updates>>
StopManager ==
    /\ pc = "staged" /\ wasRunning' = manager /\ manager' = FALSE /\ pc' = "stopped"
    /\ UNCHANGED <<places, ui, uiBefore, record, target, out, before, faults, updates>>
\* It may have ended when the stop is given up.
FailStop ==
    /\ pc = "staged" /\ manager /\ wasRunning' = TRUE /\ manager' \in BOOLEAN /\ GiveUp("cleanup")
    /\ UNCHANGED <<places, ui, uiBefore, record, target, before, faults, updates>>
-----------------------------------------------------------------------------
(* The activation. *)

MoveAway ==
    /\ pc = "stopped" /\ backup' = live /\ live' = None /\ pc' = "moved"
    /\ UNCHANGED <<candidate, ui, uiBefore, record, manager, wasRunning, target, out, before, faults, updates>>
Activate ==
    /\ pc = "moved" /\ live' = candidate /\ candidate' = None /\ pc' = "wrappers"
    /\ UNCHANGED <<backup, ui, uiBefore, record, manager, wasRunning, target, out, before, faults, updates>>
\* The second rename is outside of the part that rolls back.
FailActivate ==
    /\ pc = "moved" /\ GiveUp("cleanup")
    /\ faults' = faults \cup {"activate"}
    /\ UNCHANGED <<places, ui, uiBefore, record, manager, wasRunning, target, before, updates>>
-----------------------------------------------------------------------------
(* The child process: the wrappers are required, the rest is best effort. *)

Wrappers ==
    /\ pc = "wrappers" /\ pc' = "ui"
    /\ UNCHANGED <<places, ui, uiBefore, record, manager, wasRunning, target, out, before, faults, updates>>
FailWrappers ==
    /\ pc = "wrappers" /\ GiveUp("rollback")
    /\ UNCHANGED <<places, ui, uiBefore, record, manager, wasRunning, target, before, faults, updates>>
\* No Python with pygame, no payload in the archive, or a copy that is not complete.
SkipUi ==
    /\ pc = "ui" /\ pc' = "rest"
    /\ UNCHANGED <<places, ui, uiBefore, record, manager, wasRunning, target, out, before, faults, updates>>
UiAway ==
    /\ pc = "ui" /\ uiBefore' = ui /\ ui' = None /\ pc' = "ui_in"
    /\ UNCHANGED <<places, record, manager, wasRunning, target, out, before, faults, updates>>
UiIn ==
    /\ pc = "ui_in" /\ ui' = target /\ pc' = "ui_wrap"
    /\ UNCHANGED <<places, uiBefore, record, manager, wasRunning, target, out, before, faults, updates>>
UiDone ==
    /\ pc = "ui_wrap" /\ uiBefore' = None /\ pc' = "rest"
    /\ UNCHANGED <<places, ui, record, manager, wasRunning, target, out, before, faults, updates>>
UiPutBackNot(u, b) == u                                          \* mutant: a failed swap is left as it is
UiPutBack(u, b) == IF b # None THEN b ELSE u
FailUi ==
    /\ pc \in {"ui_in", "ui_wrap"} /\ ui' = UiPutBack(ui, uiBefore) /\ uiBefore' = None /\ pc' = "rest"
    /\ UNCHANGED <<places, record, manager, wasRunning, target, out, before, faults, updates>>
\* Putting it back fails too, which is logged: the new one, or none, stays, and the old one
\* lies under a name that nobody looks for.
StrandUi ==
    /\ pc \in {"ui_in", "ui_wrap"} /\ uiBefore # None /\ ui' \in {ui, None} /\ uiBefore' = None /\ pc' = "rest"
    /\ faults' = faults \cup {"ui"}
    /\ UNCHANGED <<places, record, manager, wasRunning, target, out, before, updates>>
\* The service, the override, the gamelist, the hook, the proxies: warnings at worst.
Rest ==
    /\ pc = "rest" /\ pc' = "record"
    /\ UNCHANGED <<places, ui, uiBefore, record, manager, wasRunning, target, out, before, faults, updates>>
\* The child runs out of its time and is killed.
Kill ==
    /\ pc \in {"wrappers", "ui", "ui_in", "ui_wrap", "rest"} /\ GiveUp("rollback")
    /\ faults' = faults \cup {"kill"}
    /\ UNCHANGED <<places, ui, uiBefore, record, manager, wasRunning, target, before, updates>>
RestoredNew(b, l) == l                                           \* mutant: the new environment stays
Restored(b, l) == IF b # None THEN b ELSE None
Rollback ==
    /\ pc = "rollback" /\ live' = Restored(backup, live) /\ backup' = None /\ pc' = "cleanup"
    /\ UNCHANGED <<candidate, ui, uiBefore, record, manager, wasRunning, target, out, before, faults, updates>>
\* The new environment is deleted first; when the old one cannot be moved back then, none is
\* in its place, and the old one goes with the temporary directory.
FailRollback ==
    /\ pc = "rollback" /\ live' = None /\ pc' = "cleanup" /\ faults' = faults \cup {"rollback"}
    /\ UNCHANGED <<candidate, backup, ui, uiBefore, record, manager, wasRunning, target, out, before, updates>>
-----------------------------------------------------------------------------
(* The end. *)

RecordStale(t) == before.record                                  \* mutant: the version is not written
Recorded(t) == t
OpenRecord ==
    /\ pc = "record" /\ record' = Torn /\ pc' = "recording"
    /\ UNCHANGED <<places, ui, uiBefore, manager, wasRunning, target, out, before, faults, updates>>
CloseRecord ==
    /\ pc = "recording" /\ record' = Recorded(target) /\ out' = "installed" /\ pc' = "cleanup"
    /\ UNCHANGED <<places, ui, uiBefore, manager, wasRunning, target, before, faults, updates>>
FailRecord ==
    /\ pc = "recording" /\ GiveUp("cleanup")
    /\ faults' = faults \cup {"record"}
    /\ UNCHANGED <<places, ui, uiBefore, record, manager, wasRunning, target, before, updates>>
\* The temporary directory goes, with all that is in it.
Cleanup ==
    /\ pc = "cleanup" /\ candidate' = None /\ backup' = None /\ pc' = "restart"
    /\ UNCHANGED <<live, ui, uiBefore, record, manager, wasRunning, target, out, before, faults, updates>>
StartedNever(was) == FALSE                                       \* mutant: only a success starts it again
Started(was) == was
\* start_manager: one that runs is enough, else the live environment must start one.
Restart ==
    /\ pc = "restart" /\ pc' = "idle"
    /\ Started(wasRunning) /\ ~manager => live # None
    /\ manager' = (manager \/ Started(wasRunning))
    /\ UNCHANGED <<places, ui, uiBefore, record, wasRunning, target, out, before, faults, updates>>
\* Its port is taken, it ends at once or is not ready in time, or there is nothing to start:
\* the error takes the place of the result of the update, whatever that was.
FailRestart ==
    /\ pc = "restart" /\ Started(wasRunning) /\ ~manager /\ GiveUp("idle")
    /\ faults' = faults \cup {"restart"}
    /\ UNCHANGED <<places, ui, uiBefore, record, manager, wasRunning, target, before, updates>>
\* The power goes: what is on disk stays, and no later run looks for it.
Crash ==
    /\ pc # "idle" /\ pc' = "idle" /\ manager' = FALSE /\ faults' = faults \cup {"crash"} /\ out' = "crashed"
    /\ candidate' = None /\ backup' = None /\ uiBefore' = None
    /\ UNCHANGED <<live, ui, record, wasRunning, target, before, updates>>

Step ==
    \/ Stage \/ FailPlainly \/ StopManager \/ FailStop \/ MoveAway \/ Activate \/ FailActivate
    \/ Wrappers \/ FailWrappers \/ SkipUi \/ UiAway \/ UiIn \/ UiDone \/ FailUi \/ StrandUi \/ Rest \/ Kill \/ Rollback
    \/ FailRollback
    \/ OpenRecord \/ CloseRecord \/ FailRecord \/ Cleanup \/ Restart \/ FailRestart
Next == (\E r \in Releases : Begin(r)) \/ Step \/ Crash
Spec == Init /\ [][Next]_vars
-----------------------------------------------------------------------------
\* Environments and records are releases, or not there.
TypeOK ==
    /\ {live, candidate, backup, ui, uiBefore, target} \subseteq Releases \cup {None}
    /\ record \in Releases \cup {None, Torn} /\ {manager, wasRunning} \subseteq BOOLEAN /\ faults \subseteq Faults
    /\ out \in {"none", "installed", "failed", "crashed"} /\ updates \in 0..MaxUpdates

\* "a failure anywhere along the way leaves the previous version.json and the
\* previously installed backend/wrappers untouched": also after a chain of
\* updates of which some failed.  It takes that the second rename, the rename of the rollback and
\* the write of the record, which nothing rolls back, did not fail in this one; and an
\* update that says it failed may be installed as a whole, when only the server did not start.
FailedIsUnchanged ==
    (pc = "idle" /\ out = "failed" /\ faults \cap {"activate", "rollback", "record"} = {}) =>
        \/ live = before.live /\ record = before.record
        \/ "restart" \in faults /\ live = target /\ record = target
\* The same of the interface, whose payload belongs to the backend it talks to.
FailedKeepsUi == (pc = "idle" /\ out = "failed") => ui = before.ui

\* What is recorded is what runs: after a crash only the older release may be
\* recorded, so that the next check offers the update again, never the newer one.
RecordHonest ==
    (pc = "idle" /\ record \in Releases /\ live # None)
        => record = live \/ ("crash" \in faults /\ record = before.record)

\* The interface is never lost by an update, whichever of its own steps failed: only the power
\* or the kill of the child in the middle of the swap takes it, or a swap whose undoing failed.
UiThere ==
    (pc = "idle" /\ out # "crashed" /\ before.ui # None /\ faults \cap {"kill", "ui"} = {}) => ui # None

\* A server that the update has stopped is running again at its end, whether the update was
\* installed, failed or was rolled back, or the update says that it failed.  Without an
\* environment in its place it is always the latter.
ManagerReturns ==
    (pc = "idle" /\ wasRunning /\ out # "crashed") => manager \/ (out = "failed" /\ "restart" \in faults)

\* An update that failed leaves what was installed and recorded before it, but for what
\* nothing rolls back; what is recorded is what runs, and a server that stays down is reported.
UpdateSafe == TypeOK /\ FailedIsUnchanged /\ RecordHonest /\ UiThere /\ ManagerReturns
=============================================================================
