------------------------------ MODULE Startup -------------------------------
(***************************************************************************)
(* The startup service of ROMCloud and what the interface says of it: the  *)
(* service script is written and enabled, a restart is asked for, the next *)
(* boot tries to start the library server and records how that went        *)
(* (startup_activation.py, integrations/batocera/mount_service.py and the  *)
(* boot and start commands of cli/commands/uidata.py).                     *)
(***************************************************************************)
EXTENDS Naturals, FiniteSets

CONSTANTS
    MaxBoots, MaxInstalls, MaxStarts, MaxFaults

StartupAssumption == MaxBoots \in Nat \ {0} /\ {MaxInstalls, MaxStarts, MaxFaults} \subseteq Nat

Scripts == {"none", "current", "older", "foreign"}
Records == [restart : BOOLEAN, changed : 0..MaxBoots, attempt : 0..MaxBoots, status : {"none", "starting", "failed"}]
NoRecord == [restart |-> FALSE, changed |-> 0, attempt |-> 0, status |-> "none"]

VARIABLES
    script, older,       \* the service scripts, at the present path and at the one of earlier releases
    enabled,             \* Batocera starts the service
    record,              \* startup-integration.json
    boot, serves,        \* the boot id; the library server
    legacy,              \* save routes of an earlier release, retired at boot
    install, start,      \* an installation, and a start of the server
    changedAt,           \* history: the boot in which the integration was last changed
    cut, pending,        \* history: an installation was cut short; a change met an older notice
    failedAt,            \* history: the boot whose start failed, and nothing succeeded after it
    installs, starts, faults

files == <<script, older, enabled>>
history == <<changedAt, cut, pending, failedAt>>
bounds == <<installs, starts, faults>>
vars == <<files, record, boot, serves, legacy, install, start, history, bounds>>

Idle == [pc |-> "idle", changed |-> FALSE, was |-> FALSE]
At(pc) == install.pc = pc
Goto(pc) == install' = [install EXCEPT !.pc = pc]

Init ==
    /\ script \in Scripts \ {"current"} /\ older \in Scripts /\ enabled = FALSE
    /\ record = NoRecord /\ boot = 1 /\ serves = FALSE /\ legacy \in BOOLEAN
    /\ install = Idle /\ start = "idle"
    /\ changedAt = 0 /\ cut = FALSE /\ pending = FALSE /\ failedAt = 0
    /\ installs = 0 /\ starts = 0 /\ faults = 0
-----------------------------------------------------------------------------
(* startup_activation. *)

Failed == record.status = "failed" /\ (~record.restart \/ (record.attempt # 0 /\ record.changed # record.attempt))
LaterBoot == record.changed # boot
Status ==
    CASE Failed -> "failed"
      [] ~Failed /\ ~record.restart -> "quiet"
      [] ~Failed /\ record.restart /\ LaterBoot /\ record.attempt # boot -> "failed"
      [] ~Failed /\ record.restart /\ LaterBoot /\ record.attempt = boot /\ record.status = "starting" -> "starting"
      [] OTHER -> "restart"
\* A notice that is there already is left as it is, whatever boot it is of.
MarkedNever == record                                            \* mutant: the change is not announced
Marked == IF record.restart THEN record ELSE [NoRecord EXCEPT !.restart = TRUE, !.changed = boot]
Attempted == [record EXCEPT !.attempt = boot, !.status = "starting"]
NoFailure == record                                              \* mutant: the failure is not recorded
WithFailure == [record EXCEPT !.attempt = boot, !.status = "failed"]
ActivatedAtOnce == NoRecord                                      \* mutant: any start clears the notice
Activated == IF record.restart /\ ~LaterBoot THEN record ELSE NoRecord
-----------------------------------------------------------------------------
(* install_service and remove_service. *)

Install ==
    /\ At("idle") /\ installs < MaxInstalls /\ installs' = installs + 1
    /\ install' = [pc |-> "write", changed |-> script # "current", was |-> enabled]
    /\ UNCHANGED <<files, record, boot, serves, legacy, start, history, starts, faults>>
Write ==
    /\ At("write") /\ script' = "current" /\ Goto("enable")
    /\ older' = IF older = "foreign" THEN older ELSE "none"
    /\ changedAt' = IF install.changed /\ enabled THEN boot ELSE changedAt
    /\ pending' = (pending \/ (install.changed /\ enabled /\ record.restart /\ LaterBoot))
    /\ UNCHANGED <<enabled, record, boot, serves, legacy, start, cut, failedAt, bounds>>
\* batocera-services may be missing, run out of time or not persist it.
Enable ==
    /\ At("enable") /\ Goto("mark")
    /\ IF install.was THEN UNCHANGED <<enabled, changedAt, pending>>
       ELSE /\ enabled' \in BOOLEAN
            /\ changedAt' = IF enabled' THEN boot ELSE changedAt
            /\ pending' = (pending \/ (enabled' /\ record.restart /\ LaterBoot))
    /\ UNCHANGED <<script, older, record, boot, serves, legacy, start, cut, failedAt, bounds>>
Mark ==
    /\ At("mark") /\ install' = Idle
    /\ record' = IF enabled /\ (install.changed \/ ~install.was) THEN Marked ELSE record
    /\ UNCHANGED <<files, boot, serves, legacy, start, history, bounds>>
CutShort ==
    /\ ~At("idle") /\ faults < MaxFaults /\ faults' = faults + 1
    /\ install' = Idle /\ cut' = TRUE
    /\ UNCHANGED <<files, record, boot, serves, legacy, start, changedAt, pending, failedAt, installs, starts>>
\* A release that generates another script.
Upgrade ==
    /\ At("idle") /\ script = "current" /\ script' = "older"
    /\ UNCHANGED <<older, enabled, record, boot, serves, legacy, install, start, history, bounds>>
\* Only the script that is exactly the generated one is ROMCloud's.
Remove ==
    /\ At("idle") /\ "current" \in {script, older}
    /\ script' = IF script = "current" THEN "none" ELSE script
    /\ older' = IF older = "current" THEN "none" ELSE older
    /\ enabled' \in {enabled, FALSE} /\ install' = Idle
    /\ UNCHANGED <<record, boot, serves, legacy, start, history, bounds>>
-----------------------------------------------------------------------------
(* A boot, and the starts of the library server. *)

\* The service runs where it is enabled; Batocera may still not run it.
Reboot ==
    /\ boot < MaxBoots /\ boot' = boot + 1 /\ serves' = FALSE
    /\ install' = Idle /\ cut' = (cut \/ ~At("idle")) /\ failedAt' = 0
    /\ start' \in IF enabled /\ script \in {"current", "older"} THEN {"boot", "idle"} ELSE {"idle"}
    /\ UNCHANGED <<files, record, legacy, changedAt, pending, bounds>>
\* manager-boot-start: the attempt is recorded first.
Attempt ==
    /\ start = "boot" /\ record' = Attempted /\ start' = "retire"
    /\ UNCHANGED <<files, boot, serves, legacy, install, history, bounds>>
Retire ==
    /\ start = "retire" /\ legacy' = FALSE /\ start' = "booting"
    /\ UNCHANGED <<files, record, boot, serves, install, history, bounds>>
BootFails ==
    /\ start \in {"retire", "booting"} /\ faults < MaxFaults /\ faults' = faults + 1
    /\ record' = WithFailure /\ start' = "idle" /\ failedAt' = boot
    /\ UNCHANGED <<files, boot, serves, legacy, install, changedAt, cut, pending, installs, starts>>
\* manager-start of the interface: a failure changes nothing.
ByHand ==
    /\ start = "idle" /\ starts < MaxStarts /\ starts' = starts + 1 /\ start' = "byhand"
    /\ UNCHANGED <<files, record, boot, serves, legacy, install, history, installs, faults>>
Serve ==
    /\ start \in {"booting", "byhand"} /\ serves' = TRUE /\ start' = "active"
    /\ UNCHANGED <<files, record, boot, legacy, install, history, bounds>>
Activate ==
    /\ start = "active" /\ record' = Activated /\ start' = "idle" /\ failedAt' = 0
    /\ UNCHANGED <<files, boot, serves, legacy, install, changedAt, cut, pending, bounds>>
\* startup-integration-activated: the server must be healthy.
Confirm ==
    /\ start = "idle" /\ serves /\ record # Activated /\ record' = Activated /\ failedAt' = 0
    /\ UNCHANGED <<files, boot, serves, legacy, install, start, changedAt, cut, pending, bounds>>

Next ==
    \/ Install \/ Write \/ Enable \/ Mark \/ CutShort \/ Upgrade \/ Remove
    \/ Reboot \/ Attempt \/ Retire \/ BootFails \/ ByHand \/ Serve \/ Activate \/ Confirm
Spec == Init /\ [][Next]_vars
-----------------------------------------------------------------------------
TypeOK ==
    /\ script \in Scripts /\ older \in Scripts /\ enabled \in BOOLEAN
    /\ record \in Records /\ boot \in 1..MaxBoots /\ {changedAt, failedAt} \subseteq 0..MaxBoots
    /\ start \in {"idle", "boot", "retire", "booting", "byhand", "active"} /\ serves \in BOOLEAN

\* A change of the integration is not taken for active in the boot that made it:
\* once an installation has ended, whatever is started, retried or recorded
\* besides, the interface asks for a restart.
RestartShown ==
    (At("idle") /\ changedAt = boot /\ enabled /\ ~cut /\ ~pending) => Status = "restart"

\* "Clear pending state only after a successful start on a later boot".
ClearedLaterStep == record.restart /\ ~record'.restart => changedAt < boot \/ cut
\* The same, unless the change was made while an older notice was pending.
ClearedUnlessPendingStep == ~pending => ClearedLaterStep
ClearedUnlessPending == [][ClearedUnlessPendingStep]_vars
ClearedLater == [][ClearedLaterStep]_vars

\* A boot whose start failed says so until a start succeeds, or the integration
\* has changed again.
FailureShown ==
    (failedAt = boot /\ start = "idle" /\ changedAt # boot) => Status = "failed"
=============================================================================
