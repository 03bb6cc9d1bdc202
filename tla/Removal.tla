------------------------------ MODULE Removal ------------------------------
(***************************************************************************)
(* Uninstall and purge: a preflight that changes nothing, then one stage   *)
(* after the other.  A stage may fail, the power may go, and what the      *)
(* preflight has seen may be replaced, started or mounted in between.      *)
(***************************************************************************)
EXTENDS Naturals, Sequences, SequencesExt

CONSTANTS MaxRuns, MaxFaults, MaxEvents

RemovalAssumption == {MaxRuns, MaxFaults, MaxEvents} \subseteq Nat

Processes == {"manager", "loop", "worker"}
Optional == {"service", "hook", "es", "ports", "links", "presentation", "proxies"}
Roots == {"browser", "bin", "venv", "gfx", "runtime", "cache", "data"}     \* removed recursively
Files == {"version", "media", "credentials", "config"}                     \* config: with the ledger of owned roots
Items == Optional \cup Roots \cup Files
ByCatalog == {"presentation", "proxies", "media"}           \* found only through the catalog, which is in data
ByManifest == {"links"}                                     \* and through the manifest of the links, beside it

Uninstall == <<"manager", "loop", "worker", "unmount", "service", "hook", "es", "ports", "links", "presentation",
               "proxies", "browser", "bin", "venv", "gfx", "runtime", "version">>
Purge == Uninstall \o <<"media", "credentials", "cache", "data", "config">>
StagesLedgerFirst(op) ==  \* mutant: the ledger goes before the roots
    IF op = "purge" THEN Uninstall \o <<"media", "credentials", "config", "cache", "data">> ELSE Uninstall
Stages(op) == IF op = "purge" THEN Purge ELSE Uninstall

VARIABLES
    fs,            \* each item: "ours", "foreign" (or unproven), "gone"
    running,       \* which processes run
    busy,          \* a game, a download, a sync
    mount,         \* the share: "none", "outside" of the roots, or "data": below the data root
    share,         \* whether what is on the share is still there
    evidence,      \* whether the data root still holds the catalog and the manifest of the links
    run,           \* the operation: op, the stages to come, what the preflight saw
    report,        \* of the last operation
    out, runs, faults, events

outside == <<running, busy, mount, share, evidence>>
vars == <<fs, outside, run, report, out, runs, faults, events>>

Idle == [op |-> "none", todo |-> <<>>, seen |-> [i \in Items |-> "gone"], mounted |-> FALSE]
NoReport == [i \in Items |-> "none"]
Init ==
    /\ \E f \in {{}, {"service", "hook"}, {"data"}, {"cache", "browser"}} : fs = [i \in Items |-> IF i \in f THEN "foreign" ELSE "ours"]
    /\ running = Processes /\ busy = FALSE /\ mount \in {"none", "outside"} /\ share = TRUE /\ evidence = TRUE
    /\ run = Idle /\ report = NoReport /\ out = "none" /\ runs = 0 /\ faults = 0 /\ events = 0
-----------------------------------------------------------------------------
(* The operation. *)

Active == run.op # "none"
Stage == Head(run.todo)
Runnable == fs["bin"] = "ours" /\ fs["venv"] = "ours" /\ fs["config"] = "ours"

\* The preflight is refused while something is in use, or mounted below a root.
Boundary(r) == r = "data" /\ mount = "data"
Blocked == busy \/ \E r \in Roots : Boundary(r)
Begin(op) ==
    /\ ~Active /\ Runnable /\ runs < MaxRuns /\ runs' = runs + 1 /\ ~Blocked
    /\ run' = [op |-> op, todo |-> Stages(op), seen |-> fs, mounted |-> mount # "none"]
    /\ report' = NoReport /\ out' = "none"
    /\ UNCHANGED <<fs, outside, faults, events>>

\* One stage ends, with an entry in the report and what it removed.
Report(i, how, gone) ==
    /\ report' = [report EXCEPT ![i] = how]
    /\ fs' = IF gone THEN [fs EXCEPT ![i] = "gone"] ELSE fs
    /\ run' = [run EXCEPT !.todo = Tail(@)] /\ UNCHANGED <<out, runs, events>>
StopProcess ==
    /\ Active /\ run.todo # <<>> /\ Stage \in Processes
    /\ running' = running \ {Stage} /\ run' = [run EXCEPT !.todo = Tail(@)]
    /\ UNCHANGED <<fs, busy, mount, share, evidence, report, out, runs, faults, events>>
\* Only what was mounted when the preflight looked is taken down.
Unmount ==
    /\ Active /\ run.todo # <<>> /\ Stage = "unmount"
    /\ mount' = IF run.mounted THEN "none" ELSE mount
    /\ run' = [run EXCEPT !.todo = Tail(@)]
    /\ UNCHANGED <<fs, running, busy, share, evidence, report, out, runs, faults, events>>

\* An optional artifact is removed when it proves itself to be ROMCloud's, and it is looked
\* for only where the catalog or the manifest names it.  Without the catalog the proxies are
\* reported as uncertain, and the presentation and the media not at all; without the
\* manifest the links count as absent.
ProvenByPath(i) == fs[i] # "gone"  \* mutant: whatever is at the path is taken for ours
Proven(i) == fs[i] = "ours"
Found(i) == i \in ByCatalog \cup ByManifest => evidence
Unfound(i) == IF i = "proxies" THEN "uncertain" ELSE IF i \in ByManifest THEN "absent" ELSE "none"
RemoveOptional ==
    /\ Active /\ run.todo # <<>> /\ Stage \in Optional \cup {"version", "media", "credentials"}
    /\ \/ Found(Stage) /\ Proven(Stage) /\ Report(Stage, "removed", TRUE)
       \/ Found(Stage) /\ ~Proven(Stage) /\ Report(Stage, IF fs[Stage] = "gone" THEN "absent" ELSE "uncertain", FALSE)
       \/ ~Found(Stage) /\ Report(Stage, Unfound(Stage), FALSE)
    /\ UNCHANGED <<outside, faults>>
Fault == faults < MaxFaults /\ faults' = faults + 1
FailedReportDone(i) == "removed"  \* mutant: the entry is written before the removal
FailedReport(i) == "warning"
FailOptional ==
    /\ Active /\ run.todo # <<>> /\ Stage \in Optional \ {"links"} /\ fs[Stage] = "ours" /\ Found(Stage) /\ Fault
    /\ Report(Stage, FailedReport(Stage), FALSE) /\ UNCHANGED outside

\* _remove_owned_tree looks again at everything that the preflight has proved.
Same(r) == fs[r] = run.seen[r]
InLedger == fs["config"] = "ours"
SafeOld(r) == run.seen[r] = "ours" /\ Same(r) /\ InLedger  \* mutant: the mounts are not looked at again
Safe(r) == run.seen[r] = "ours" /\ Same(r) /\ InLedger /\ ~Boundary(r)
RemoveTree ==
    /\ Active /\ run.todo # <<>> /\ Stage \in Roots /\ Safe(Stage)
    /\ Report(Stage, "removed", TRUE) /\ share' = (share /\ ~Boundary(Stage))
    /\ evidence' = (evidence /\ Stage # "data") /\ UNCHANGED <<running, busy, mount, faults>>
KeepTree ==
    /\ Active /\ run.todo # <<>> /\ Stage \in Roots /\ run.seen[Stage] # "ours"
    /\ Report(Stage, IF run.seen[Stage] = "gone" THEN "absent" ELSE "uncertain", FALSE) /\ UNCHANGED <<outside, faults>>
RemoveConfig ==
    /\ Active /\ run.todo # <<>> /\ Stage = "config"
    /\ Report("config", "removed", TRUE) /\ UNCHANGED <<outside, faults>>

Over(how) == out' = how /\ run' = Idle /\ UNCHANGED <<fs, outside, report, runs, events>>
\* A required stage fails: on its own, or because a root is no longer what it was.
FailRequired ==
    /\ Active /\ run.todo # <<>>
    /\ \/ Stage \in Processes \cup {"unmount", "links", "version", "media", "credentials"} \cup Roots /\ Found(Stage) /\ Fault
       \/ Stage \in Roots /\ run.seen[Stage] = "ours" /\ ~Safe(Stage) /\ UNCHANGED faults
    /\ Over("failed")
Finish == Active /\ run.todo = <<>> /\ Over(run.op) /\ UNCHANGED faults
Crash == Active /\ Fault /\ Over("crashed")
-----------------------------------------------------------------------------
(* What others do meanwhile. *)

Event == events < MaxEvents /\ events' = events + 1
Replace(i) ==
    /\ Event /\ fs' = [fs EXCEPT ![i] = "foreign"] /\ evidence' = (evidence /\ i # "data")
    /\ UNCHANGED <<running, busy, mount, share, run, report, out, runs, faults>>
Start(p) ==
    /\ Event /\ Runnable /\ p \notin running /\ running' = running \cup {p}
    /\ UNCHANGED <<fs, busy, mount, share, evidence, run, report, out, runs, faults>>
Mount ==
    /\ Event /\ mount = "none" /\ mount' \in {"outside", "data"}
    /\ UNCHANGED <<fs, running, busy, share, evidence, run, report, out, runs, faults>>
Use ==
    /\ Event /\ busy' = ~busy
    /\ UNCHANGED <<fs, running, mount, share, evidence, run, report, out, runs, faults>>
\* The bootstrap installs the program again.
Reinstall ==
    /\ ~Active /\ ~Runnable /\ Event
    /\ fs' = [i \in Items |-> IF i \in {"bin", "venv", "gfx", "runtime", "version", "config"} /\ fs[i] = "gone" THEN "ours" ELSE fs[i]]
    /\ report' = NoReport /\ out' = "none"
    /\ UNCHANGED <<outside, run, runs, faults>>

Next ==
    \/ \E op \in {"uninstall", "purge"} : Begin(op)
    \/ StopProcess \/ Unmount \/ RemoveOptional \/ FailOptional \/ RemoveTree \/ KeepTree \/ RemoveConfig
    \/ FailRequired \/ Finish \/ Crash
    \/ \E i \in {"hook", "bin", "data"} : Replace(i)
    \/ \E p \in Processes : Start(p)
    \/ Mount \/ Use \/ Reinstall
Spec == Init /\ [][Next]_vars
-----------------------------------------------------------------------------
TypeOK ==
    /\ fs \in [Items -> {"ours", "foreign", "gone"}] /\ running \subseteq Processes
    /\ {busy, share, evidence} \subseteq BOOLEAN /\ mount \in {"none", "outside", "data"}
    /\ report \in [Items -> {"none", "removed", "absent", "uncertain", "warning"}]
    /\ run.op \in {"none", "uninstall", "purge"} /\ out \in {"none", "uninstall", "purge", "failed", "crashed"}

\* What is not proved to be ROMCloud's is never removed, also when it took the
\* place of something that the preflight had seen.
ForeignKeptStep == \A i \in Items : fs[i] = "foreign" => fs'[i] = "foreign"
ForeignKept == [][ForeignKeptStep]_vars

\* "A mount boundary": what lies on a share is never deleted through a mount that
\* appeared after the preflight.
ShareKept == share

\* A removal that says it succeeded has removed everything it was to remove or says that it
\* is left, but for what it no longer looks for: when the data root was replaced or removed
\* before, the presentation and the media are passed over in silence, and the links called absent.
PassedOver(i) == ~evidence /\ i \in {"presentation", "media"} /\ report[i] = "none"
CalledAbsent(i) == ~evidence /\ i \in ByManifest /\ report[i] = "absent"
LeftIsReported ==
    \A op \in {"uninstall", "purge"} : out = op =>
        \A i \in ToSet(Stages(op)) \cap Items :
            fs[i] = "ours" => report[i] \in {"uncertain", "warning"} \/ PassedOver(i) \/ CalledAbsent(i)

\* Wherever an operation was cut short: as long as a root of ROMCloud's is left,
\* the configuration and the ledger that prove it are there for the next try.
EvidenceKept == (\E r \in Roots : fs[r] = "ours") => fs["config"] # "gone"
=============================================================================
