------------------------------- MODULE Setup --------------------------------
(***************************************************************************)
(* The setup of a device (lifecycle/setup.py): a request is validated, the *)
(* configuration and the passwords are replaced, the shares are mounted,   *)
(* the games are catalogued, SaveSync gets its baseline, and the roots are *)
(* claimed.  A step may fail, and then what was there before is put back;  *)
(* the process or the power may also go between any two of them.           *)
(*                                                                         *)
(* A source or a remote dataset is a server with a share.  All sources     *)
(* have a share of the same name, as a player's servers may: the check of  *)
(* a read-only mount compares the share and not the server.                *)
(***************************************************************************)
EXTENDS Naturals, FiniteSets

CONSTANTS
    Sources, Remotes, Caches,    \* what a player may enter
    None, Torn,                  \* nothing; a configuration that cannot be loaded
    MaxSetups, MaxFaults, MaxEvents

SetupAssumption ==
    /\ {None, Torn} \cap (Sources \cup Remotes) = {} /\ None # Torn
    /\ {MaxSetups, MaxFaults, MaxEvents} \subseteq Nat

Roles == {"source", "remote"}
Places(role) == {None} \cup (IF role = "source" THEN Sources ELSE Remotes)
Request == [source : Places("source"), remote : Places("remote"), cache : Caches]
Nowhere == [role \in Roles |-> None]

VARIABLES
    config, secrets,     \* romcloud.toml; per role, what the stored password belongs to
    note,                \* setup-state.json
    mounted,             \* what is mounted for each role
    baseline,            \* the dataset that the baseline of SaveSync was made with
    ledger,              \* the cache that uninstalling may delete
    home,                \* the cache inside the ROMCloud home, if it may be entered; the home is owned
    taken,               \* caches with files that are not ROMCloud's
    online,              \* the servers answer
    legacy,              \* save routes of an earlier release are still to be migrated
    run,                 \* the setup that runs
    before,              \* history: what the setup found, but for mounts of others
    complete, spoiled,   \* history: configurations that a setup completed; setups that did not
    claimed,             \* history: the caches claimed, with what they held when claimed and when looked at
    setups, faults, events

disk == <<config, secrets, note>>
device == <<mounted, baseline, ledger>>
given == <<home, online, taken, legacy, events>>
history == <<before, complete, spoiled, claimed>>
vars == <<disk, device, given, run, history, setups, faults>>

NoRun == [pc |-> "idle", req |-> None, old |-> None, secrets |-> Nowhere, existing |-> None,
          fresh |-> {}, claimable |-> FALSE, dirty |-> FALSE]
At(pc) == run.pc = pc
Mounting == [source |-> "mount source", remote |-> "mount remote"]
Unmounting == [source |-> "unmount source", remote |-> "unmount remote"]
Goto(pc) == run' = [run EXCEPT !.pc = pc]

Init ==
    /\ config = None /\ secrets = Nowhere /\ note = "none"
    /\ mounted = Nowhere /\ baseline = None /\ ledger = None
    /\ home \in Caches \cup {None} /\ taken \in SUBSET Caches /\ legacy \in BOOLEAN /\ online = TRUE
    /\ run = NoRun /\ complete = {} /\ spoiled = 0 /\ claimed = {}
    /\ before = [config |-> None, secrets |-> Nowhere, mounted |-> Nowhere, taken |-> taken]
    /\ setups = 0 /\ faults = 0 /\ events = 0
-----------------------------------------------------------------------------
(* What is read of the device. *)

Loaded(c) == c \in Request
Existing == IF Loaded(config) THEN config ELSE None
\* _structural_issues: what is configured has a password.
Sound(c, s) == Loaded(c) /\ \A role \in Roles : c[role] # None => s[role] # None
State ==
    IF note # "none" \/ (config # None /\ ~Sound(config, secrets)) THEN "partial"
    ELSE IF config = None THEN "fresh" ELSE "configured"

\* SetupRequest.validate.
Acceptable(req) == req.source # None \/ req.remote # None
\* The look at the servers, before anything is written.
Validated(req) == online
\* A legacy manifest keeps the identity of its provider.
MayChange(req) == legacy /\ Loaded(config) => req.remote = config.remote
ReinitializesNever(old, req) == FALSE                            \* mutant: a ready baseline is always kept
Reinitializes(old, req) == old = None \/ old.remote # req.remote
ClaimableAny(cache) == TRUE                                      \* mutant: any directory is claimed
Claimable(cache) == ledger = cache \/ cache = home \/ cache \notin taken
-----------------------------------------------------------------------------
(* The setup, step by step. *)

Begin(req) ==
    /\ At("idle") /\ setups < MaxSetups /\ setups' = setups + 1
    /\ Acceptable(req) /\ Validated(req) /\ MayChange(req)
    /\ run' = [NoRun EXCEPT !.pc = "config", !.req = req, !.claimable = Claimable(req.cache),
                            !.existing = Existing,
                            !.old = IF Sound(config, secrets) THEN config ELSE None,
                            !.secrets = secrets]
    /\ note' = "applying"
    /\ before' = [config |-> config, secrets |-> secrets, mounted |-> mounted, taken |-> taken]
    /\ UNCHANGED <<config, secrets, device, given, complete, spoiled, claimed, faults>>

WriteConfig ==
    /\ At("config") /\ config' = run.req /\ Goto("secrets")
    /\ UNCHANGED <<secrets, note, device, given, history, setups, faults>>
\* Passwords of roles that are not asked for stay.
WriteSecrets ==
    /\ At("secrets") /\ Goto("mount source")
    /\ secrets' = [role \in Roles |-> IF run.req[role] = None THEN secrets[role] ELSE run.req[role]]
    /\ UNCHANGED <<config, note, device, given, history, setups, faults>>

\* mount_cifs_source: what is mounted already must be the share that is wanted;
\* the server is compared for the remote dataset only.
Matches(role, place) == role = "source" \/ mounted[role] = place
Onward(role) == IF role = "source" THEN "mount remote" ELSE "probe"
FreshAll(role) == run.fresh \cup {role}                          \* mutant: mounts that were there count as new
Fresh(role) == IF mounted[role] = None THEN run.fresh \cup {role} ELSE run.fresh
Mount(role) ==
    /\ At(Mounting[role])
    /\ LET place == run.req[role]
       IN  IF place = None THEN Goto(Onward(role)) /\ UNCHANGED mounted
           ELSE /\ IF mounted[role] = None THEN online ELSE Matches(role, place)
                /\ mounted' = [mounted EXCEPT ![role] = IF @ = None THEN place ELSE @]
                /\ run' = [run EXCEPT !.pc = Onward(role), !.fresh = Fresh(role)]
    /\ UNCHANGED <<disk, baseline, ledger, given, history, setups, faults>>
\* Something else is mounted there, or the server does not answer any more.
MountRefused(role) ==
    /\ At(Mounting[role]) /\ run.req[role] # None
    /\ IF mounted[role] = None THEN ~online ELSE ~Matches(role, run.req[role])
    /\ Goto("unmount remote")
    /\ UNCHANGED <<disk, device, given, history, setups, faults>>
\* The ROM library can be read, the dataset read and written; the catalog is refreshed.
Probe ==
    /\ At("probe") /\ Goto("baseline")
    /\ UNCHANGED <<disk, device, given, history, setups, faults>>
\* The Initial Full Sync, if the baseline is missing or was made with other settings.
InitialSync ==
    /\ At("baseline") /\ Goto("games")
    /\ baseline' = IF run.req.remote # None /\ (baseline = None \/ Reinitializes(run.existing, run.req))
                   THEN run.req.remote ELSE baseline
    /\ UNCHANGED <<disk, mounted, ledger, given, history, setups, faults>>
\* reconcile_game_access is the last step that can fail.
ShowGames ==
    /\ At("games") /\ Goto("claim")
    /\ UNCHANGED <<disk, device, given, history, setups, faults>>
\* What was claimable when the setup began is claimed; nothing looks again.
Claim ==
    /\ At("claim") /\ Goto("end")
    /\ ledger' = IF run.claimable THEN run.req.cache ELSE ledger
    /\ claimed' = IF ledger' = ledger THEN claimed
                  ELSE claimed \cup {[cache |-> ledger', held |-> ledger' \in taken, had |-> ledger' \in before.taken]}
    /\ UNCHANGED <<disk, mounted, baseline, given, before, complete, spoiled, setups, faults>>
Finish ==
    /\ At("end") /\ note' = "none" /\ run' = NoRun /\ complete' = complete \cup {config}
    /\ UNCHANGED <<config, secrets, device, given, before, spoiled, claimed, setups, faults>>
-----------------------------------------------------------------------------
(* A step that failed, and what is put back. *)

Fail ==
    /\ run.pc \in {"config", "secrets", "mount source", "mount remote", "probe", "baseline", "games"}
    /\ faults < MaxFaults /\ faults' = faults + 1
    /\ Goto("unmount remote")
    /\ UNCHANGED <<disk, device, given, history, setups>>
Then(role) == IF role = "remote" THEN "unmount source" ELSE "restore"
\* Every new mount is tried; one that cannot be taken down is remembered.
Unmount(role) ==
    /\ At(Unmounting[role])
    /\ IF role \notin run.fresh THEN Goto(Then(role)) /\ UNCHANGED <<mounted, faults>>
       ELSE \/ /\ mounted' = [mounted EXCEPT ![role] = None] /\ Goto(Then(role)) /\ UNCHANGED faults
            \/ /\ faults < MaxFaults /\ faults' = faults + 1
               /\ run' = [run EXCEPT !.pc = Then(role), !.dirty = TRUE] /\ UNCHANGED mounted
    /\ UNCHANGED <<disk, baseline, ledger, given, history, setups>>
\* The file is opened for writing, and written: this write is not atomic.
Restore ==
    /\ At("restore")
    /\ IF run.old = None THEN Goto("note") /\ UNCHANGED config ELSE config' = Torn /\ Goto("restoring")
    /\ UNCHANGED <<secrets, note, device, given, history, setups, faults>>
Restored ==
    /\ At("restoring") /\ config' = run.old /\ Goto("restore secrets")
    /\ UNCHANGED <<secrets, note, device, given, history, setups, faults>>
OldSecretsKept == secrets                                        \* mutant: the new passwords stay
OldSecrets == run.secrets
RestoreSecrets ==
    /\ At("restore secrets") /\ secrets' = OldSecrets /\ Goto("note")
    /\ UNCHANGED <<config, note, device, given, history, setups, faults>>
FinalNoteAlways == "none"                                        \* mutant: a failure leaves no note
FinalNote == IF run.old = None \/ run.dirty THEN "failed" ELSE "none"
Report ==
    /\ At("note") /\ note' = FinalNote /\ run' = NoRun /\ spoiled' = spoiled + 1
    /\ UNCHANGED <<config, secrets, device, given, before, complete, claimed, setups, faults>>
-----------------------------------------------------------------------------
(* The surroundings. *)

\* The process ends, or the power and with it the mounts.
Crash ==
    /\ ~At("idle") /\ faults < MaxFaults /\ faults' = faults + 1
    /\ run' = NoRun /\ spoiled' = spoiled + 1 /\ mounted' \in {mounted, Nowhere}
    /\ UNCHANGED <<disk, baseline, ledger, given, before, complete, claimed, setups>>
Event == events < MaxEvents /\ events' = events + 1
\* The mount worker of the boot, or a repair.
WorkerMounts(role) ==
    /\ Event /\ online /\ Loaded(config) /\ mounted[role] = None /\ config[role] # None
    /\ mounted' = [mounted EXCEPT ![role] = config[role]]
    /\ before' = [before EXCEPT !.mounted[role] = config[role]]
    /\ UNCHANGED <<disk, baseline, ledger, home, online, taken, legacy, run, complete, spoiled, claimed, setups, faults>>
Outage ==
    /\ Event /\ online' = FALSE
    /\ UNCHANGED <<disk, device, home, taken, legacy, run, history, setups, faults>>
\* A reboot, or the mounts are stopped.
MountsGo ==
    /\ Event /\ At("idle") /\ mounted' = Nowhere
    /\ UNCHANGED <<disk, baseline, ledger, home, online, taken, legacy, run, history, setups, faults>>
\* A player puts files of his own where no cache is claimed.
Occupy(cache) ==
    /\ Event /\ cache # ledger /\ taken' = taken \cup {cache}
    /\ UNCHANGED <<disk, device, home, online, legacy, run, history, setups, faults>>
Migrate ==
    /\ Event /\ At("idle") /\ legacy /\ legacy' = FALSE
    /\ UNCHANGED <<disk, device, home, online, taken, run, history, setups, faults>>

Step == WriteConfig \/ WriteSecrets \/ Probe \/ InitialSync \/ ShowGames \/ Claim \/ Finish
        \/ Fail \/ Restore \/ Restored \/ RestoreSecrets \/ Report \/ Crash \/ Outage \/ MountsGo \/ Migrate
        \/ \E role \in Roles : Mount(role) \/ MountRefused(role) \/ Unmount(role) \/ WorkerMounts(role)
        \/ \E cache \in Caches : Occupy(cache)
Next == Step \/ \E req \in Request : Begin(req)
Spec == Init /\ [][Next]_vars
-----------------------------------------------------------------------------
TypeOK ==
    /\ config \in Request \cup {None, Torn} /\ note \in {"none", "applying", "failed"}
    /\ \A role \in Roles : {secrets[role], mounted[role]} \subseteq Places(role)
    /\ baseline \in Places("remote") /\ {ledger, home} \subseteq Caches \cup {None} /\ taken \subseteq Caches
    /\ run.fresh \subseteq Roles /\ setups \in 0..MaxSetups /\ faults \in 0..MaxFaults

\* "a setup that failed ... restores existing working config": when a setup that
\* found a working configuration reports its failure, the configuration, every
\* password and every mount are those it found, and what it mounted is gone,
\* unless it says that a mount could not be taken down.
PreviousKeptStep ==
    At("note") /\ run'.pc = "idle" /\ spoiled' # spoiled /\ note' # "applying" /\ run.old # None /\ ~run.dirty =>
        /\ config = before.config /\ secrets = before.secrets /\ mounted = before.mounted
        /\ State' = "configured"
PreviousKept == [][PreviousKeptStep]_vars

\* A setup that failed or was cut short is offered again: what no setup has
\* completed does not count as configured after one of them.
OneFailureShows == (At("idle") /\ State = "configured" /\ spoiled < 2) => config \in complete
\* The same after any number of them.
ConfiguredMeansComplete == (At("idle") /\ State = "configured") => config \in complete

\* "setup changes that invalidate an existing SaveSync Quick Sync baseline": a
\* baseline belongs to the dataset that is configured, as long as each setup was
\* completed.
BaselineFits ==
    At("idle") /\ State = "configured" /\ baseline # None /\ config.remote # None => baseline = config.remote
CompletedFits == spoiled = 0 => BaselineFits

\* "Configuration is not deletion authority": what uninstalling may delete held no file of
\* the player's when it was claimed, but for two cases.  The cache inside the home is claimed
\* whatever it holds; and what is put into an empty cache after the setup has looked at it,
\* while it mounts, catalogues and syncs, is claimed with it.
Unlooked(c) == c.cache = home
FilledMeanwhile(c) == ~c.had
ClaimedWasEmpty == \A c \in claimed : c.held => Unlooked(c) \/ FilledMeanwhile(c)
=============================================================================
