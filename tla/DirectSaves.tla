--------------------------- MODULE DirectSaves ---------------------------
(***************************************************************************)
(* The retirement of Direct Save Storage: older releases mounted a remote  *)
(* save directory over the local one and kept what was local in a shadow.  *)
(* For every route of their manifest the migration reconciles the shadow   *)
(* (or the local saves) with the remote, takes the mount away and moves    *)
(* the shadow back; at last it reconciles all routes and drops the         *)
(* manifest.  It is begun at boot, by a repair and by a change of mode,    *)
(* and a run that is refused, fails or dies is simply begun again.         *)
(*                                                                         *)
(* Abstractions: a route holds one save, whose versions are numbered in    *)
(* the order they are written; a reconciliation is one step (its locks and *)
(* its transaction are the matter of SaveTransaction and CommitProtocol).  *)
(***************************************************************************)
EXTENDS Naturals, FiniteSets

CONSTANTS Routes, Gone, None, MaxSaves, MaxRuns, MaxFaults

DirectSavesAssumption == {MaxSaves, MaxRuns, MaxFaults} \subseteq Nat

Versions == 0..MaxSaves                              \* 0: a directory without a save
Trees == Versions \cup {Gone}

VARIABLES
    mount,      \* what is mounted over the local saves of each route
    local,      \* the local saves, beneath a mount
    shadow,     \* what the older release put aside
    remote,     \* the saves of the route on the remote
    base,       \* what SaveSync knows both sides agreed on
    agreed,     \* history: what they ever agreed on
    conflicts,  \* the routes with an open conflict
    manifest,   \* there is one, so that a migration is pending
    net,        \* the remote can be reached
    playing,    \* the route whose saves the running game writes
    run,        \* the migration that runs
    answer,     \* how the last one ended
    saves, runs, faults

disk == <<mount, local, shadow, remote, base, agreed, conflicts>>
vars == <<mount, local, shadow, remote, base, agreed, conflicts, manifest, net, playing, run, answer, saves, runs, faults>>

Idle == [pc |-> "idle", at |-> None, todo |-> {}, avail |-> FALSE, conf |-> FALSE, side |-> "local", owned |-> FALSE]
Data(t) == t \notin {Gone, 0}
Content(t) == IF t = Gone THEN 0 ELSE t

\* An older release may have been cut short while it set a route up or took it down.
Init ==
    /\ remote = [r \in Routes |-> 1] /\ base \in [Routes -> {0, 1}] /\ conflicts = {}
    /\ agreed = [r \in Routes |-> {0, base[r]}]
    /\ \E m \in {"none", "owned", "foreign"}, s \in {Gone, 0, 1, 2}, l \in {Gone, 0, 2} :
         \E r0 \in Routes :
           /\ mount = [r \in Routes |-> IF r = r0 THEN m ELSE "owned"]
           /\ shadow = [r \in Routes |-> IF r = r0 THEN s ELSE 1]
           /\ local = [r \in Routes |-> IF r = r0 THEN (IF m = "none" THEN l ELSE Content(l)) ELSE 0]
    /\ manifest = TRUE /\ net \in BOOLEAN /\ playing = None /\ run = Idle /\ answer = "none"
    /\ saves = 2 /\ runs = 0 /\ faults = 0
-----------------------------------------------------------------------------
(* What happens meanwhile. *)

Play(r) ==
    /\ playing = None /\ playing' = r
    /\ UNCHANGED <<disk, manifest, net, run, answer, saves, runs, faults>>
\* A game writes through the mount, or the local save.
Save ==
    /\ playing # None /\ saves < MaxSaves /\ saves' = saves + 1
    /\ IF mount[playing] = "none"
       THEN local' = [local EXCEPT ![playing] = saves'] /\ UNCHANGED remote
       ELSE /\ mount[playing] = "owned" /\ net
            /\ remote' = [remote EXCEPT ![playing] = saves'] /\ UNCHANGED local
    /\ UNCHANGED <<mount, shadow, base, agreed, conflicts, manifest, net, playing, run, answer, runs, faults>>
Quit ==
    /\ playing # None /\ playing' = None
    /\ UNCHANGED <<disk, manifest, net, run, answer, saves, runs, faults>>
\* Another device replaces the save it has read.
Peer(r) ==
    /\ saves < MaxSaves /\ saves' = saves + 1
    /\ remote' = [remote EXCEPT ![r] = saves']
    /\ UNCHANGED <<mount, local, shadow, base, agreed, conflicts, manifest, net, playing, run, answer, runs, faults>>
Link ==
    /\ faults < MaxFaults /\ faults' = faults + 1 /\ net' = ~net
    /\ UNCHANGED <<disk, manifest, playing, run, answer, saves, runs>>
-----------------------------------------------------------------------------
(* SaveSync, on one of the trees of a route. *)

Tree(side, r) == IF side = "shadow" THEN shadow[r] ELSE local[r]
Put(side, r, v) ==
    IF side = "shadow" THEN shadow' = [shadow EXCEPT ![r] = v] /\ UNCHANGED local
    ELSE local' = [local EXCEPT ![r] = v] /\ UNCHANGED shadow
\* What is merely absent is brought back; what has changed on one side only is copied to the other.
DecisionNoRepair(x, y, b) ==                                   \* mutant: an empty tree is a deletion
    IF x = y THEN "same" ELSE IF y = b THEN "upload" ELSE IF x = b THEN "download" ELSE "conflict"
Decision(x, y, b) ==
    IF x = y THEN "same"
    ELSE IF y = b THEN (IF x = 0 THEN "download" ELSE "upload")
    ELSE IF x = b THEN "download" ELSE "conflict"
Agree(r) == agreed' = [agreed EXCEPT ![r] = @ \cup {base'[r]}]
\* A route is reconciled; r conflicts afterwards or not.
Reconcile(side, r) ==
    LET x == Content(Tree(side, r))
        what == Decision(x, remote[r], base[r])
    IN /\ remote' = [remote EXCEPT ![r] = IF what = "upload" THEN x ELSE @]
       /\ IF what = "download" THEN Put(side, r, remote[r]) ELSE UNCHANGED <<local, shadow>>
       /\ base' = [base EXCEPT ![r] = IF what = "conflict" THEN @ ELSE remote'[r]]
       /\ Agree(r)
       /\ conflicts' = IF what = "conflict" THEN conflicts \cup {r} ELSE conflicts \ {r}
       /\ UNCHANGED mount

\* SaveSync's own passes do not know of the migration.
QuickSync(r) ==
    /\ net /\ mount[r] = "none" /\ playing # r /\ run.pc = "idle"
    /\ Content(local[r]) # remote[r] \/ base[r] # remote[r]
    /\ Reconcile("local", r)
    /\ UNCHANGED <<manifest, net, playing, run, answer, saves, runs, faults>>
\* The user resolves a conflict.
Resolve(r) ==
    /\ net /\ r \in conflicts /\ mount[r] = "none" /\ Data(local[r]) /\ shadow[r] = Gone /\ playing # r /\ run.pc = "idle"
    /\ \E v \in {local[r], remote[r]} :
         /\ local' = [local EXCEPT ![r] = v] /\ remote' = [remote EXCEPT ![r] = v] /\ base' = [base EXCEPT ![r] = v]
    /\ Agree(r) /\ conflicts' = conflicts \ {r}
    /\ UNCHANGED <<mount, shadow, manifest, net, playing, run, answer, saves, runs, faults>>
-----------------------------------------------------------------------------
(* The migration. *)

End(how) == run' = Idle /\ answer' = how
\* Refused while a game uses one of the routes.
Begin ==
    /\ run.pc = "idle" /\ manifest /\ runs < MaxRuns /\ runs' = runs + 1
    /\ IF playing # None THEN answer' = "refused" /\ UNCHANGED run
       ELSE \E allowed \in BOOLEAN :
              run' = [Idle EXCEPT !.pc = "inspect", !.todo = Routes, !.avail = allowed /\ net] /\ answer' = "none"
    /\ UNCHANGED <<disk, manifest, net, playing, saves, faults>>

\* Data that differs is not merged, and a mount of somebody else is left alone.
Divergent(r) == mount[r] = "none" /\ Data(shadow[r]) /\ Data(local[r]) /\ shadow[r] # local[r]
Source(r) == IF shadow[r] # Gone THEN "shadow" ELSE IF mount[r] = "none" /\ Data(local[r]) THEN "local" ELSE "remote"
Inspect(r) ==
    /\ run.pc = "inspect" /\ r \in run.todo
    /\ IF mount[r] = "foreign" \/ Divergent(r) \/ (~run.avail /\ shadow[r] = Gone /\ mount[r] # "none")
       THEN End("refused")
       ELSE /\ run' = [run EXCEPT !.pc = IF run.avail THEN "sync" ELSE "unbind", !.at = r, !.todo = @ \ {r},
                                  !.side = Source(r), !.owned = mount[r] = "owned"]
            /\ UNCHANGED answer
    /\ UNCHANGED <<disk, manifest, net, playing, saves, runs, faults>>

\* With neither a shadow nor local saves the remote is copied into a shadow.
Sync ==
    /\ run.pc = "sync" /\ net
    /\ IF run.side = "remote"
       THEN /\ shadow' = [shadow EXCEPT ![run.at] = IF remote[run.at] = 0 THEN @ ELSE remote[run.at]]
            /\ base' = [base EXCEPT ![run.at] = remote[run.at]] /\ conflicts' = conflicts \ {run.at} /\ Agree(run.at)
            /\ UNCHANGED <<mount, local, remote>>
       ELSE Reconcile(run.side, run.at)
    /\ run' = [run EXCEPT !.pc = "unbind", !.conf = @ \/ run.at \in conflicts']
    /\ UNCHANGED <<manifest, net, playing, answer, saves, runs, faults>>

Unbind ==
    /\ run.pc = "unbind" /\ run' = [run EXCEPT !.pc = "materialize"]
    /\ mount' = [mount EXCEPT ![run.at] = IF run.owned THEN "none" ELSE @]
    /\ UNCHANGED <<local, shadow, remote, base, agreed, conflicts, manifest, net, playing, answer, saves, runs, faults>>

\* The shadow becomes the local saves, unless there are some by now.
MaterializeOver ==                                             \* mutant: over whatever is there
    /\ run.pc = "materialize" /\ run' = [run EXCEPT !.pc = "next"]
    /\ IF shadow[run.at] = Gone THEN local' = [local EXCEPT ![run.at] = Content(@)] /\ UNCHANGED shadow
       ELSE local' = [local EXCEPT ![run.at] = shadow[run.at]] /\ shadow' = [shadow EXCEPT ![run.at] = Gone]
    /\ UNCHANGED <<mount, remote, base, agreed, conflicts, manifest, net, playing, answer, saves, runs, faults>>
Materialize ==
    /\ run.pc = "materialize"
    /\ LET r == run.at IN
       IF mount[r] # "none" \/ Divergent(r) THEN End("refused") /\ UNCHANGED <<local, shadow>>
       ELSE /\ run' = [run EXCEPT !.pc = "next"] /\ UNCHANGED answer
            /\ IF shadow[r] # Gone /\ ~Data(local[r])
               THEN local' = [local EXCEPT ![r] = shadow[r]] /\ shadow' = [shadow EXCEPT ![r] = Gone]
               ELSE local' = [local EXCEPT ![r] = Content(@)] /\ UNCHANGED shadow
    /\ UNCHANGED <<mount, remote, base, agreed, conflicts, manifest, net, playing, saves, runs, faults>>

\* The manifest is written again, and the next route inspected; after the last one a conflict, or
\* a remote that was out of reach, leaves the migration pending.
NextRoute ==
    /\ run.pc = "next"
    /\ IF run.todo # {} THEN run' = [run EXCEPT !.pc = "inspect", !.at = None] /\ UNCHANGED answer
       ELSE IF run.conf THEN End("conflict")
       ELSE IF ~run.avail THEN End("unavailable")
       ELSE run' = [run EXCEPT !.pc = "final", !.at = None, !.todo = Routes] /\ UNCHANGED answer
    /\ UNCHANGED <<disk, manifest, net, playing, saves, runs, faults>>
Final(r) ==
    /\ run.pc = "final" /\ net /\ r \in run.todo /\ Reconcile("local", r)
    /\ run' = [run EXCEPT !.todo = @ \ {r}]
    /\ UNCHANGED <<manifest, net, playing, answer, saves, runs, faults>>
RetireAnyway ==                                                \* mutant: a conflict of the last pass is not asked for
    /\ run.pc = "final" /\ run.todo = {}
    /\ manifest' = FALSE /\ End("completed")
    /\ UNCHANGED <<disk, net, playing, saves, runs, faults>>
Retire ==
    /\ run.pc = "final" /\ run.todo = {}
    /\ IF conflicts # {} THEN End("conflict") /\ UNCHANGED manifest
       ELSE manifest' = FALSE /\ End("completed")
    /\ UNCHANGED <<disk, net, playing, saves, runs, faults>>

\* A step that cannot be done ends the run, and so does the end of the process.
Fail ==
    /\ run.pc # "idle" /\ (faults < MaxFaults \/ (run.pc \in {"sync", "final"} /\ ~net))
    /\ faults' = IF faults < MaxFaults THEN faults + 1 ELSE faults
    /\ End("failed")
    /\ UNCHANGED <<disk, manifest, net, playing, saves, runs>>
\* A restart takes the older release's mounts with it.
Reboot ==
    /\ faults < MaxFaults /\ faults' = faults + 1
    /\ mount' = [r \in Routes |-> "none"] /\ playing' = None
    /\ IF run.pc = "idle" THEN UNCHANGED <<run, answer>> ELSE End("failed")
    /\ UNCHANGED <<local, shadow, remote, base, agreed, conflicts, manifest, net, saves, runs>>

Next ==
    \/ Save \/ Quit \/ Link \/ Begin \/ Sync \/ Unbind \/ Materialize \/ NextRoute \/ Retire \/ Fail \/ Reboot
    \/ \E r \in Routes : Play(r) \/ Peer(r) \/ QuickSync(r) \/ Resolve(r) \/ Inspect(r) \/ Final(r)

Spec == Init /\ [][Next]_vars
-----------------------------------------------------------------------------
\* The state has its shape, and what is mounted has a directory beneath it.
TypeOK ==
    /\ mount \in [Routes -> {"none", "owned", "foreign"}]
    /\ local \in [Routes -> Trees] /\ shadow \in [Routes -> Trees] /\ remote \in [Routes -> Versions] /\ base \in [Routes -> Versions]
    /\ \A r \in Routes : mount[r] # "none" => local[r] # Gone
    /\ conflicts \subseteq Routes /\ playing \in Routes \cup {None} /\ saves \in Versions

\* The versions of a route's save, wherever they are.
Held(r) == {local[r], shadow[r], remote[r]} \ {0, Gone}
\* No step but a game's, a peer's or the user's own choice takes away the last copy of a save, unless
\* it is the one both sides had agreed on and a newer one takes its place (LegacyDirectSaveMigration,
\* on whatever state an older release or an interrupted run left).
NothingDroppedStep ==
    \A r \in Routes : (Held(r) \ Held(r)' # {} /\ saves' = saves /\ ~(r \in conflicts /\ r \notin conflicts'))
        => Held(r) \ Held(r)' = {base[r]} /\ Held(r)' # {}
NothingDropped == [][NothingDroppedStep]_vars

\* When the manifest goes, no route is mounted or in conflict, and the saves that were put aside are
\* where the game finds them or are known to be superseded (_migrate_routes, at its end).
RetiredIsLocalStep ==
    manifest /\ ~manifest' =>
        \A r \in Routes : /\ mount[r] = "none" /\ r \notin conflicts /\ local[r] # Gone
                          /\ Data(shadow[r]) => shadow[r] \in {local[r]} \cup agreed[r]
RetiredIsLocal == [][RetiredIsLocalStep]_vars
=============================================================================
