-------------------------------- MODULE Cache --------------------------------
(***************************************************************************)
(* The local game cache: CacheService, TransferService and                 *)
(* CacheStorageCoordinator, as the processes of one device use them at     *)
(* once (the download manager, a launch that misses the cache, the command *)
(* line).  They share the cache directory, a SQLite database, one lock     *)
(* file per asset and the admission lock; each keeps the rest in memory.   *)
(*                                                                         *)
(* A size is a number of units; a unit is what one step writes.  What a    *)
(* game needs (its closure) is fixed, the order in which evictable games   *)
(* are tried is any order, and the directory replaced by a promotion is    *)
(* gone at once.                                                           *)
(***************************************************************************)
EXTENDS Naturals, FiniteSets

CONSTANTS Procs, Games, Assets,
          Closure,      \* the assets a game needs
          Primary,      \* the one it is launched by
          Size,         \* the size of an asset at its source
          Quota,        \* max_size_bytes
          Disk,         \* what the cache may take before min_free_bytes is touched
          Lag,          \* _UPDATE_GRANULARITY
          Nobody,
          MaxRequests, MaxControls, MaxFaults   \* bounds of the exploration

ASSUME CacheAssumption ==
    /\ IsFiniteSet(Procs) /\ IsFiniteSet(Games) /\ IsFiniteSet(Assets)
    /\ Closure \in [Games -> SUBSET Assets] /\ \A g \in Games : Closure[g] # {}
    /\ Primary \in [Games -> Assets] /\ \A g \in Games : Primary[g] \in Closure[g]
    /\ Size \in [Assets -> Nat \ {0}]
    /\ {Quota, Disk, MaxRequests, MaxControls, MaxFaults} \subseteq Nat
    /\ Lag \in Nat \ {0}
    /\ Nobody \notin Procs \cup Games \cup Assets

VARIABLES
    entry, pin, member,        \* cache_entries and cache_members
    row, stale,                \* cache_reservations: of live processes, of dead ones
    manifest, done,            \* cache_staging_assets; its files are all "complete"
    final, staged,             \* bytes below the cache root and below .partial
    lock, admission,           \* the asset locks and the admission lock
    work,                      \* what each process has in memory
    launch,                    \* _active_launches of each process
    control,                   \* a pin or unpin command between its two statements
    wanted,                    \* games whose last finished pin command was a pin
    stray,                     \* assets whose bytes no account has counted at some time
    unplanned,                 \* assets damaged after a transfer had found them intact
    unseen,                    \* processes that wrote since an admission had measured .partial
    overlooked,                \* an admission may have missed bytes that were counted elsewhere
    requests, controls, faults

db == <<entry, pin, member>>
files == <<final, staged>>
plan == <<manifest, done>>
reservations == <<row, stale>>
locks == <<lock, admission>>
sight == <<unseen, overlooked>>
user == <<launch, control, wanted, unplanned, sight>>
count == <<requests, controls, faults>>
vars == <<db, files, plan, reservations, locks, user, work, stray, count>>

NoMembers == [a \in {} |-> 0]
\* Sizes are compared by counting units: the first, the second ... of each asset.
Units(f, S) == UNION {{a} \X (1 .. f[a]) : a \in S}
Total(f, S) == Cardinality(Units(f, S))

-----------------------------------------------------------------------------
(* Accounting.                                                             *)

\* A shared path counts once, with the largest size any game recorded for it.
Owners(a) == {g \in Games : a \in DOMAIN member[g]}
Tracked(a) == UNION {1 .. member[g][a] : g \in Owners(a)}
TotalSize == Cardinality(UNION {{a} \X Tracked(a) : a \in Assets})
Counted(a) == 1 .. final[a] \subseteq Tracked(a)
\* Of .partial and, after it, of the promoted files with a manifest, in one step: what
\* is promoted between the two is counted twice.
StagingBytesUnpromoted == Total(staged, Assets)  \* mutant: promoted files uncounted until finalized
StagingBytes == Total(staged, Assets) + Total(final, {a \in Assets : manifest[a]})
Reserved == Total(row, Procs) + stale
Physical == Total(final, Assets) + Total(staged, Assets)

-----------------------------------------------------------------------------
(* What is cached.                                                         *)

Intact(a) == final[a] = Size[a]
Cached(g) == entry[g] = "complete" /\ member[g] # NoMembers /\ \A a \in Closure[g] : Intact(a)

\* A path with a recovery manifest is adopted on its recorded hashes only.
Adoptable(a) == Intact(a) /\ (manifest[a] => done[a])
Needed(g) ==
    LET missing == Total(Size, {a \in Closure[g] : ~Adoptable(a)})
        retained == Total(staged, Closure[g])
    IN IF missing > retained THEN missing - retained ELSE 0

Evictable(g) == entry[g] = "complete" /\ ~pin[g]
Free(S) == \A a \in S : lock[a] = Nobody
Held(S, p) == [a \in Assets |-> IF a \in S THEN p ELSE lock[a]]
Unlocked(p) == [a \in Assets |-> IF lock[a] = p THEN Nobody ELSE lock[a]]

-----------------------------------------------------------------------------
(* Processes.                                                              *)

Transferring == {"members", "plan", "resume", "cut", "copy", "count", "move"}
Admitting == {"evict", "sized", "scanned", "summed", "take", "drop"}
Steps == Transferring \cup Admitting \cup {"idle", "admit", "enter", "release", "rmwait", "rmdiscard",
                                           "rmfiles", "rmdrop"}

Idle == [pc |-> "idle", game |-> Nobody, existing |-> FALSE, need |-> 0, left |-> 0,
         seen |-> 0, owed |-> 0, have |-> {},
         asset |-> Nobody, keep |-> 0, todo |-> {}, cands |-> {}, target |-> Nobody]

At(p, step) == work[p].pc = step
Goto(p, step) == work' = [work EXCEPT ![p].pc = step]

\* cache_game and try_asset_locks: the closure is locked, then everything is read again.
Request(p, g) ==
    /\ At(p, "idle") /\ launch[p] = Nobody /\ requests < MaxRequests
    /\ ~Cached(g) /\ Free(Closure[g])
    /\ lock' = Held(Closure[g], p)
    /\ requests' = requests + 1
    /\ work' = [work EXCEPT ![p] = [Idle EXCEPT !.pc = "admit", !.game = g, !.need = Needed(g),
                                                !.have = {a \in Closure[g] : Adoptable(a)},
                                                !.existing = entry[g] # "none"]]
    /\ UNCHANGED <<db, files, plan, reservations, admission, user, stray, controls, faults>>

\* admit: the rows of dead processes go, and the evictable games are listed once.
EnterAdmission(p) ==
    /\ At(p, "admit") /\ admission = Nobody
    /\ admission' = p
    /\ stale' = 0
    /\ work' = [work EXCEPT ![p].pc = "evict", ![p].cands = {g \in Games : Evictable(g)}]
    /\ UNCHANGED <<db, files, plan, row, lock, user, stray, count>>

\* _fits reads one sum after the other, while transfers write and end.
ReadFinal(p) ==
    /\ At(p, "evict")
    /\ work' = [work EXCEPT ![p].pc = "sized", ![p].seen = TotalSize]
    /\ UNCHANGED <<db, files, plan, reservations, locks, user, stray, count>>

ReadStaging(p) ==
    /\ At(p, "sized")
    /\ work' = [work EXCEPT ![p].pc = "scanned", ![p].seen = @ + StagingBytes]
    /\ unseen' = {}
    /\ UNCHANGED <<db, files, plan, reservations, locks, launch, control, wanted, unplanned,
                   overlooked, stray, count>>

ReadReserved(p) ==
    /\ At(p, "scanned")
    /\ work' = [work EXCEPT ![p].pc = "summed", ![p].owed = Reserved]
    /\ UNCHANGED <<db, files, plan, reservations, locks, user, stray, count>>

\* What it compares with them, the free space as it is at that time.
FitsIgnoringFreeSpace(p) == work[p].seen + work[p].owed + work[p].need <= Quota  \* mutant
Fits(p) ==
    /\ work[p].seen + work[p].owed + work[p].need <= Quota
    /\ Physical + work[p].owed + work[p].need <= Disk
Forgets(p, step, cands, target) ==
    work' = [work EXCEPT ![p].pc = step, ![p].seen = 0, ![p].owed = 0,
                         ![p].cands = cands, ![p].target = target]

\* evict ends as soon as its candidates fit, and they are looked at once more.
Enough(p) ==
    /\ At(p, "summed") /\ Fits(p) /\ work[p].cands # {}
    /\ Forgets(p, "evict", {}, Nobody)
    /\ UNCHANGED <<db, files, plan, reservations, locks, user, stray, count>>

\* evict: an entry of the list is read again; the games protected here are skipped.
LookAgain(p, g) ==
    /\ At(p, "summed") /\ ~Fits(p) /\ g \in work[p].cands
    /\ IF g \in {work[p].game, launch[p]} \/ ~Evictable(g)
       THEN Forgets(p, "evict", work[p].cands \ {g}, Nobody)
       ELSE Forgets(p, "take", work[p].cands \ {g}, g)
    /\ UNCHANGED <<db, files, plan, reservations, locks, user, stray, count>>

\* _remove_files: the members that no other game owns, or what the entry itself names.
RemovableShared(g) == IF member[g] = NoMembers THEN {Primary[g]} ELSE DOMAIN member[g]  \* mutant: owner_count
Removable(g) == IF member[g] = NoMembers THEN {Primary[g]}
                ELSE {a \in DOMAIN member[g] : Owners(a) = {g}}
Erased(S) == [a \in Assets |-> IF a \in S THEN 0 ELSE final[a]]

Evict(p) ==
    /\ At(p, "take")
    /\ IF Free(Closure[work[p].target])
       THEN /\ lock' = Held(Closure[work[p].target], p)
            /\ final' = Erased(Removable(work[p].target))
            /\ Goto(p, "drop")
       ELSE /\ Goto(p, "evict")
            /\ UNCHANGED <<lock, final>>
    /\ UNCHANGED <<db, staged, plan, reservations, admission, user, stray, count>>

\* Deleting an entry deletes its members.  A file kept for another owner counts
\* from now on as what that owner, whose transfer may never have ended, recorded.
DeleteUncascaded(g) ==  \* mutant: foreign keys off
    /\ entry' = [entry EXCEPT ![g] = "none"]
    /\ pin' = [pin EXCEPT ![g] = FALSE]
    /\ member' = member
Delete(g) ==
    /\ entry' = [entry EXCEPT ![g] = "none"]
    /\ pin' = [pin EXCEPT ![g] = FALSE]
    /\ member' = [member EXCEPT ![g] = NoMembers]
KeptFor(g) == {a \in DOMAIN member[g] : Owners(a) # {g} /\ final[a] > 0}
Undercounted(S) == {a \in S : ~manifest[a] /\ ~(1 .. final[a] \subseteq Tracked(a)')}

DropEntry(p) ==
    /\ At(p, "drop")
    /\ Delete(work[p].target)
    /\ stray' = stray \cup Undercounted(KeptFor(work[p].target))
    /\ lock' = [a \in Assets |-> IF lock[a] = p /\ a \notin Closure[work[p].game] THEN Nobody ELSE lock[a]]
    /\ work' = [work EXCEPT ![p].pc = "evict", ![p].target = Nobody]
    /\ UNCHANGED <<files, plan, reservations, admission, user, count>>

Admit(p) ==
    /\ At(p, "summed") /\ Fits(p) /\ work[p].cands = {}
    /\ row' = [row EXCEPT ![p] = work[p].need]
    /\ admission' = Nobody
    /\ work' = [work EXCEPT ![p].pc = "enter", ![p].left = work[p].need,
                            ![p].seen = 0, ![p].owed = 0]
    /\ UNCHANGED <<db, files, plan, stale, lock, user, stray, count>>

Refuse(p) ==
    /\ At(p, "summed") /\ ~Fits(p) /\ work[p].cands = {}
    /\ admission' = Nobody /\ lock' = Unlocked(p)
    /\ work' = [work EXCEPT ![p] = Idle]
    /\ UNCHANGED <<db, files, plan, reservations, user, stray, count>>

-----------------------------------------------------------------------------
(* The transfer.                                                           *)

\* The entry is created, pin and all, when there was none at the time it was read.
Enter(p) ==
    LET g == work[p].game IN
    /\ At(p, "enter")
    /\ IF work[p].existing
       THEN entry' = [entry EXCEPT ![g] = IF @ = "none" THEN @ ELSE "transferring"] /\ UNCHANGED pin
       ELSE entry' = [entry EXCEPT ![g] = "transferring"] /\ pin' = [pin EXCEPT ![g] = FALSE]
    /\ Goto(p, "members")
    /\ UNCHANGED <<member, files, plan, reservations, locks, user, stray, count>>

\* replace_membership; the foreign key needs the entry.
ReplaceMembership(p) ==
    LET g == work[p].game
        recorded == [a \in Closure[g] |-> IF a \in work[p].have THEN Size[a] ELSE 0]
    IN
    /\ At(p, "members") /\ entry[g] # "none"
    /\ member' = [member EXCEPT ![g] = recorded]
    /\ stray' = stray \cup {a \in Closure[g] : final[a] > 0 /\ ~manifest[a] /\ a \notin work[p].have}
    /\ work' = [work EXCEPT ![p].pc = "plan", ![p].todo = Closure[g], ![p].have = {}]
    /\ UNCHANGED <<entry, pin, files, plan, reservations, locks, user, count>>

\* An asset already in place is skipped; any other gets its manifest before a byte of it.
PlanAssetUnrecorded(p, a) ==  \* mutant: no recovery manifest until the download is complete
    /\ At(p, "plan") /\ a \in work[p].todo
    /\ IF Adoptable(a)
       THEN work' = [work EXCEPT ![p].todo = @ \ {a}]
       ELSE work' = [work EXCEPT ![p].pc = "resume", ![p].asset = a]
    /\ UNCHANGED <<db, files, plan, reservations, locks, user, stray, count>>
PlanAsset(p, a) ==
    /\ At(p, "plan") /\ a \in work[p].todo
    /\ IF Adoptable(a)
       THEN work' = [work EXCEPT ![p].todo = @ \ {a}] /\ UNCHANGED plan
       ELSE /\ work' = [work EXCEPT ![p].pc = "resume", ![p].asset = a]
            /\ manifest' = [manifest EXCEPT ![a] = TRUE]
            /\ done' = [done EXCEPT ![a] = @ /\ manifest[a]]
    /\ UNCHANGED <<db, files, reservations, locks, user, stray, count>>

\* Retained bytes beyond the last valid checkpoint are reserved again, then removed.
Resume(p, checkpoint) ==
    LET lost == staged[work[p].asset] - checkpoint IN
    /\ At(p, "resume") /\ checkpoint <= staged[work[p].asset]
    /\ IF lost = 0
       THEN Goto(p, "copy") /\ UNCHANGED row
       ELSE /\ admission = Nobody
            /\ row' = [row EXCEPT ![p] = work[p].left + lost]
            /\ work' = [work EXCEPT ![p].pc = "cut", ![p].keep = checkpoint, ![p].left = @ + lost]
    /\ UNCHANGED <<db, files, plan, stale, locks, user, stray, count>>

Cut(p) ==
    /\ At(p, "cut")
    /\ staged' = [staged EXCEPT ![work[p].asset] = work[p].keep]
    /\ done' = [done EXCEPT ![work[p].asset] = FALSE]
    /\ work' = [work EXCEPT ![p].pc = "copy", ![p].keep = 0]
    /\ UNCHANGED <<db, final, manifest, reservations, locks, user, stray, count>>

\* An admission has measured .partial and has not read the reservations yet.
Measured == \E q \in Procs : At(q, "scanned")
Copy(p) ==
    LET a == work[p].asset IN
    /\ At(p, "copy")
    /\ IF staged[a] < Size[a]
       THEN /\ staged' = [staged EXCEPT ![a] = @ + 1]
            /\ done' = [done EXCEPT ![a] = FALSE]
            /\ unseen' = IF Measured THEN unseen \cup {p} ELSE unseen
            /\ Goto(p, "count")
       ELSE /\ done' = [done EXCEPT ![a] = TRUE]
            /\ work' = [work EXCEPT ![p].pc = "plan", ![p].asset = Nobody, ![p].todo = @ \ {a}]
            /\ UNCHANGED <<staged, unseen>>
    /\ UNCHANGED <<db, final, manifest, reservations, locks, launch, control, wanted, unplanned,
                   overlooked, stray, count>>

\* consume_growth: the row follows what is still to come at a distance below Lag.
ConsumeGrowth(p) ==
    LET left == IF work[p].left > 0 THEN work[p].left - 1 ELSE 0
        persist == left = 0 \/ row[p] >= left + Lag
    IN
    /\ At(p, "count")
    /\ persist => admission = Nobody
    /\ row' = [row EXCEPT ![p] = IF persist THEN left ELSE @]
    /\ work' = [work EXCEPT ![p].pc = "copy", ![p].left = left]
    /\ UNCHANGED <<db, files, plan, stale, locks, user, stray, count>>

\* _promote: what leaves .partial is reserved before it is renamed.
PromotablePrimary(g) == {a \in {Primary[g]} : staged[a] > 0 /\ done[a]}  \* mutant: only the launched asset
Promotable(g) == {a \in Closure[g] : staged[a] > 0 /\ done[a]}

Protect(p, a) ==
    /\ At(p, "plan") /\ work[p].todo = {} /\ a \in Promotable(work[p].game) /\ admission = Nobody
    /\ row' = [row EXCEPT ![p] = work[p].left + staged[a]]
    /\ work' = [work EXCEPT ![p].pc = "move", ![p].asset = a, ![p].left = @ + staged[a]]
    /\ UNCHANGED <<db, files, plan, stale, locks, user, stray, count>>

Promote(p) ==
    LET a == work[p].asset IN
    /\ At(p, "move")
    /\ final' = [final EXCEPT ![a] = staged[a]]
    /\ staged' = [staged EXCEPT ![a] = 0]
    /\ work' = [work EXCEPT ![p].pc = "plan", ![p].asset = Nobody]
    /\ UNCHANGED <<db, plan, reservations, locks, user, stray, count>>

\* finalize_transfer: updates of rows that are gone change nothing.
Finalize(p) ==
    LET g == work[p].game IN
    /\ At(p, "plan") /\ work[p].todo = {} /\ Promotable(g) = {} /\ admission = Nobody
    /\ entry' = [entry EXCEPT ![g] = IF @ = "none" THEN @ ELSE "complete"]
    /\ member' = [member EXCEPT ![g] = [a \in DOMAIN @ |-> final[a]]]
    /\ manifest' = [a \in Assets |-> manifest[a] /\ a \notin Closure[g]]
    /\ done' = [a \in Assets |-> done[a] /\ a \notin Closure[g]]
    /\ Goto(p, "release")
    /\ UNCHANGED <<pin, files, reservations, locks, user, stray, count>>

LeaveLocked(p) ==  \* mutant: the asset locks are not released
    /\ row' = [row EXCEPT ![p] = 0]
    /\ lock' = lock
    /\ work' = [work EXCEPT ![p] = Idle]
    /\ UNCHANGED sight
Leave(p) ==
    /\ row' = [row EXCEPT ![p] = 0]
    /\ lock' = Unlocked(p)
    /\ work' = [work EXCEPT ![p] = Idle]
    /\ unseen' = unseen \ {p}
    /\ overlooked' = (overlooked \/ (Measured /\ p \in unseen))

Release(p) ==
    /\ At(p, "release")
    /\ Leave(p)
    /\ UNCHANGED <<db, files, plan, stale, admission, launch, control, wanted, unplanned, stray, count>>

Marked(g, status) == [entry EXCEPT ![g] = IF @ = "none" THEN @ ELSE status]

\* The insertion of members is refused: the entry was deleted meanwhile.
MembershipRefused(p) ==
    /\ At(p, "members") /\ entry[work[p].game] = "none"
    /\ Leave(p)
    /\ UNCHANGED <<db, files, plan, stale, admission, launch, control, wanted, unplanned, stray, count>>

\* The provider fails ("failed") or the transfer is cancelled ("incomplete").
Fail(p, status) ==
    /\ work[p].pc \in Transferring /\ faults < MaxFaults /\ status \in {"failed", "incomplete"}
    /\ entry' = Marked(work[p].game, status)
    /\ Leave(p)
    /\ faults' = faults + 1
    /\ UNCHANGED <<pin, member, files, plan, stale, admission, launch, control, wanted, unplanned,
                   stray, requests, controls>>

-----------------------------------------------------------------------------
(* Commands and the environment.                                           *)

AskRemove(p, g) ==
    /\ At(p, "idle") /\ launch[p] = Nobody /\ controls < MaxControls
    /\ entry[g] # "none" /\ ~pin[g]
    /\ controls' = controls + 1
    /\ work' = [work EXCEPT ![p] = [Idle EXCEPT !.pc = "rmwait", !.target = g]]
    /\ UNCHANGED <<db, files, plan, reservations, locks, user, stray, requests, faults>>

\* remove reads the entry again once it has the locks.
LockRemove(p) ==
    LET g == work[p].target IN
    /\ At(p, "rmwait") /\ Free(Closure[g])
    /\ IF entry[g] = "none" \/ pin[g]
       THEN work' = [work EXCEPT ![p] = Idle] /\ UNCHANGED lock
       ELSE /\ lock' = Held(Closure[g], p)
            /\ Goto(p, IF entry[g] = "complete" THEN "rmfiles" ELSE "rmdiscard")
    /\ UNCHANGED <<db, files, plan, reservations, admission, user, stray, count>>

\* An admission that has read the sizes, but not the manifests, may count a file
\* whose manifest is discarded nowhere.
Discard(S) ==
    /\ staged' = [a \in Assets |-> IF a \in S THEN 0 ELSE staged[a]]
    /\ manifest' = [a \in Assets |-> manifest[a] /\ a \notin S]
    /\ done' = [a \in Assets |-> done[a] /\ a \notin S]
    /\ stray' = stray \cup {a \in S : final[a] > 0 /\ ~Counted(a)}
    /\ overlooked' = (overlooked \/ /\ \E q \in Procs : At(q, "sized")
                                    /\ \E a \in S : manifest[a] /\ final[a] > 0)

\* discard_staging, unless the entry was complete when it was read; then _remove_files.
DiscardStaging(p) ==
    /\ At(p, "rmdiscard")
    /\ Discard({a \in Closure[work[p].target] : Cardinality(Owners(a)) <= 1})
    /\ Goto(p, "rmfiles")
    /\ UNCHANGED <<db, final, reservations, locks, launch, control, wanted, unplanned, unseen, count>>

RemoveFiles(p) ==
    /\ At(p, "rmfiles")
    /\ final' = Erased(Removable(work[p].target))
    /\ Goto(p, "rmdrop")
    /\ UNCHANGED <<db, staged, plan, reservations, locks, user, stray, count>>

DropRemoved(p) ==
    /\ At(p, "rmdrop")
    /\ Delete(work[p].target)
    /\ stray' = stray \cup Undercounted(KeptFor(work[p].target))
    /\ lock' = Unlocked(p)
    /\ work' = [work EXCEPT ![p] = Idle]
    /\ UNCHANGED <<files, plan, reservations, admission, user, count>>

\* discard_staging_asset: partial data and its manifest; a promoted file stays.
DiscardPartial(a) ==
    /\ manifest[a] /\ lock[a] = Nobody /\ controls < MaxControls
    /\ controls' = controls + 1
    /\ Discard({a})
    /\ UNCHANGED <<db, final, reservations, locks, launch, control, wanted, unplanned, unseen, work,
                   requests, faults>>

NoControl == [op |-> "none", game |-> Nobody]

PinRead(g) ==
    /\ control = NoControl /\ controls < MaxControls
    /\ controls' = controls + 1
    /\ control' = [op |-> IF entry[g] = "none" THEN "pin new" ELSE "pin", game |-> g]
    /\ UNCHANGED <<db, files, plan, reservations, locks, launch, wanted, unplanned, sight, work, stray, requests, faults>>

UnpinRead(g) ==
    /\ control = NoControl /\ controls < MaxControls /\ entry[g] # "none"
    /\ controls' = controls + 1
    /\ control' = [op |-> IF entry[g] = "incomplete" /\ member[g] = NoMembers
                          THEN "forget" ELSE "unpin", game |-> g]
    /\ UNCHANGED <<db, files, plan, reservations, locks, launch, wanted, unplanned, sight, work, stray, requests, faults>>

\* save inserts or overwrites; set_pinned and delete do nothing without an entry.
ControlWrite ==
    LET g == control.game IN
    /\ control # NoControl
    /\ CASE control.op = "pin new" -> /\ entry' = [entry EXCEPT ![g] = "incomplete"]
                                      /\ pin' = [pin EXCEPT ![g] = TRUE] /\ UNCHANGED <<member, stray>>
         [] control.op = "forget" -> /\ stray' = stray \cup {a \in DOMAIN member[g] : final[a] > 0 \/ lock[a] # Nobody}
                                     /\ Delete(g)
         [] OTHER -> /\ pin' = [pin EXCEPT ![g] = control.op = "pin" /\ entry[g] # "none"]
                     /\ UNCHANGED <<entry, member, stray>>
    /\ wanted' = IF control.op \in {"pin", "pin new"} THEN wanted \cup {g} ELSE wanted \ {g}
    /\ control' = NoControl
    /\ UNCHANGED <<files, plan, reservations, locks, launch, unplanned, sight, work, count>>

MarkLaunched(p, g) ==
    /\ At(p, "idle") /\ launch[p] = Nobody /\ controls < MaxControls
    /\ Cached(g)
    /\ launch' = [launch EXCEPT ![p] = g]
    /\ controls' = controls + 1
    /\ UNCHANGED <<db, files, plan, reservations, locks, control, wanted, unplanned, sight, work, stray, requests, faults>>

LaunchEnds(p) ==
    /\ launch[p] # Nobody
    /\ launch' = [launch EXCEPT ![p] = Nobody]
    /\ UNCHANGED <<db, files, plan, reservations, locks, control, wanted, unplanned, sight, work, stray, count>>

\* Another program truncates or deletes a cached file.
Damage(a) ==
    /\ faults < MaxFaults /\ final[a] > 0
    /\ \E n \in 0 .. final[a] - 1 : final' = [final EXCEPT ![a] = n]
    /\ unplanned' = IF lock[a] # Nobody THEN unplanned \cup {a} ELSE unplanned
    /\ faults' = faults + 1
    /\ UNCHANGED <<db, staged, plan, reservations, locks, launch, control, wanted, sight, work, stray, requests, controls>>

\* The locks of a dead process are free; its row stays.
Crash(p) ==
    /\ faults < MaxFaults /\ ~At(p, "idle")
    /\ faults' = faults + 1
    /\ stale' = stale + row[p]
    /\ admission' = IF admission = p THEN Nobody ELSE admission
    /\ Leave(p)
    /\ UNCHANGED <<db, files, plan, launch, control, wanted, unplanned, stray, requests, controls>>

-----------------------------------------------------------------------------

\* At first some games are cached, completely and within the quota.
Init ==
    /\ \E S \in SUBSET Games :
         LET present == UNION {Closure[g] : g \in S} IN
         /\ Total(Size, present) <= Quota /\ Total(Size, present) <= Disk
         /\ entry = [g \in Games |-> IF g \in S THEN "complete" ELSE "none"]
         /\ member = [g \in Games |-> IF g \in S THEN [a \in Closure[g] |-> Size[a]] ELSE NoMembers]
         /\ final = [a \in Assets |-> IF a \in present THEN Size[a] ELSE 0]
    /\ pin = [g \in Games |-> FALSE]
    /\ row = [p \in Procs |-> 0] /\ stale = 0
    /\ manifest = [a \in Assets |-> FALSE] /\ done = [a \in Assets |-> FALSE]
    /\ staged = [a \in Assets |-> 0]
    /\ lock = [a \in Assets |-> Nobody] /\ admission = Nobody
    /\ work = [p \in Procs |-> Idle]
    /\ launch = [p \in Procs |-> Nobody]
    /\ control = NoControl /\ wanted = {} /\ stray = {} /\ unplanned = {}
    /\ unseen = {} /\ overlooked = FALSE
    /\ requests = 0 /\ controls = 0 /\ faults = 0

Program(p) ==
    \/ EnterAdmission(p) \/ ReadFinal(p) \/ ReadStaging(p) \/ ReadReserved(p) \/ Enough(p)
    \/ (\E g \in Games : LookAgain(p, g)) \/ Evict(p) \/ DropEntry(p)
    \/ Admit(p) \/ Refuse(p) \/ Enter(p) \/ ReplaceMembership(p) \/ MembershipRefused(p)
    \/ (\E a \in Assets : PlanAsset(p, a) \/ Protect(p, a))
    \/ (\E checkpoint \in 0 .. Quota : Resume(p, checkpoint))
    \/ Cut(p) \/ Copy(p) \/ ConsumeGrowth(p) \/ Promote(p) \/ Finalize(p) \/ Release(p)
    \/ LockRemove(p) \/ DiscardStaging(p) \/ RemoveFiles(p) \/ DropRemoved(p)

Commands ==
    \/ \E p \in Procs, g \in Games : Request(p, g) \/ AskRemove(p, g) \/ MarkLaunched(p, g)
    \/ \E p \in Procs : LaunchEnds(p)
    \/ \E a \in Assets : DiscardPartial(a)
    \/ \E g \in Games : PinRead(g) \/ UnpinRead(g)
    \/ ControlWrite

Faults ==
    \/ \E p \in Procs : Crash(p) \/ \E status \in {"failed", "incomplete"} : Fail(p, status)
    \/ \E a \in Assets : Damage(a)

Next == (\E p \in Procs : Program(p)) \/ Commands \/ Faults

\* A process that can take a step takes one; the locks are the kernel's.
Fairness == \A p \in Procs : WF_vars(Program(p))

Spec == Init /\ [][Next]_vars /\ Fairness

-----------------------------------------------------------------------------
(* Properties.                                                             *)

\* Every variable keeps its type: counters stay natural numbers, an entry that
\* does not exist has no members (the cascade of the schema), and the locks and
\* memories belong to the processes that cache_game and remove run in.
TypeOK ==
    /\ entry \in [Games -> {"none", "transferring", "incomplete", "failed", "complete"}]
    /\ pin \in [Games -> BOOLEAN]
    /\ \A g \in Games : /\ member[g] = NoMembers \/ member[g] \in [Closure[g] -> Nat]
                        /\ entry[g] = "none" => member[g] = NoMembers /\ ~pin[g]
    /\ row \in [Procs -> Nat] /\ stale \in Nat
    /\ manifest \in [Assets -> BOOLEAN] /\ done \in [Assets -> BOOLEAN]
    /\ final \in [Assets -> Nat] /\ staged \in [Assets -> Nat]
    /\ lock \in [Assets -> Procs \cup {Nobody}] /\ admission \in Procs \cup {Nobody}
    /\ \A p \in Procs :
         /\ work[p].pc \in Steps /\ work[p].existing \in BOOLEAN
         /\ {work[p].game, work[p].target} \subseteq Games \cup {Nobody}
         /\ work[p].asset \in Assets \cup {Nobody}
         /\ {work[p].need, work[p].left, work[p].keep, work[p].seen, work[p].owed} \subseteq Nat
         /\ work[p].todo \subseteq Assets /\ work[p].have \subseteq Assets /\ work[p].cands \subseteq Games
    /\ launch \in [Procs -> Games \cup {Nobody}]
    /\ wanted \subseteq Games /\ stray \cup unplanned \subseteq Assets
    /\ unseen \subseteq Procs /\ overlooked \in BOOLEAN
    /\ {requests, controls, faults} \subseteq Nat

\* What the cache takes on disk never exceeds max_size_bytes, whatever transfers
\* run at once, are resumed, fail or die (admit, consume_growth, protect_removal,
\* _promote), as long as every byte has always been counted, no file that a running
\* transfer had found intact was damaged by another program, and no transfer ended
\* or manifest went while an admission was between two of its sums: what is written
\* after .partial was measured, by a transfer that is gone before the reservations
\* are read, is in neither.
WithinQuota == stray = {} /\ unplanned = {} /\ ~overlooked => Physical <= Quota

\* The space min_free_bytes keeps free is never touched, not even when bytes
\* have gone uncounted: that half of _fits reads the disk itself.
ReserveKept == unplanned = {} => Physical <= Disk

\* Cached bytes are always counted, as a member's size or through a recovery
\* manifest (_unfinalized_promotion_bytes).  They go uncounted only where a
\* manifest is discarded with its promoted file in place, a damaged file is
\* recorded as missing, an unpin deletes the entry of a running transfer, or the
\* last game that recorded the size of a shared file is deleted.
EveryByteCounted ==
    \A a \in Assets \ stray : manifest[a] \/ Counted(a)

\* What the cache takes on disk is bounded, and known.
BudgetKept == TypeOK /\ WithinQuota /\ ReserveKept /\ EveryByteCounted

\* Eviction and removal of one game never delete or change a file that another
\* cached game needs (owner_count under the asset locks).
OthersKept ==
    \A g \in Games :
        Cached(g) /\ entry'[g] = "complete" /\ faults' = faults
          /\ ~(\E p \in Procs : work[p].target = g /\ work[p].pc \in {"take", "rmfiles"})
        => \A a \in Closure[g] : final'[a] = Size[a]

\* A transfer that ends well leaves a playable game: everything it planned is in
\* place when finalize_transfer marks the entry, unless the entry was deleted
\* meanwhile by an unpin or a file was damaged.
FinishedIsCached ==
    \A p \in Procs :
        At(p, "plan") /\ work'[p].pc = "release" /\ Closure[work[p].game] \cap stray = {}
          /\ faults = 0
        => Cached(work[p].game)'

\* A game that is said to be cached can be played, and stays so while others come
\* and go.
CachedPlayable == [][OthersKept /\ FinishedIsCached]_vars

\* Every cache request and removal comes to an end: nobody waits for a lock that
\* is never released, although asset locks are held while the admission lock is
\* awaited and taken while it is held.
EveryRequestEnds == []<>(\A p \in Procs : At(p, "idle"))

\* README.md:262: automatic eviction spares games that are pinned, transferring
\* or currently launching.  Here, when eviction has read a game again and decides
\* to delete it: pinned by a command that has ended, being transferred or being
\* launched, by any process.
ProtectedNotEvicted ==
    [][\A p \in Procs :
         At(p, "summed") /\ work'[p].pc = "take"
         => LET g == work'[p].target IN
            /\ g \notin wanted
            /\ \A q \in Procs : launch[q] # g /\ (work[q].pc \in Transferring => work[q].game # g)]_vars

=============================================================================
