--------------------------- MODULE JournalSync ---------------------------
(***************************************************************************)
(* Quick Sync on a remote that has not been cut over to the shared index:  *)
(* a device learns which saves its peers changed from a journal beside the *)
(* saves, of which it remembers the generation it has read up to.  What    *)
(* the journal names and what the device has marked dirty is compared with *)
(* the remote copy; what a sync uploads is appended to the journal, and    *)
(* the device's cursor moves to the generation of its own entry.           *)
(*                                                                         *)
(* Abstractions: a reconciliation is one step up to the append, because it *)
(* holds the locks of the device and of the remote saves and because its   *)
(* transaction refuses what changed under it; versions are numbered in the *)
(* order the games write them, and no file is deleted.  Conflicts stay     *)
(* (their resolution is in Conflicts); disabled layouts and cards are left *)
(* out.                                                                    *)
(***************************************************************************)
EXTENDS Naturals, SequencesExt

CONSTANTS Devices, Files, GroupOf, LayoutOf, None, MaxEdits, MaxHistory, MaxFaults

JournalSyncAssumption == {MaxEdits, MaxHistory, MaxFaults} \subseteq Nat /\ MaxHistory > 0

Groups == {GroupOf[f] : f \in Files}
Layouts == {LayoutOf[g] : g \in Groups}
FilesOf(G) == {f \in Files : GroupOf[f] \in G}
InLayouts(L) == {g \in Groups : LayoutOf[g] \in L}
Copies == [Files -> 0..MaxEdits]                     \* 0: there is no such file

VARIABLES
    remote,     \* the saves on the remote
    journal,    \* the journal: its generation, the groups of its last entries, or damaged
    local,      \* the saves of each device
    base,       \* what each device knows both sides agreed on
    known,      \* the groups each device has a state for
    dirty,      \* those it has dirty hints for
    conflicts,  \* those in conflict
    playing,    \* the group the game that runs on each device writes
    cursor,     \* the generation each device has read the journal up to
    run,        \* the Quick Sync in progress on each device
    unseen,     \* history: the groups whose changes no entry will show to the device
    shared,     \* history: the versions that have been on the remote
    edits, faults

device == <<local, base, known, dirty, conflicts>>
vars == <<remote, journal, local, base, known, dirty, conflicts, playing, cursor, run, unseen, shared, edits, faults>>

NoScope == [groups |-> None, layouts |-> None]
Idle == [pc |-> "idle", quick |-> FALSE, scope |-> NoScope, gen |-> 0, ups |-> {}]

Init ==
    /\ remote = [f \in Files |-> 0] /\ journal = [gen |-> 0, hist |-> <<>>, damaged |-> FALSE]
    /\ local = [d \in Devices |-> remote] /\ base = local
    /\ known = [d \in Devices |-> {}] /\ dirty = known /\ conflicts = known /\ unseen = known
    /\ playing = [d \in Devices |-> None] /\ cursor = [d \in Devices |-> 0]
    /\ run = [d \in Devices |-> Idle] /\ shared = {0} /\ edits = 0 /\ faults = 0
-----------------------------------------------------------------------------
(* Games. *)

Play(d, g) ==
    /\ playing[d] = None /\ playing' = [playing EXCEPT ![d] = g]
    /\ UNCHANGED <<remote, journal, device, cursor, run, unseen, shared, edits, faults>>
Save(d, f) ==
    /\ playing[d] = GroupOf[f] /\ edits < MaxEdits /\ edits' = edits + 1
    /\ local' = [local EXCEPT ![d][f] = edits']
    /\ UNCHANGED <<remote, journal, base, known, dirty, conflicts, playing, cursor, run, unseen, shared, faults>>

\* The groups of the layouts L whose files are not those of the baseline.
Changed(d, L) == {g \in InLayouts(L) : \E f \in FilesOf({g}) : local[d][f] # base[d][f]}

\* The end of a game marks what has changed; the lock of the device keeps it apart from a sync.
Quit(d) ==
    /\ playing[d] # None /\ run[d].pc # "append"
    /\ LET now == Changed(d, {LayoutOf[playing[d]]})
       IN /\ dirty' = [dirty EXCEPT ![d] = @ \cup now]
          /\ known' = [known EXCEPT ![d] = @ \cup now]
    /\ playing' = [playing EXCEPT ![d] = None]
    /\ UNCHANGED <<remote, journal, local, base, conflicts, cursor, run, unseen, shared, edits, faults>>
-----------------------------------------------------------------------------
(* The journal. *)

\* The groups of the entries after generation c.
After(j, c) == {j.hist[i] : i \in {k \in 1..Len(j.hist) : j.gen - Len(j.hist) + k > c}}
Gap(j, c) == c < j.gen - Len(j.hist)

Latest(s) == SubSeq(s, IF Len(s) > MaxHistory THEN Len(s) - MaxHistory + 1 ELSE 1, Len(s))
\* A damaged journal is put aside, and starts again at generation 0.
Loaded == IF journal.damaged THEN [gen |-> 0, hist |-> <<>>, damaged |-> FALSE] ELSE journal
Appended(s) == [Loaded EXCEPT !.gen = @ + Len(s), !.hist = Latest(@ \o s)]

Damage ==
    /\ ~journal.damaged /\ journal.gen > 0 /\ faults < MaxFaults /\ faults' = faults + 1
    /\ journal' = [journal EXCEPT !.damaged = TRUE]
    /\ UNCHANGED <<remote, device, playing, cursor, run, unseen, shared, edits>>
-----------------------------------------------------------------------------
(* Which groups a Quick Sync compares. *)

ScopeKnownOnly(d, G) == [groups |-> G \cap known[d], layouts |-> None]   \* mutant: a group that is not known is passed over
\* A group the device has no state for stands for its whole layout.
ScopeOf(d, G) ==
    LET new == {LayoutOf[g] : g \in G \ known[d]}
    IN [groups |-> IF G \cap known[d] = {} /\ new # {} THEN None ELSE G \cap known[d],
        layouts |-> IF new = {} THEN None ELSE new]

\* What is dirty joins it: as groups, or as layouts once a layout is looked through.
WithPending(d, s) ==
    IF dirty[d] = {} THEN s
    ELSE IF s.layouts = None THEN [s EXCEPT !.groups = @ \cup dirty[d]]
    ELSE [groups |-> None,
          layouts |-> s.layouts \cup {LayoutOf[g] : g \in dirty[d] \cup (IF s.groups = None THEN {} ELSE s.groups)}]
Asked(s) == (IF s.groups = None THEN {} ELSE s.groups) \cup (IF s.layouts = None THEN {} ELSE InLayouts(s.layouts))

\* A journal that cannot be read, or no longer reaches back to the cursor, needs a Full Sync.
ReadableAlways(d) == ~journal.damaged                          \* mutant: the gap is not looked for
Readable(d) == ~journal.damaged /\ ~Gap(journal, cursor[d])
Read(d) ==
    /\ run[d].pc = "idle" /\ Readable(d)
    /\ journal.gen # cursor[d] \/ dirty[d] # {}
    /\ LET s == WithPending(d, ScopeOf(d, After(journal, cursor[d])))
       IN IF Asked(s) = {}
          THEN cursor' = [cursor EXCEPT ![d] = journal.gen] /\ UNCHANGED run
          ELSE /\ run' = [run EXCEPT ![d] = [Idle EXCEPT !.pc = "compare", !.quick = TRUE, !.scope = s, !.gen = journal.gen]]
               /\ UNCHANGED cursor
    /\ UNCHANGED <<remote, journal, device, playing, unseen, shared, edits, faults>>
-----------------------------------------------------------------------------
(* The comparison. *)

ActiveLayouts(d) == IF playing[d] = None THEN {} ELSE {LayoutOf[playing[d]]}
\* What a running game uses is left for later.
Allowed(d, s) ==
    [groups |-> IF s.groups = None THEN None ELSE s.groups \ InLayouts(ActiveLayouts(d)),
     layouts |-> IF s.layouts = None THEN None ELSE s.layouts \ ActiveLayouts(d)]
Deferred(s) == s.groups = {} \/ (s.groups = None /\ s.layouts = {})

\* The groups that are compared, and the files that are looked at: of known groups alone only
\* those the device has or had; a scan of layouts finds no file of a group outside of them.
Compared(s) == IF s.groups = None THEN InLayouts(s.layouts) ELSE s.groups
Looked(d, s) ==
    IF s.layouts = None THEN {f \in FilesOf(s.groups) : local[d][f] # 0 \/ base[d][f] # 0}
    ELSE FilesOf(Compared(s) \cap InLayouts(s.layouts))
Same(a, b, F) == \A f \in F : a[f] = b[f]
ActionNewer(d, F) ==                                           \* mutant: what is dirty here wins
    IF Same(local[d], remote, F) THEN "same"
    ELSE IF Same(remote, base[d], F) \/ \E f \in F : GroupOf[f] \in dirty[d] THEN "upload"
    ELSE IF Same(local[d], base[d], F) THEN "download" ELSE "conflict"
Action(d, F) ==
    IF Same(local[d], remote, F) THEN "same"
    ELSE IF Same(remote, base[d], F) THEN "upload"
    ELSE IF Same(local[d], base[d], F) THEN "download" ELSE "conflict"

\* Every group that was compared has its state renewed, and with a scan of layouts every dirty one too.
AffectedAll(d, s) == dirty[d] \cup Compared(s)                 \* mutant: the hints of all groups are dropped
Affected(d, s) == Compared(s) \cup (IF s.groups = None THEN dirty[d] ELSE {})

\* Where the comparison of s on d leaves the device; what differs now and was not looked at stays unseen.
Compare(d, s, asked, r) ==
    LET F(g) == Looked(d, s) \cap FilesOf({g})
        act == [g \in Compared(s) |-> Action(d, F(g))]
        of(f) == IF f \in Looked(d, s) THEN act[GroupOf[f]] ELSE "same"
        agreed == [f \in Files |-> IF of(f) = "upload" THEN local[d][f] ELSE remote[f]]
        ups == {g \in Compared(s) : act[g] = "upload"}
        bad == {g \in Compared(s) : act[g] = "conflict"}
    IN /\ remote' = [f \in Files |-> IF of(f) = "upload" THEN local[d][f] ELSE remote[f]]
       /\ shared' = shared \cup {remote'[f] : f \in Files}
       /\ local' = [local EXCEPT ![d] = [f \in Files |-> IF of(f) = "download" THEN remote[f] ELSE @[f]]]
       /\ base' = [base EXCEPT ![d] = [f \in Files |->
                     IF GroupOf[f] \notin Affected(d, s) \/ of(f) = "conflict" THEN @[f]
                     ELSE IF f \in Looked(d, s) THEN agreed[f] ELSE 0]]
       /\ known' = [known EXCEPT ![d] = @ \cup {g \in Compared(s) : \E f \in F(g) : {local[d][f], remote[f], base[d][f]} # {0}}]
       /\ dirty' = [dirty EXCEPT ![d] = @ \ Affected(d, s)]
       /\ conflicts' = [conflicts EXCEPT ![d] = (@ \ Affected(d, s)) \cup bad]
       /\ unseen' = [unseen EXCEPT ![d] =
                       {g \in @ \cup asked \cup Compared(s) \cup (IF s.groups = None THEN dirty[d] ELSE {}) :
                          \E f \in FilesOf({g}) : local'[d][f] # remote'[f]} \ bad]
       /\ run' = [run EXCEPT ![d] = [r EXCEPT !.pc = IF ups # {} THEN "append" ELSE "finish", !.ups = ups]]

\* While a sync holds the lock of the remote saves no other one compares.
Locked == \E e \in Devices : run[e].pc = "append"
Reconcile(d) ==
    /\ run[d].pc = "compare" /\ ~Locked
    /\ LET s == Allowed(d, run[d].scope)
       IN IF Deferred(s)
          THEN run' = [run EXCEPT ![d] = Idle] /\ UNCHANGED <<remote, device, unseen, shared>>
          ELSE Compare(d, s, Asked(run[d].scope), run[d])
    /\ UNCHANGED <<journal, playing, cursor, edits, faults>>

\* The sync before a game starts: of its group alone, if the device knows it.
Target(d, g) ==
    /\ run[d].pc = "idle" /\ ~Locked /\ playing[d] = None /\ g \in known[d]
    /\ Compare(d, [groups |-> {g}, layouts |-> None], {}, Idle)
    /\ UNCHANGED <<journal, playing, cursor, edits, faults>>

Differing(e) == {g \in Groups : \E f \in FilesOf({g}) : local[e][f] # remote[f]}

\* The entries of an upload, and the cursor of the device behind the last of them, whatever it
\* had not read yet; a journal that starts again hides from the others what it had told.
AppendEntries(d) ==
    /\ run[d].pc = "append"
    /\ journal' = Appended(SetToSeq(run[d].ups))
    /\ cursor' = [cursor EXCEPT ![d] = journal'.gen]
    /\ unseen' = [e \in Devices |->
         LET read == IF run[d].quick THEN run[d].gen ELSE cursor[d]
             skipped == IF journal.damaged \/ (e = d /\ Gap(journal, read)) THEN Groups
                        ELSE IF e = d THEN After(journal, read)
                        ELSE IF cursor[e] > journal.gen THEN run[d].ups ELSE {}
         IN unseen[e] \cup (skipped \cap Differing(e))]
    /\ run' = [run EXCEPT ![d].pc = "finish"]
    /\ UNCHANGED <<remote, device, playing, shared, edits, faults>>
Finish(d) ==
    /\ run[d].pc = "finish" /\ run' = [run EXCEPT ![d] = Idle]
    /\ cursor' = [cursor EXCEPT ![d] = IF run[d].quick /\ run[d].gen > @ THEN run[d].gen ELSE @]
    /\ unseen' = [unseen EXCEPT ![d] = @ \cup ((After(journal, cursor[d]) \ After(journal, cursor'[d])) \cap Differing(d))]
    /\ UNCHANGED <<remote, journal, device, playing, shared, edits, faults>>

\* A sync that is cut short between its state and the journal has told nobody what it uploaded.
Crash(d) ==
    /\ run[d].pc # "idle" /\ faults < MaxFaults /\ faults' = faults + 1
    /\ run' = [run EXCEPT ![d] = Idle]
    /\ unseen' = [e \in Devices |-> IF e = d \/ run[d].pc # "append" THEN unseen[e]
                                    ELSE unseen[e] \cup (run[d].ups \cap Differing(e))]
    /\ UNCHANGED <<remote, journal, device, playing, cursor, shared, edits>>

Next ==
    \/ \E d \in Devices : Quit(d) \/ Read(d) \/ Reconcile(d) \/ AppendEntries(d) \/ Finish(d) \/ Crash(d)
    \/ \E d \in Devices, g \in Groups : Play(d, g) \/ Target(d, g)
    \/ \E d \in Devices, f \in Files : Save(d, f)
    \/ Damage

Spec == Init /\ [][Next]_vars
-----------------------------------------------------------------------------
Runs == [pc : {"idle", "compare", "append", "finish"}, quick : BOOLEAN, gen : 0..(MaxEdits + 1), ups : SUBSET Groups,
         scope : [groups : SUBSET Groups \cup {None}, layouts : SUBSET Layouts \cup {None}]]
\* The state has its shape: what is dirty or in conflict is known, and a journal keeps no more than it may.
TypeOK ==
    /\ remote \in Copies /\ local \in [Devices -> Copies] /\ base \in [Devices -> Copies]
    /\ journal.gen \in Nat /\ Len(journal.hist) <= MaxHistory /\ Len(journal.hist) <= journal.gen
    /\ known \in [Devices -> SUBSET Groups] /\ \A d \in Devices : dirty[d] \cup conflicts[d] \subseteq known[d]
    /\ playing \in [Devices -> Groups \cup {None}] /\ cursor \in [Devices -> Nat] /\ run \in [Devices -> Runs]
    /\ unseen \in [Devices -> SUBSET Groups] /\ edits \in 0..MaxEdits /\ faults \in 0..MaxFaults

\* Nobody works on group g, and device d could be told of it by a journal it can read.
Settled(d, g) == run[d].pc = "idle" /\ playing[d] = None /\ Readable(d) /\ \A e \in Devices : run[e].pc = "append" => g \notin run[e].ups
\* Nothing will make the device compare group g again.
Overlooked(d, g) == g \in Differing(d) /\ g \notin dirty[d] \cup conflicts[d] \cup After(journal, cursor[d])
\* A save that differs between a device and the remote is dirty, in conflict or in an entry that the
\* device has yet to read, but for those that a cursor, a scope or a crash was seen to pass over
\* (SaveSyncService._quick_sync, _reconcile_once).
OverlookedOnlyByHoles == \A d \in Devices, g \in Groups : Settled(d, g) /\ Overlooked(d, g) => g \in unseen[d]
\* README.md: "periodic and reconnect Quick Sync passes provide receive-side discovery": a change of
\* a peer is found.  It is not: see unseen (_quick_sync, _append_remote_journal).
NothingOverlooked == \A d \in Devices, g \in Groups : Settled(d, g) => ~Overlooked(d, g)
\* What a game has written is remembered, as dirty or in conflict, until it has been on the remote,
\* but for a group that was marked while layouts were looked through of which its own is none
\* (detect_and_mark_local_changes; the hints in _reconcile_once).
LocalRemembered ==
    \A d \in Devices, f \in Files : playing[d] = None /\ local[d][f] \notin shared => GroupOf[f] \in dirty[d] \cup conflicts[d] \cup unseen[d]
\* A sync replaces on the remote only what the device knew, and on the device only what has been
\* on the remote (_reconcile_plan).
ReplacesOnlySharedStep ==
    \A d \in Devices : run'[d] # run[d] =>
        \A f \in Files : /\ remote'[f] # remote[f] => base[d][f] = remote[f] /\ local[d][f] = remote'[f]
                         /\ local'[d][f] # local[d][f] => local[d][f] \in shared
ReplacesOnlyShared == [][ReplacesOnlySharedStep]_vars
=============================================================================
