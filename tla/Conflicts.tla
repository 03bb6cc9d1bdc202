----------------------------- MODULE Conflicts -----------------------------
(***************************************************************************)
(* The ledger of the saves on one device: the condition of every group of  *)
(* save files, what both sides last agreed on, and the conflicts, which    *)
(* the user decides, perhaps long after they were shown.  The emulator and *)
(* the other devices change the two sides at any time; an operation is one *)
(* step, because it holds the lock and refuses what changed under it.      *)
(***************************************************************************)
EXTENDS Naturals, FiniteSets

CONSTANTS Groups, Members, None, MaxEdits, MaxMarks

ConflictsAssumption == MaxEdits \in Nat /\ MaxMarks \in Nat /\ Members # {}

Contents == [Members -> 0..MaxEdits]         \* 0: the file does not exist
Nothing == [m \in Members |-> 0]
Conditions == {"unknown", "clean", "local_dirty", "remote_dirty", "conflict"}
Sides == {"local", "remote"}

VARIABLES
    local, remote,      \* the content of each group here and in the shared store
    shared,             \* what both sides last agreed on (shared_manifest)
    cond, hinted,       \* the condition of each group; whether it has dirty path hints
    ledger,             \* the conflicts that were recorded
    legacy,             \* the conflict of the whole layout that an older release left: "none", "open", "closed"
    preview,            \* what the user looks at before a forced transfer
    refused,            \* an operation whose state could not be written
    edits, marks,       \* counters
    held                \* history: the edits that each side of each group has had

vars == <<local, remote, shared, cond, hinted, ledger, legacy, preview, refused, edits, marks, held>>

Live(content) == {content[m] : m \in Members} \ {0}
Holding(l, r) == [s \in Sides |-> [g \in Groups |-> held[s][g] \cup Live(IF s = "local" THEN l[g] ELSE r[g])]]
Open == {c \in ledger : c.open}

Init ==
    /\ local = [g \in Groups |-> Nothing] /\ remote = local /\ shared = local
    /\ cond = [g \in Groups |-> "unknown"] /\ hinted = [g \in Groups |-> FALSE]
    /\ ledger = {} /\ legacy \in {"none", "open"} /\ preview = None /\ refused = FALSE
    /\ edits = 0 /\ marks = 0 /\ held = [s \in Sides |-> [g \in Groups |-> {}]]
-----------------------------------------------------------------------------
(* What changes a save without SaveSync. *)

SaveSync == <<shared, cond, hinted, ledger, legacy, preview, refused, marks>>
Edit(side, g, m) ==
    /\ edits < MaxEdits /\ edits' = edits + 1
    /\ held' = [held EXCEPT ![side][g] = @ \cup {edits + 1}]
    /\ local' = IF side = "local" THEN [local EXCEPT ![g][m] = edits + 1] ELSE local
    /\ remote' = IF side = "remote" THEN [remote EXCEPT ![g][m] = edits + 1] ELSE remote
    /\ UNCHANGED SaveSync
\* A file goes: the user deletes it, or its directory is gone.
Lose(side, g, m) ==
    /\ edits < MaxEdits /\ edits' = edits + 1
    /\ local' = IF side = "local" THEN [local EXCEPT ![g][m] = 0] ELSE local
    /\ remote' = IF side = "remote" THEN [remote EXCEPT ![g][m] = 0] ELSE remote
    /\ UNCHANGED <<SaveSync, held>>
-----------------------------------------------------------------------------
(* The state file: what is written is validated first. *)

Valid(l, c, leg) ==
    /\ \A x \in l : x.open => c[x.group] = "conflict"
    /\ \A x, y \in l : x.id = y.id => x = y
Write(l, c, leg) ==
    IF Valid(l, c, leg) THEN ledger' = l /\ cond' = c /\ legacy' = leg /\ UNCHANGED refused
    ELSE refused' = TRUE /\ UNCHANGED <<ledger, cond, legacy>>

CloseBare(l, groups, how) == {IF x.open /\ x.id.group \in groups THEN [x EXCEPT !.open = FALSE] ELSE x : x \in l}  \* mutant: how is not recorded
Close(l, groups, how) == {IF x.open /\ x.id.group \in groups THEN [x EXCEPT !.open = FALSE, !.how = how] ELSE x : x \in l}
\* One conflict of a group is open at a time; the same one keeps its acknowledgement.
Fresh(id) == [id |-> id, group |-> id.group, open |-> TRUE, acked |-> FALSE, how |-> "none"]
KeepOlder(l, id) == {x \in l : x.id # id} \cup {Fresh(id)}      \* mutant: what was open stays open
KeepFirst(l, id) == IF \E x \in l : x.open THEN l ELSE l \cup {Fresh(id)}    \* mutant: the first one stands for all
FreshAgain(l, id) == Close({x \in l : x.id # id}, {id.group}, "manual") \cup {Fresh(id)}    \* mutant: the same one is new again
Record(l, id) ==
    LET same == {x \in l : x.id = id /\ x.open}
    IN Close({x \in l : x.id # id}, {id.group}, "manual") \cup (IF same = {} THEN {Fresh(id)} ELSE same)

\* _mark_dirty: dirty on both sides is a conflict, and a conflict stays one.
MarkedPlain(c, side) == side                                       \* mutant: the other side is forgotten
Marked(c, side) == IF c \in {"local_dirty", "remote_dirty", "conflict"} \ {side} THEN "conflict" ELSE side
-----------------------------------------------------------------------------
(* The operations. *)

\* detect_and_mark_local_changes, at the end of a game.
MarkLocal(g) ==
    /\ local[g] # shared[g] /\ marks < MaxMarks /\ marks' = marks + 1
    /\ Write(ledger, [cond EXCEPT ![g] = Marked(@, "local_dirty")], legacy)
    /\ hinted' = [hinted EXCEPT ![g] = TRUE]
    /\ UNCHANGED <<local, remote, shared, preview, edits, held>>

\* A file of a clean group that is not there was lost, it was not deleted.
Gap(g) == cond[g] = "clean" /\ \E m \in Members : shared[g][m] # 0 /\ local[g][m] = 0
Incomplete(g) ==
    /\ Gap(g) /\ remote[g] = shared[g] /\ remote[g] # Nothing
    /\ \A m \in Members : local[g][m] \in {0, shared[g][m]}
Action(g) ==
    IF local[g] = remote[g] THEN "unchanged"
    ELSE IF Incomplete(g) THEN "download"
    ELSE IF remote[g] = shared[g] THEN "upload"
    ELSE IF local[g] = shared[g] THEN "download"
    ELSE "conflict"

NewShared(g, uploads) ==
    IF Action(g) = "upload" THEN local[g]
    ELSE IF Action(g) = "unchanged" \/ (Action(g) = "download" /\ ~uploads) THEN remote[g]
    ELSE shared[g]
\* The group as it is after the transfer, from which its condition follows.
Condition(l, r, b) == IF l = r THEN "clean" ELSE IF r = b THEN "local_dirty" ELSE IF l = b THEN "remote_dirty" ELSE "conflict"
\* A group without any file is looked at only when something points at it.
Affected(g) == local[g] # Nothing \/ remote[g] # Nothing \/ shared[g] # Nothing \/ hinted[g]

Obsolete(full) == IF full /\ legacy = "open" THEN "closed" ELSE legacy
\* Pending groups are only uploaded; a full scope also downloads, and retires
\* the conflict of the whole layout that an older release recorded.
Reconcile(scope, full) ==
    LET on == {g \in scope : Affected(g)}
        up == {g \in on : Action(g) = "upload"}
        down == {g \in on : Action(g) = "download" /\ full}
        l == [g \in Groups |-> IF g \in down THEN remote[g] ELSE local[g]]
        r == [g \in Groups |-> IF g \in up THEN local[g] ELSE remote[g]]
        b == [g \in Groups |-> IF g \in on THEN NewShared(g, ~full) ELSE shared[g]]
        c == [g \in Groups |-> IF g \in on THEN Condition(l[g], r[g], b[g]) ELSE cond[g]]
        clear == Close(ledger, {g \in on : c[g] # "conflict"}, "manual")
        new == {g \in on : c[g] = "conflict"}
        recorded == UNION {Record({x \in clear : x.group = g}, [group |-> g, base |-> b[g], local |-> l[g], remote |-> r[g]]) : g \in new}
    IN /\ Write({x \in clear : x.group \notin new} \cup recorded, c, Obsolete(full))
       /\ local' = l /\ remote' = r /\ shared' = b
       /\ hinted' = [g \in Groups |-> hinted[g] /\ g \notin on]
       /\ held' = Holding(l, r)
       /\ UNCHANGED <<preview, edits, marks>>
Sync == Reconcile(Groups, TRUE)
Pending(g) == cond[g] # "clean" /\ Reconcile({g}, FALSE)

\* The user closes the notice of a conflict.
Acknowledge(c) ==
    /\ c \in Open /\ ~c.acked
    /\ Write((ledger \ {c}) \cup {[c EXCEPT !.acked = TRUE]}, cond, legacy)
    /\ UNCHANGED <<local, remote, shared, hinted, preview, edits, marks, held>>

Take(keep, groups) ==
    /\ local' = [g \in Groups |-> IF g \in groups /\ keep = "remote" THEN remote[g] ELSE local[g]]
    /\ remote' = [g \in Groups |-> IF g \in groups /\ keep = "local" THEN local[g] ELSE remote[g]]
    /\ shared' = [g \in Groups |-> IF g \notin groups THEN shared[g] ELSE IF keep = "local" THEN local[g] ELSE remote[g]]
    /\ held' = Holding(local', remote')
\* The user keeps one side; both must still be what the conflict says they are.
Whatever(c) == TRUE                          \* mutant: the sides are not scanned again
AsRecorded(c) == c.id.local = local[c.group] /\ c.id.remote = remote[c.group]
Resolve(c, keep) ==
    /\ c \in Open /\ AsRecorded(c)
    /\ Write((ledger \ {c}) \cup {[c EXCEPT !.open = FALSE, !.how = keep]}, [cond EXCEPT ![c.group] = "clean"], legacy)
    /\ Take(keep, {c.group}) /\ hinted' = [hinted EXCEPT ![c.group] = FALSE]
    /\ UNCHANGED <<preview, edits, marks>>

\* Upload All and Download All: what the user was shown must still be so.
Preview(keep) ==
    /\ preview' = [keep |-> keep, local |-> local, remote |-> remote, base |-> shared]
    /\ preview # preview'
    /\ UNCHANGED <<local, remote, shared, cond, hinted, ledger, legacy, refused, edits, marks, held>>
Current(p) == p.local = local /\ p.remote = remote /\ p.base = shared
Approved == preview # None /\ Current(preview)
Force ==
    /\ Approved
    /\ LET groups == {g \in Groups : local[g] # Nothing \/ remote[g] # Nothing}
       IN /\ Take(preview.keep, groups)
          /\ Write(Close(ledger, groups, preview.keep), [g \in Groups |-> IF g \in groups THEN "clean" ELSE cond[g]], legacy)
          /\ hinted' = [g \in Groups |-> hinted[g] /\ g \notin groups]
    /\ preview' = None /\ UNCHANGED <<edits, marks>>

Next ==
    \/ \E side \in Sides, g \in Groups, m \in Members : Edit(side, g, m) \/ Lose(side, g, m)
    \/ \E g \in Groups : MarkLocal(g) \/ Pending(g)
    \/ Sync
    \/ \E c \in ledger : Acknowledge(c) \/ (\E keep \in Sides : Resolve(c, keep))
    \/ (\E keep \in Sides : Preview(keep)) \/ Force
Spec == Init /\ [][Next]_vars
-----------------------------------------------------------------------------
(* Properties. *)

TypeOK ==
    /\ local \in [Groups -> Contents] /\ remote \in [Groups -> Contents] /\ shared \in [Groups -> Contents]
    /\ cond \in [Groups -> Conditions] /\ hinted \in [Groups -> BOOLEAN]
    /\ \A c \in ledger : c.how \in Sides \cup {"none", "manual"} /\ (c.open <=> c.how = "none")

\* No sequence of legal operations arrives at a state that the validation of
\* the state file refuses: SaveSync would stop for ever, with both sides moved.
NeverRefused == ~refused
OneOpen == \A c, d \in Open : c.group = d.group => c = d

\* An operation that overwrites a side loses no edit that the other side never
\* had, unless the user chose: by a conflict that recorded exactly what is there,
\* or by a preview of it.
Chosen(g) ==
    \/ \E c \in ledger, keep \in Sides :
         /\ c.open /\ c.group = g /\ c.id.local = local[g] /\ c.id.remote = remote[g]
         /\ [c EXCEPT !.open = FALSE, !.how = keep] \in ledger'
    \/ preview # None /\ preview' = None /\ preview.local[g] = local[g] /\ preview.remote[g] = remote[g]
NothingLostStep ==
    \A g \in Groups : edits' = edits =>
      /\ local'[g] = local[g] \/ Live(local[g]) \subseteq held["remote"][g] \/ Chosen(g)
      /\ remote'[g] = remote[g] \/ Live(remote[g]) \subseteq held["local"][g] \/ Chosen(g)
NothingLost == [][NothingLostStep]_vars

\* After a sync every difference is an open conflict that shows the user what
\* is there now.
DifferenceShownStep ==
    Sync => \A g \in Groups : local'[g] # remote'[g] =>
      \E c \in Open' : c.group = g /\ c.id.local = local'[g] /\ c.id.remote = remote'[g]
DifferenceShown == [][DifferenceShownStep]_vars

\* What the user has acknowledged is not shown as new while it is the same.
AcknowledgedStaysStep ==
    \A c \in Open : c.acked => \E d \in ledger' : d.id = c.id /\ d.acked
AcknowledgedStays == [][AcknowledgedStaysStep]_vars

\* saves.py:1137: "leave it unresolved and run Quick Sync again": after a sync
\* every open conflict is about what is there now, so that it can be resolved.
SyncRefreshes == [][Sync => \A c \in Open' : c.id.local = local'[c.group] /\ c.id.remote = remote'[c.group]]_vars
=============================================================================
