---------------------------- MODULE Containers ----------------------------
(***************************************************************************)
(* Memory cards: one physical file that holds the saves of many games.     *)
(* Quick Sync takes a card apart into merge domains and merges each with   *)
(* its own baseline; a card it cannot read, rebuild or compare falls back  *)
(* to the whole file.  Several devices play on the same card and share it  *)
(* through one store; a sync is one step, because it holds the locks of    *)
(* the commit protocol and its transaction refuses what changed under it.  *)
(***************************************************************************)
EXTENDS Naturals, FiniteSets

CONSTANTS Devices, Domains, None, MaxEdits, MaxFaults

ContainersAssumption == MaxEdits \in Nat /\ MaxFaults \in Nat /\ Domains # {}

Contents == [Domains -> 0..MaxEdits]                 \* 0: the card has no save of the domain
Cards == [in : Contents, lay : 0..1]                 \* lay: where on the card the saves lie
Store == "store"
Places == Devices \cup {Store}
Vers == 0..1                                         \* of the adapter, with its grouping policy

VARIABLES
    card,       \* the card on each device and in the store
    shared,     \* what each device knows both sides agreed on, as a file
    base,       \* its logical baseline: the domains, and the adapter that read them
    cond,       \* the condition of the group on each device
    ver,        \* the adapter each device runs
    last,       \* history: the device whose sync nothing has happened after
    held,       \* history: the saves of each domain that each place has had or has dealt with
    edits, faults

vars == <<card, shared, base, cond, ver, last, held, edits, faults>>

Saves(c, d) == IF c = None THEN 0 ELSE c.in[d]

Init ==
    /\ card = [p \in Places |-> None] /\ shared = [v \in Devices |-> None]
    /\ base = [v \in Devices |-> None] /\ cond = [v \in Devices |-> "unknown"]
    /\ ver = [v \in Devices |-> 0] /\ last = None
    /\ held = [p \in Places |-> [d \in Domains |-> {}]] /\ edits = 0 /\ faults = 0
-----------------------------------------------------------------------------
(* What happens outside of SaveSync. *)

\* A game writes its save, or the user deletes it in the card's menu.
Play(v, d, s) ==
    /\ s = 0 => Saves(card[v], d) # 0
    /\ edits < MaxEdits /\ edits' = edits + 1
    /\ LET old == IF card[v] = None THEN [in |-> [x \in Domains |-> 0], lay |-> 0] ELSE card[v]
       IN card' = [card EXCEPT ![v] = [old EXCEPT !.in[d] = s * (edits + 1)]]
    /\ held' = [held EXCEPT ![v][d] = IF s = 0 THEN @ ELSE @ \cup {edits + 1}]
    /\ last' = None
    /\ UNCHANGED <<shared, base, cond, ver, faults>>
\* The file of the card is gone.
Lose(v) ==
    /\ card[v] # None /\ faults < MaxFaults /\ faults' = faults + 1
    /\ card' = [card EXCEPT ![v] = None] /\ last' = None
    /\ UNCHANGED <<shared, base, cond, ver, held, edits>>
\* A release reads the cards in another way.
Upgrade(v) ==
    /\ ver[v] = 0 /\ faults < MaxFaults /\ faults' = faults + 1
    /\ ver' = [ver EXCEPT ![v] = 1] /\ last' = None
    /\ UNCHANGED <<card, shared, base, cond, held, edits>>
-----------------------------------------------------------------------------
(* The merge of one domain. *)

BootstrapNewer(l, r) ==                                          \* mutant: the later save wins
    IF l = r THEN "converged" ELSE IF l > r THEN "use_local" ELSE "use_remote"
Bootstrap(l, r) ==
    IF l = r THEN "converged"
    ELSE IF r = 0 THEN "use_local"
    ELSE IF l = 0 THEN "use_remote"
    ELSE "conflict"
ThreeWay(l, r, b) ==
    IF l = r THEN "converged"
    ELSE IF l = b THEN "use_remote"
    ELSE IF r = b THEN "use_local"
    ELSE "conflict"
Decision(v, d) ==
    LET l == Saves(card[v], d)
        r == Saves(card[Store], d)
    IN IF base[v] = None THEN Bootstrap(l, r) ELSE ThreeWay(l, r, base[v].in[d])
Clashes(v) == {d \in Domains : Decision(v, d) = "conflict"}

\* The card of one side, rebuilt with the saves that it takes from the other.
Target(mine, other, takes) == [d \in Domains |-> IF d \in takes THEN other.in[d] ELSE mine.in[d]]
Rebuilt(mine, in) == IF in = mine.in THEN {mine} ELSE [in : {in}, lay : 0..1]

NextDomainsEager(v, l, r) ==                                     \* mutant: a conflict settles on this device's save
    [d \in Domains |-> IF d \in Clashes(v) THEN card[v].in[d] ELSE l[d]]
NextDomains(v, l, r) ==
    [d \in Domains |->
        IF d \notin Clashes(v) THEN l[d] ELSE IF base[v] = None THEN 0 ELSE base[v].in[d]]

Compatible(v) == IF base[v] = None THEN TRUE ELSE base[v].ver = ver[v]
\* A card that was lost is repaired as a file.
Repairs(v) == cond[v] = "clean" /\ card[v] = None /\ shared[v] # None

Deal(p, q, ds) ==       \* both places have dealt with what either has had of these domains
    held' = [x \in Places |-> [d \in Domains |->
        IF x \in {p, q} /\ d \in ds THEN held[p][d] \cup held[q][d] ELSE held[x][d]]]

ConditionAlways(clash) == "clean"                                \* mutant: the conflict is not on the group
ConditionAfter(clash) == IF clash THEN "conflict" ELSE "clean"

\* Quick Sync of a card that both sides have and that can be read and rebuilt.
Merge(v) ==
    /\ card[v] # None /\ card[Store] # None /\ Compatible(v)
    /\ LET in(d) == Decision(v, d)
           l == Target(card[v], card[Store], {d \in Domains : in(d) = "use_remote"})
           r == Target(card[Store], card[v], {d \in Domains : in(d) = "use_local"})
       IN /\ \E lc \in Rebuilt(card[v], l), rc \in Rebuilt(card[Store], r) :
               /\ card' = [card EXCEPT ![v] = lc, ![Store] = rc]
               /\ shared' = IF Clashes(v) = {} THEN [shared EXCEPT ![v] = lc] ELSE shared
          /\ base' = [base EXCEPT ![v] = [in |-> NextDomains(v, l, r), ver |-> ver[v]]]
    /\ cond' = [cond EXCEPT ![v] = ConditionAfter(Clashes(v) # {})]
    /\ Deal(v, Store, Domains \ Clashes(v)) /\ last' = v
    /\ UNCHANGED <<ver, edits, faults>>
-----------------------------------------------------------------------------
(* The card as a file. *)

FileAction(v) ==
    IF card[v] = card[Store] THEN "unchanged"
    ELSE IF Repairs(v) /\ card[Store] = shared[v] THEN "download"
    ELSE IF card[Store] = shared[v] THEN "upload"
    ELSE IF card[v] = shared[v] THEN "download"
    ELSE "conflict"

Whole(v) ==
    /\ card' = CASE FileAction(v) = "download" -> [card EXCEPT ![v] = card[Store]]
                 [] FileAction(v) = "upload" -> [card EXCEPT ![Store] = card[v]]
                 [] OTHER -> card
    /\ shared' = IF FileAction(v) = "conflict" THEN shared ELSE [shared EXCEPT ![v] = card'[v]]
    /\ cond' = [cond EXCEPT ![v] = ConditionAfter(FileAction(v) = "conflict")]
    /\ Deal(v, Store, IF FileAction(v) = "conflict" THEN {} ELSE Domains) /\ last' = v
    /\ UNCHANGED <<ver, edits>>

\* One side has no card, or it was lost here.
WholeOne(v) ==
    /\ card[v] = None \/ card[Store] = None
    /\ card[v] # None \/ card[Store] # None \/ shared[v] # None
    /\ Whole(v) /\ UNCHANGED <<base, faults>>
\* The baseline is from another adapter: it is dropped, the card is a file this time.
DropBase(v) == [base EXCEPT ![v] = None]
WholeMismatch(v) ==
    /\ card[v] # None /\ card[Store] # None /\ ~Compatible(v)
    /\ Whole(v) /\ base' = DropBase(v) /\ UNCHANGED faults
\* A card is malformed, ambiguous, or has no verified room for what it would take.
WholeOpaque(v) ==
    /\ card[v] # None /\ card[Store] # None /\ Compatible(v)
    /\ faults < MaxFaults /\ faults' = faults + 1
    /\ Whole(v) /\ UNCHANGED base

\* Force Upload and Force Download: the baseline is read from the card that is here now.
ForcedNext(v, c) == IF c = None THEN None ELSE [in |-> c.in, ver |-> ver[v] + 1]   \* mutant: of the release to come
Forced(v, c) == IF c = None THEN None ELSE [in |-> c.in, ver |-> ver[v]]
Force(v, from, to) ==
    /\ faults < MaxFaults /\ faults' = faults + 1
    /\ card[from] # None /\ {from, to} = {v, Store}
    /\ card' = [card EXCEPT ![to] = card[from]]
    /\ shared' = [shared EXCEPT ![v] = card[from]] /\ base' = [base EXCEPT ![v] = Forced(v, card[from])]
    /\ cond' = [cond EXCEPT ![v] = "clean"] /\ Deal(v, Store, Domains) /\ last' = v
    /\ UNCHANGED <<ver, edits>>
-----------------------------------------------------------------------------
Sync(v) == Merge(v) \/ WholeOne(v) \/ WholeMismatch(v) \/ WholeOpaque(v)
Next ==
    \/ \E v \in Devices, d \in Domains, s \in 0..1 : Play(v, d, s)
    \/ \E v \in Devices : Lose(v) \/ Upgrade(v) \/ Sync(v) \/ Force(v, v, Store) \/ Force(v, Store, v)
Spec == Init /\ [][Next]_vars
-----------------------------------------------------------------------------
\* Cards, baselines and histories have the shapes the state file can hold.
Baselines == [in : Contents, ver : Vers]
TypeOK ==
    /\ card \in [Places -> Cards \cup {None}] /\ shared \in [Devices -> Cards \cup {None}]
    /\ base \in [Devices -> Baselines \cup {None}]
    /\ cond \in [Devices -> {"unknown", "clean", "conflict"}] /\ ver \in [Devices -> Vers]
    /\ last \in Devices \cup {None} /\ held \in [Places -> [Domains -> SUBSET (1..MaxEdits)]]
    /\ edits \in 0..MaxEdits /\ faults \in 0..MaxFaults

\* Whatever the mixture of merges, whole-file transfers, repairs, upgrades and
\* other devices: a sync replaces or removes a save only by what comes after it.
\* The place that the new state comes from has had the save, or has dealt with it.
Newer(v) == \A d \in Domains :
    /\ Saves(card'[v], d) # Saves(card[v], d) => Saves(card[v], d) \in held[Store][d] \cup {0}
    /\ Saves(card'[Store], d) # Saves(card[Store], d) => Saves(card[Store], d) \in held[v][d] \cup {0}
NoSaveLostStep ==
    \A v \in Devices : (Sync(v) /\ card[v] # None) => Newer(v)
NoSaveLost == [][NoSaveLostStep]_vars

\* The device that has just synced says clean only when the two cards hold
\* the same saves: no clash is hidden in a card that is otherwise merged.
CleanMeansAgreed ==
    last # None => (cond[last] = "clean" => \A d \in Domains : Saves(card[last], d) = Saves(card[Store], d))

\* A save in a baseline has been on both sides; otherwise a merge would take
\* the copy of one side for the common ancestor, and give it up.
BaselineWasShared ==
    \A v \in Devices : base[v] # None => \A d \in Domains :
        base[v].in[d] = 0 \/ base[v].in[d] \in held[v][d] \cap held[Store][d]

\* "If both local and remote content changed from the same known baseline,
\* ROMCloud records a durable conflict": a sync finds a conflict only when both
\* cards hold other saves than what the two sides last agreed on.
Same(c, e) == \A d \in Domains : Saves(c, d) = Saves(e, d)
ConflictMeansBoth ==
    [][\A v \in Devices : (Sync(v) /\ cond[v] # "conflict" /\ cond'[v] = "conflict")
          => ~Same(card[v], shared[v]) /\ ~Same(card[Store], shared[v])]_vars

\* "Last logical state known to have converged on both physical sides": when a
\* sync has made the two sides equal, the baseline says what they hold.
BaselineIsLast ==
    (last # None /\ cond[last] = "clean" /\ card[last] # None /\ base[last] # None)
        => \A d \in Domains : base[last].in[d] = Saves(card[last], d)
=============================================================================
