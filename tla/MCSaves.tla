------------------------------ MODULE MCSaves ------------------------------
(***************************************************************************)
(* The parts of SaveSync that are modelled apart, and what must eventually *)
(* happen in three of the services, on smaller instances and under the     *)
(* fairness of each: a behaviour runs one of them, and leaves the others   *)
(* where they start.                                                       *)
(***************************************************************************)
EXTENDS Naturals, Sequences, FiniteSets

CONSTANTS
    c1, c2, cli, d1, d2, dataShare, g1, g2, k1, l1, l2, m1, m2, nobody, none, p1, romShare, s1, s2, t1, w1

VARIABLES
    part,
    local, remote, shared, cond, hinted, ledger, legacy, preview, refused, edits, marks, held,
    card, crdShared, base, crdCond, ver, last, crdHeld, crdEdits, faults,
    dir, data, writes, kind,
    lock, status, avail, cache, mounted, stray, net, run, halt, events, owed, cut, author, maker, stopped,
    dropped,
    record, srv, byHand, alien, start, stop, mgrEvents, calm, since, orphaned,
    pairings, used, attempts, sessions, disk, trust, aged, launches, exits, kiosk, brwEvents, born, revoked,
    dirty, unheard, overlap

Con == INSTANCE Conflicts WITH
    Groups <- {g1}, Members <- {m1, m2}, None <- none, MaxEdits <- 3, MaxMarks <- 1
Crd == INSTANCE Containers WITH
    Devices <- {d1, d2}, Domains <- {g1, g2}, None <- none, MaxEdits <- 3, MaxFaults <- 1,
    shared <- crdShared, cond <- crdCond, held <- crdHeld, edits <- crdEdits
Ps1 == INSTANCE MemoryCard WITH
    NBlocks <- 4, NNames <- 2, MaxWrites <- 3
Mnt == INSTANCE Mounting WITH
    Workers <- {w1}, Command <- cli, Nobody <- nobody, Source <- romShare, RemoteData <- dataShare,
    Targets <- <<romShare, dataShare>>, Attempts <- 1, MaxEvents <- 1
Mgr == INSTANCE Manager WITH
    Servers <- {s1, s2}, Starters <- {c1, c2}, Nobody <- nobody, MaxEvents <- 2, events <- mgrEvents
Brw == INSTANCE Browser WITH
    Tokens <- {t1}, Codes <- {k1}, Peers <- {p1}, Launches <- {l1, l2}, MaxPairings <- 1, MaxSessions <- 1,
    MaxAttempts <- 1, MaxLaunches <- 2, MaxEvents <- 1, events <- brwEvents
ASSUME SavesAssumption ==
    /\ Con!ConflictsAssumption
    /\ Crd!ContainersAssumption
    /\ Ps1!MemoryCardAssumption
    /\ Mnt!MountingAssumption
    /\ Mgr!ManagerAssumption
    /\ Brw!BrowserAssumption
-----------------------------------------------------------------------------
(* The one that runs, and the others in an initial state, which they keep. *)

conVars == <<local, remote, shared, cond, hinted, ledger, legacy, preview, refused, edits, marks, held>>
crdVars == <<card, crdShared, base, crdCond, ver, last, crdHeld, crdEdits, faults>>
ps1Vars == <<dir, data, writes, kind>>
mntVars == <<lock, status, avail, cache, mounted, stray, net, run, halt, events, owed, cut, author, maker,
            stopped, dropped>>
mgrVars == <<record, srv, byHand, alien, start, stop, mgrEvents, calm, since, orphaned>>
brwVars == <<pairings, used, attempts, sessions, disk, trust, aged, launches, exits, kiosk, brwEvents, born,
            revoked, dirty, unheard, overlap>>
vars == <<part, conVars, crdVars, ps1Vars, mntVars, mgrVars, brwVars>>

ConNext ==
    /\ part = "conflicts" /\ Con!Next
    /\ UNCHANGED <<part, crdVars, ps1Vars, mntVars, mgrVars, brwVars>>
CrdNext ==
    /\ part = "containers" /\ Crd!Next
    /\ UNCHANGED <<part, conVars, ps1Vars, mntVars, mgrVars, brwVars>>
Ps1Next ==
    /\ part = "card" /\ Ps1!Next
    /\ UNCHANGED <<part, conVars, crdVars, mntVars, mgrVars, brwVars>>
MntNext ==
    /\ part = "mounting" /\ Mnt!Next
    /\ UNCHANGED <<part, conVars, crdVars, ps1Vars, mgrVars, brwVars>>
MgrNext ==
    /\ part = "manager" /\ Mgr!Next
    /\ UNCHANGED <<part, conVars, crdVars, ps1Vars, mntVars, brwVars>>
BrwNext ==
    /\ part = "browser" /\ Brw!Next
    /\ UNCHANGED <<part, conVars, crdVars, ps1Vars, mntVars, mgrVars>>

Init ==
    /\ part \in {"conflicts", "containers", "card", "mounting", "manager", "browser"}
    /\ Con!Init
    /\ part # "conflicts" => legacy = "none"
    /\ Crd!Init
    /\ Ps1!Init
    /\ Mnt!Init
    /\ part # "mounting" => lock = Mnt!NoLock /\ net = "name" /\ mounted = [t \in {romShare, dataShare} |-> "none"]
    /\ Mgr!Init
    /\ part # "manager" => record = nobody
    /\ Brw!Init
Next == ConNext \/ CrdNext \/ Ps1Next \/ MntNext \/ MgrNext \/ BrwNext
Spec == Init /\ [][Next]_vars
Fairness ==
    /\ \A w \in {w1} : WF_mntVars(part = "mounting" /\ Mnt!WorkerStep(w))
    /\ \A s \in {s1, s2} : WF_mgrVars(part = "manager" /\ Mgr!ServerStep(s))
    /\ \A c \in {c1, c2} : SF_mgrVars(part = "manager" /\ Mgr!Enter(c))
    /\ \A c \in {c1, c2} : WF_mgrVars(part = "manager" /\ Mgr!Check(c))
    /\ \A c \in {c1, c2} : WF_mgrVars(part = "manager" /\ Mgr!Poll(c))
    /\ \A c \in {c1, c2} : WF_mgrVars(part = "manager" /\ Mgr!Unfound(c))
    /\ WF_mgrVars(part = "manager" /\ Mgr!StopStep)
    /\ \A l \in {l1, l2} : WF_brwVars(part = "browser" /\ Brw!Poll(l))
FairSpec == Spec /\ Fairness
-----------------------------------------------------------------------------

\* A conflict is one, stays until it is resolved, and resolving, forcing or acknowledging
\* it loses no version and refuses no legal answer.
ConflictsKept ==
    /\ [](part = "conflicts" => Con!TypeOK /\ Con!NeverRefused /\ Con!OneOpen)
    /\ [][part = "conflicts" =>
            /\ Con!NothingLostStep
            /\ Con!DifferenceShownStep
            /\ Con!AcknowledgedStaysStep]_conVars

\* Of a card that two devices share no save is lost, a baseline is what both sides have
\* held, and a card that counts as clean is the same on both sides.
\* A card that can be read can be rebuilt with any saves that fit on it, and what a
\* deleted save left behind is kept.
CardsKept ==
    /\ [](part = "containers" => Crd!TypeOK /\ Crd!CleanMeansAgreed /\ Crd!BaselineWasShared)
    /\ [][part = "containers" => Crd!NoSaveLostStep]_crdVars
    /\ [](part = "card" => Ps1!TypeOK /\ Ps1!RebuildSucceeds)
    /\ [][part = "card" => Ps1!ResidueKeptStep]_ps1Vars

\* What is begun ends: a mount worker ends whatever the network does, every start of the library
\* server ends and one that failed can be repeated, and a request to close ends the browser.
WorkEnds ==
    /\ part = "mounting" => Mnt!WorkerEnds
    /\ part = "manager" => Mgr!StartsEnd
    /\ part = "manager" => Mgr!StartRecovers
    /\ part = "browser" => Brw!ExitCloses
=============================================================================
