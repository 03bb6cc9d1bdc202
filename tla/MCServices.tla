---------------------------- MODULE MCServices ----------------------------
(***************************************************************************)
(* The services that act without each other and share no state: one run    *)
(* checks them all.  Each behaviour runs one of them, in the instance given *)
(* here, and leaves the others where they start.                           *)
(***************************************************************************)
EXTENDS Naturals, Sequences, FiniteSets

CONSTANTS
    w1, w2, cli, nobody, romShare, dataShare, s1, s2, s3, c1, c2, t1, t2, k1, k2, p1, p2, l1, l2, none,
    tornFile, g1, g2, d1, d2, r1, r2, textA, imgX, imgY, cue, trk, game, folder, otherData, m1, m2, a1, a2,
    gone, h1, h2

VARIABLES
    part,
    lock, status, avail, cache, mounted, stray, net, run, halt, events, owed, cut, author, maker, stopped,
    dropped,
    record, srv, byHand, alien, start, stop, mgrEvents, calm, since, orphaned,
    pairings, used, attempts, sessions, disk, trust, aged, launches, exits, kiosk, brwEvents, born, revoked,
    dirty, unheard, overlap,
    source, remote, blobs, local, media, shown, launch, libRun, begun, libEvents, unsettled,
    mode, holder, links, recorded, proxies, es, quiet, catalog, cached, modSource, proc, runs, faults,
    modEvents, torn, stranded,
    root, catSource, names, selected, writes, rows, records, files, catCached, catUsed, catProc, catRuns,
    mishaps,
    live, candidate, backup, ui, uiBefore, updRecord, manager, wasRunning, pc, target, out, before,
    updFaults, updates,
    fs, running, busy, mount, share, evidence, remRun, report, remOut, remRuns, remFaults, remEvents,
    config, secrets, note, setMounted, baseline, ledger, home, taken, online, legacy, setRun, setBefore,
    complete, spoiled, claimed, setups, setFaults, setEvents,
    page, osk, field, form, listed, spot, here, runner, strays, checked, wizConfig, keyOf, trusted, sent,
    wizUsed,
    drive, late, token, asked, gooRoot, account, codes, spent, gooRevoked, gen, gooProc, alone, crossed,
    excused, tasks, gooFaults, gooEvents,
    script, older, enabled, stuRecord, boot, serves, stuLegacy, install, stuStart, changedAt, stuCut,
    pending, failedAt, installs, starts, stuFaults,
    jrnRemote, journal, jrnLocal, base, known, jrnDirty, conflicts, playing, cursor, jrnRun, unseen, shared,
    edits, jrnFaults,
    dirMount, dirLocal, shadow, dirRemote, dirBase, agreed, dirConflicts, manifest, dirNet, dirPlaying,
    dirRun, answer, saves, dirRuns, dirFaults

Mnt == INSTANCE Mounting WITH
    Workers <- {w1, w2}, Command <- cli, Nobody <- nobody, Source <- romShare, RemoteData <- dataShare,
    Targets <- <<romShare, dataShare>>, Attempts <- 1, MaxEvents <- 1
Mgr == INSTANCE Manager WITH
    Servers <- {s1, s2, s3}, Starters <- {c1, c2}, Nobody <- nobody, MaxEvents <- 2, events <- mgrEvents
Brw == INSTANCE Browser WITH
    Tokens <- {t1, t2}, Codes <- {k1, k2}, Peers <- {p1}, Launches <- {l1, l2}, MaxPairings <- 1,
    MaxSessions <- 1, MaxAttempts <- 1, MaxLaunches <- 2, MaxEvents <- 1, events <- brwEvents
Lib == INSTANCE LibrarySync WITH
    Games <- {g1}, Devices <- {d1, d2}, Direct <- {d2}, Runs <- {r1, r2}, None <- none, Texts <- {textA},
    Images <- {imgX, imgY}, Sources <- {[g \in {g1} |-> [text |-> textA, image |-> i]] : i \in {none, imgX}},
    MaxRuns <- 2, MaxEvents <- 1, run <- libRun, events <- libEvents
Mod == INSTANCE OperatingMode WITH
    Games <- {g1}, Procs <- {p1, p2}, None <- none, MaxRuns <- 2, MaxFaults <- 1, MaxEvents <- 1,
    source <- modSource, events <- modEvents
Cat == INSTANCE Catalog WITH
    Files <- {cue, trk, game}, Cue <- cue, Track <- trk, Dir <- folder, Under <- {game},
    TitleOf <- [f \in {cue, trk, game, folder} |-> IF f = trk THEN game ELSE f], Ids <- 1..4, Procs <- {p1},
    None <- none, MaxRuns <- 3, MaxMishaps <- 1, source <- catSource, cached <- catCached, used <- catUsed,
    proc <- catProc, runs <- catRuns
Upd == INSTANCE Update WITH
    Releases <- {0, 1, 2}, None <- none, Torn <- tornFile, MaxUpdates <- 3, record <- updRecord,
    faults <- updFaults
Rem == INSTANCE Removal WITH
    MaxRuns <- 2, MaxFaults <- 1, MaxEvents <- 1, run <- remRun, out <- remOut, runs <- remRuns,
    faults <- remFaults, events <- remEvents
Set == INSTANCE Setup WITH
    Sources <- {romShare}, Remotes <- {dataShare, otherData}, Caches <- {folder}, None <- none,
    Torn <- tornFile, MaxSetups <- 2, MaxFaults <- 2, MaxEvents <- 1, mounted <- setMounted, run <- setRun,
    before <- setBefore, faults <- setFaults, events <- setEvents
Wiz == INSTANCE Wizard WITH
    Hosts <- {h1, h2}, Keys <- {k1, k2}, FirstKey <- [h \in {h1, h2} |-> IF h = h1 THEN k1 ELSE k2],
    Folders <- {folder}, Top <- folder, None <- none, SourceTypes <- {"none"}, DataTypes <- {"sftp", "smb"},
    MaxChoices <- 2, MaxTyped <- 2, MaxRekeys <- 0, MaxStrays <- 1, config <- wizConfig, used <- wizUsed
Goo == INSTANCE GoogleDrive WITH
    Procs <- {p1, p2}, Accounts <- {a1, a2}, None <- none, MaxIds <- 2, MaxCodes <- 2, MaxTasks <- 2,
    MaxFaults <- 1, MaxEvents <- 1, root <- gooRoot, revoked <- gooRevoked, proc <- gooProc,
    faults <- gooFaults, events <- gooEvents
Stu == INSTANCE Startup WITH
    MaxBoots <- 3, MaxInstalls <- 2, MaxStarts <- 2, MaxFaults <- 1, record <- stuRecord,
    legacy <- stuLegacy, start <- stuStart, cut <- stuCut, faults <- stuFaults
Jrn == INSTANCE JournalSync WITH
    Devices <- {d1, d2}, Files <- {m1, m2}, GroupOf <- [f \in {m1, m2} |-> IF f = m1 THEN g1 ELSE g2],
    LayoutOf <- [g \in {g1, g2} |-> IF g = g1 THEN a1 ELSE a2], None <- none, MaxEdits <- 2, MaxHistory <- 1,
    MaxFaults <- 1, remote <- jrnRemote, local <- jrnLocal, dirty <- jrnDirty, run <- jrnRun,
    faults <- jrnFaults
Dir == INSTANCE DirectSaves WITH
    Routes <- {g1}, Gone <- gone, None <- none, MaxSaves <- 4, MaxRuns <- 2, MaxFaults <- 1,
    mount <- dirMount, local <- dirLocal, remote <- dirRemote, base <- dirBase, conflicts <- dirConflicts,
    net <- dirNet, playing <- dirPlaying, run <- dirRun, runs <- dirRuns, faults <- dirFaults
ASSUME ServicesAssumption ==
    /\ Mnt!MountingAssumption
    /\ Mgr!ManagerAssumption
    /\ Brw!BrowserAssumption
    /\ Lib!LibrarySyncAssumption
    /\ Mod!OperatingModeAssumption
    /\ Cat!CatalogAssumption
    /\ Upd!UpdateAssumption
    /\ Rem!RemovalAssumption
    /\ Set!SetupAssumption
    /\ Wiz!WizardAssumption
    /\ Goo!GoogleDriveAssumption
    /\ Stu!StartupAssumption
    /\ Jrn!JournalSyncAssumption
    /\ Dir!DirectSavesAssumption
-----------------------------------------------------------------------------
(* The one that runs, and the others in an initial state, which they keep. *)

mntVars == <<lock, status, avail, cache, mounted, stray, net, run, halt, events, owed, cut, author, maker,
            stopped, dropped>>
mgrVars == <<record, srv, byHand, alien, start, stop, mgrEvents, calm, since, orphaned>>
brwVars == <<pairings, used, attempts, sessions, disk, trust, aged, launches, exits, kiosk, brwEvents, born,
            revoked, dirty, unheard, overlap>>
libVars == <<source, remote, blobs, local, media, shown, launch, libRun, begun, libEvents, unsettled>>
modVars == <<mode, holder, links, recorded, proxies, es, quiet, catalog, cached, modSource, proc, runs,
            faults, modEvents, torn, stranded>>
catVars == <<root, catSource, names, selected, writes, rows, records, files, catCached, catUsed, catProc,
            catRuns, mishaps>>
updVars == <<live, candidate, backup, ui, uiBefore, updRecord, manager, wasRunning, pc, target, out, before,
            updFaults, updates>>
remVars == <<fs, running, busy, mount, share, evidence, remRun, report, remOut, remRuns, remFaults, remEvents>>
setVars == <<config, secrets, note, setMounted, baseline, ledger, home, taken, online, legacy, setRun,
            setBefore, complete, spoiled, claimed, setups, setFaults, setEvents>>
wizVars == <<page, osk, field, form, listed, spot, here, runner, strays, checked, wizConfig, keyOf, trusted,
            sent, wizUsed>>
gooVars == <<drive, late, token, asked, gooRoot, account, codes, spent, gooRevoked, gen, gooProc, alone,
            crossed, excused, tasks, gooFaults, gooEvents>>
stuVars == <<script, older, enabled, stuRecord, boot, serves, stuLegacy, install, stuStart, changedAt, stuCut,
            pending, failedAt, installs, starts, stuFaults>>
jrnVars == <<jrnRemote, journal, jrnLocal, base, known, jrnDirty, conflicts, playing, cursor, jrnRun, unseen,
            shared, edits, jrnFaults>>
dirVars == <<dirMount, dirLocal, shadow, dirRemote, dirBase, agreed, dirConflicts, manifest, dirNet,
            dirPlaying, dirRun, answer, saves, dirRuns, dirFaults>>
vars == <<part, mntVars, mgrVars, brwVars, libVars, modVars, catVars, updVars, remVars, setVars, wizVars, gooVars, stuVars, jrnVars, dirVars>>

MntNext ==
    /\ part = "mounting" /\ Mnt!Next
    /\ UNCHANGED <<part, mgrVars, brwVars, libVars, modVars, catVars, updVars, remVars, setVars, wizVars, gooVars, stuVars, jrnVars, dirVars>>
MgrNext ==
    /\ part = "manager" /\ Mgr!Next
    /\ UNCHANGED <<part, mntVars, brwVars, libVars, modVars, catVars, updVars, remVars, setVars, wizVars, gooVars, stuVars, jrnVars, dirVars>>
BrwNext ==
    /\ part = "browser" /\ Brw!Next
    /\ UNCHANGED <<part, mntVars, mgrVars, libVars, modVars, catVars, updVars, remVars, setVars, wizVars, gooVars, stuVars, jrnVars, dirVars>>
LibNext ==
    /\ part = "library" /\ Lib!Next
    /\ UNCHANGED <<part, mntVars, mgrVars, brwVars, modVars, catVars, updVars, remVars, setVars, wizVars, gooVars, stuVars, jrnVars, dirVars>>
ModNext ==
    /\ part = "mode" /\ Mod!Next
    /\ UNCHANGED <<part, mntVars, mgrVars, brwVars, libVars, catVars, updVars, remVars, setVars, wizVars, gooVars, stuVars, jrnVars, dirVars>>
CatNext ==
    /\ part = "catalog" /\ Cat!Next
    /\ UNCHANGED <<part, mntVars, mgrVars, brwVars, libVars, modVars, updVars, remVars, setVars, wizVars, gooVars, stuVars, jrnVars, dirVars>>
UpdNext ==
    /\ part = "update" /\ Upd!Next
    /\ UNCHANGED <<part, mntVars, mgrVars, brwVars, libVars, modVars, catVars, remVars, setVars, wizVars, gooVars, stuVars, jrnVars, dirVars>>
RemNext ==
    /\ part = "removal" /\ Rem!Next
    /\ UNCHANGED <<part, mntVars, mgrVars, brwVars, libVars, modVars, catVars, updVars, setVars, wizVars, gooVars, stuVars, jrnVars, dirVars>>
SetNext ==
    /\ part = "setup" /\ Set!Next
    /\ UNCHANGED <<part, mntVars, mgrVars, brwVars, libVars, modVars, catVars, updVars, remVars, wizVars, gooVars, stuVars, jrnVars, dirVars>>
WizNext ==
    /\ part = "wizard" /\ Wiz!Next
    /\ UNCHANGED <<part, mntVars, mgrVars, brwVars, libVars, modVars, catVars, updVars, remVars, setVars, gooVars, stuVars, jrnVars, dirVars>>
GooNext ==
    /\ part = "google" /\ Goo!Next
    /\ UNCHANGED <<part, mntVars, mgrVars, brwVars, libVars, modVars, catVars, updVars, remVars, setVars, wizVars, stuVars, jrnVars, dirVars>>
StuNext ==
    /\ part = "startup" /\ Stu!Next
    /\ UNCHANGED <<part, mntVars, mgrVars, brwVars, libVars, modVars, catVars, updVars, remVars, setVars, wizVars, gooVars, jrnVars, dirVars>>
JrnNext ==
    /\ part = "journal" /\ Jrn!Next
    /\ UNCHANGED <<part, mntVars, mgrVars, brwVars, libVars, modVars, catVars, updVars, remVars, setVars, wizVars, gooVars, stuVars, dirVars>>
DirNext ==
    /\ part = "direct" /\ Dir!Next
    /\ UNCHANGED <<part, mntVars, mgrVars, brwVars, libVars, modVars, catVars, updVars, remVars, setVars, wizVars, gooVars, stuVars, jrnVars>>

Init ==
    /\ part \in {"mounting", "manager", "browser", "library", "mode", "catalog", "update", "removal", "setup", "wizard", "google", "startup", "journal", "direct"}
    /\ Mnt!Init
    /\ part # "mounting" => lock = Mnt!NoLock /\ net = "name" /\ mounted = [t \in {romShare, dataShare} |-> "none"]
    /\ Mgr!Init
    /\ part # "manager" => record = nobody
    /\ Brw!Init
    /\ Lib!Init
    /\ part # "library" => source = [g \in {g1} |-> [text |-> textA, image |-> imgX]]
    /\ Mod!Init
    /\ part # "mode" => cached = {}
    /\ Cat!Init
    /\ part # "catalog" => catSource = {cue, trk} /\ names = TRUE /\ writes = TRUE /\ catUsed = {}
    /\ Upd!Init
    /\ part # "update" => manager = TRUE
    /\ Rem!Init
    /\ part # "removal" => fs = [i \in Rem!Items |-> "ours"] /\ mount = "none"
    /\ Set!Init
    /\ part # "setup" => home = none /\ taken = {} /\ legacy = FALSE
    /\ Wiz!Init
    /\ Goo!Init
    /\ part # "google" => account = [c \in {1, 2} |-> IF c = 1 THEN a1 ELSE none]
    /\ Stu!Init
    /\ part # "startup" => script = "none" /\ older = "none" /\ stuLegacy = FALSE
    /\ Jrn!Init
    /\ Dir!Init
    /\ part # "direct" => dirMount = [r \in {g1} |-> "owned"] /\ shadow = [r \in {g1} |-> 1] /\ dirLocal = [r \in {g1} |-> 0] /\ dirBase = [r \in {g1} |-> 1] /\ dirNet = TRUE
Next == MntNext \/ MgrNext \/ BrwNext \/ LibNext \/ ModNext \/ CatNext \/ UpdNext \/ RemNext \/ SetNext \/ WizNext \/ GooNext \/ StuNext \/ JrnNext \/ DirNext
Spec == Init /\ [][Next]_vars
-----------------------------------------------------------------------------

\* A reported success is true, and an outage that was met is announced but by the named
\* routes; a start that fails takes down what it mounted, and nobody else's mount is touched.
MountsHonest ==
    /\ [](part = "mounting" => Mnt!TypeOK /\ Mnt!SuccessIsMounted /\ Mnt!OutageAnnounced)
    /\ [][part = "mounting" => Mnt!UndoesOwnMountsStep /\ Mnt!ForeignUntouchedStep]_mntVars

\* A server that serves can be found and stopped; requests made together agree on one
\* server, and a request that succeeded leaves one that serves.
ServerHonest == part = "manager" => Mgr!ServerHonest

\* A pairing code makes one session, a revocation is final across restarts, what is to
\* be remembered is, and a request to close reaches the browser that runs.
SessionsHonest ==
    /\ [](part = "browser" => Brw!TypeOK /\ Brw!SingleUse /\ Brw!RevokedForGood /\ Brw!RestartRemembers)
    /\ [][part = "browser" => Brw!ExitHeardStep]_brwVars

\* Of the shared library nothing canonical vanishes or changes, an image is there before
\* it is named, and a gamelist offers what can be launched and keeps what is the user's.
LibraryKept ==
    /\ [](part = "library" => Lib!TypeOK /\ Lib!BlobsFirst /\ Lib!ImageThere /\ Lib!NoGhost)
    /\ [][part = "library" => Lib!CanonKeptStep /\ Lib!OwnKeptStep]_libVars

\* What is shown is what the mode file says, but for the downloads after a first call to
\* the manager that timed out; the answer of a switch is true, after any failure it rolls back.
ModeShown ==
    /\ [](part = "mode" => Mod!TypeOK /\ Mod!ShownAsStored)
    /\ [][part = "mode" => Mod!AnswerTrueStep]_modVars

\* A refresh that succeeds leaves one game for every file, with its proxy and its
\* download; a proxy launches its own game, and a file of the user's is never taken.
CatalogTrue ==
    /\ [](part = "catalog" => Cat!TypeOK /\ Cat!ProxyTruthful)
    /\ [][part = "catalog" =>
            /\ Cat!CatalogMatchesStep
            /\ Cat!DownloadsKeptStep
            /\ Cat!UserFilesKeptStep]_catVars

\* An update that failed leaves what was installed and recorded before it, but for what
\* nothing rolls back; what is recorded is what runs, and a server that stays down is reported.
UpdateSafe == part = "update" => Upd!UpdateSafe

\* A removal reports what it left while its evidence is there, keeps what the rest needs
\* as proof, and takes neither the share nor anything that is not ROMCloud's.
RemovalSafe ==
    /\ [](part = "removal" => Rem!TypeOK /\ Rem!ShareKept /\ Rem!LeftIsReported /\ Rem!EvidenceKept)
    /\ [][part = "removal" => Rem!ForeignKeptStep]_remVars

\* A setup that fails leaves the device as it was or says so, one that is completed has
\* the baseline of its own dataset, and what was looked at and empty may be deleted later.
\* The answer a page of the wizard takes is to what that page asked, shares are offered of the
\* server that is entered, a password goes to a trusted key only, and what a setup is started
\* with was validated.
\* A Google account never has two folders of the device unless two processes cross, a probe that is
\* left is reported, and an outage never signs the device out.
SetupHonest ==
    /\ [](part = "setup" => Set!TypeOK /\ Set!OneFailureShows /\ Set!CompletedFits /\ Set!ClaimedWasEmpty)
    /\ [][part = "setup" => Set!PreviousKeptStep]_setVars
    /\ [](part = "wizard" => Wiz!TypeOK /\ Wiz!AnswerFits /\ Wiz!OffersFit /\ Wiz!TrustedOnly)
    /\ [][part = "wizard" => Wiz!CheckedFirstStep]_wizVars
    /\ [](part = "google" => Goo!TypeOK /\ Goo!OneRoot /\ Goo!LeftoverReported)
    /\ [][part = "google" => Goo!GrantKeptStep]_gooVars

\* A change of the startup service is announced until a start on a later boot has shown
\* it, and a boot whose start failed says so.
StartupTold ==
    /\ [](part = "startup" => Stu!TypeOK /\ Stu!RestartShown /\ Stu!FailureShown)
    /\ [][part = "startup" => Stu!ClearedUnlessPendingStep]_stuVars

\* A change of a peer is found, and one of the device remembered until it is shared, but for
\* the named routes; a sync replaces only what was known or shared.
ChangesFound ==
    /\ [](part = "journal" => Jrn!TypeOK /\ Jrn!OverlookedOnlyByHoles /\ Jrn!LocalRemembered)
    /\ [][part = "journal" => Jrn!ReplacesOnlySharedStep]_jrnVars

\* The retirement of a mounted save directory drops no save that is not superseded, and when
\* its manifest goes the saves are where the games find them.
RoutesRetired ==
    /\ [](part = "direct" => Dir!TypeOK)
    /\ [][part = "direct" => Dir!NothingDroppedStep /\ Dir!RetiredIsLocalStep]_dirVars
=============================================================================
