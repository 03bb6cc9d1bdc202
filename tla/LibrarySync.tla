---------------------------- MODULE LibrarySync ----------------------------
(***************************************************************************)
(* The metadata and artwork of a game shared by several devices: the       *)
(* canonical record on the remote data share with its content-addressed    *)
(* blobs, each device's own copy of the record, and the gamelist that      *)
(* EmulationStation shows and its user edits.                              *)
(*                                                                         *)
(* A record has one text and one image.  A text, and the content of an     *)
(* image, is a value; a fingerprint that matches means the content is the  *)
(* one that was hashed.  A run is one process: a sync or a pull, quick or  *)
(* full, or a presentation change that renders what the device knows.      *)
(***************************************************************************)
EXTENDS Naturals, FiniteSets

CONSTANTS Games, Devices, Direct,   \* devices in Connected mode, which show the source itself
          Runs, None,
          Texts, Images,            \* texts of a game; contents of an image file
          Sources,                  \* what the source may hold at first
          MaxRuns, MaxEvents        \* runs; edits of the source, of a gamelist, failures

LibrarySyncAssumption ==
    /\ Direct \subseteq Devices
    /\ Sources \subseteq [Games -> [text : Texts \cup {None}, image : Images \cup {None}]]
    /\ None \notin Texts \cup Images /\ MaxRuns \in Nat /\ MaxEvents \in Nat

VARIABLES
    source,            \* gamelist.xml and image file on the ROM share
    remote, blobs,     \* library.json and media/sha256 on the data share
    local, media,      \* library.json and rendered media of each device
    shown,             \* the entry of each game in its gamelist
    launch,            \* the proxies of each device that are there
    run, begun, events,
    unsettled          \* history: the devices where a rendering overlapped a change of the proxies, or failed after it

shares == <<source, remote, blobs>>
device == <<local, media, shown, launch>>
vars == <<shares, device, run, begun, events, unsettled>>

NoRecord == [there |-> FALSE, text |-> None, image |-> None, src |-> FALSE]
NoEntry == [owner |-> None, text |-> None, image |-> None]
Idle == [pc |-> "off", on |-> None, kind |-> None, full |-> FALSE, record |-> [g \in Games |-> NoRecord],
         origin |-> [g \in Games |-> None], view |-> [g \in Games |-> NoEntry], launch |-> {}]
Event == events < MaxEvents /\ events' = events + 1
Start(r) == run[r].pc = "off" /\ begun < MaxRuns /\ begun' = begun + 1
On(d) == {r \in Runs : run[r].on = d}
Launchable(d) == IF d \in Direct THEN Games ELSE launch[d]

Init ==
    /\ source \in Sources
    /\ remote = [g \in Games |-> NoRecord] /\ blobs = {}
    /\ local = [d \in Devices |-> [g \in Games |-> NoRecord]] /\ media = [d \in Devices |-> {}]
    /\ shown = [d \in Devices |-> [g \in Games |-> NoEntry]]
    /\ launch = [d \in Devices |-> Games]
    /\ run = [r \in Runs |-> Idle] /\ begun = 0 /\ events = 0 /\ unsettled = {}

-----------------------------------------------------------------------------
(* Records. *)

FirstNew(a, b) == IF b # None THEN b ELSE a  \* mutant: the incoming value wins
FirstSource(a, b) == IF a # None THEN a ELSE "source"  \* mutant: the name is taken for the text
First(a, b) == IF a # None THEN a ELSE b
\* _merge: what is canonical is kept, what it lacks is taken over.
Merge(a, b) ==
    [there |-> a.there \/ b.there, text |-> First(a.text, b.text),
     image |-> First(a.image, b.image), src |-> a.src \/ b.src]

\* _import_one_xml for the source and then for the device: the text, and the
\* file that the image comes from.
Imported(g, d) ==
    LET entry == shown[d][g]
        file == IF entry.image = "source" THEN source[g].image ELSE entry.image
        fromSource == source[g].image # None
    IN [record |-> [there |-> TRUE, text |-> First(source[g].text, entry.text), image |-> None,
                    src |-> fromSource \/ (entry.image = "source" /\ file # None)],
        origin |-> IF fromSource THEN "source" ELSE file]

\* _materialize_remote_media, for one game: present blobs are skipped unless the
\* run is full, a changed source file replaces its own image, another file does not.
Content(g, origin) == IF origin = "source" THEN source[g].image ELSE origin
Materialized(g, rec, origin, full) ==
    LET file == Content(g, origin)
    IN IF origin = None \/ (~full /\ rec.image \in blobs) THEN rec
       ELSE IF rec.image \notin {None, file} /\ ~(origin = "source" /\ rec.src) THEN rec
       ELSE [rec EXCEPT !.image = file]

-----------------------------------------------------------------------------
(* A run: _run. *)

Step(r, pc) == run' = [run EXCEPT ![r].pc = pc]
LockIgnored == TRUE  \* mutant: two runs publish at the same time
LockFree == \A q \in Runs : run[q].pc \notin {"media", "publish"} \/ run[q].kind # "sync"

Seed == [NoRecord EXCEPT !.there = TRUE]     \* of a game of the catalog
Gathered(d) == [g \in Games |-> Imported(g, d)]
\* The lock, the catalog, the remote and the local record, the gamelists.
Begin(r, d, kind, full) ==
    LET imported(g) == Gathered(d)[g]
    IN /\ Start(r)
       /\ kind = "sync" => LockFree
       /\ run' = [run EXCEPT ![r] = [Idle EXCEPT !.pc = IF kind = "sync" THEN "media" ELSE "keep", !.on = d, !.kind = kind, !.full = full, !.launch = Launchable(d),
                    !.record = [g \in Games |-> Merge(Merge(Merge(remote[g], local[d][g]), Seed), imported(g).record)],
                    !.origin = [g \in Games |-> imported(g).origin]]]
       /\ UNCHANGED <<shares, device, events, unsettled>>

\* _copy_verified, for the images that this run names, before it names them.
CopiedLate(r, new) == {}  \* mutant: the images are named before they are copied
Copied(r, new) ==
    ({Content(g, run[r].origin[g]) : g \in Games} \cap {new[g].image : g \in Games}) \ {None}
\* An image file that has gone, or changes while it is read, ends the run.
Missing(r) == \E g \in Games : run[r].origin[g] = "source" /\ source[g].image = None
Media(r) ==
    LET new == [g \in Games |-> Materialized(g, run[r].record[g], run[r].origin[g], run[r].full)]
    IN /\ run[r].pc = "media" /\ ~Missing(r)
       /\ blobs' = blobs \cup Copied(r, new)
       /\ run' = [run EXCEPT ![r].pc = "publish", ![r].record = new, ![r].full = FALSE, ![r].origin = Idle.origin]
       /\ UNCHANGED <<source, remote, device, events, unsettled, begun>>
Fail(r) ==
    /\ run[r].pc \in {"media", "publish", "keep", "read"}
    /\ (run[r].pc = "media" /\ Missing(r) /\ UNCHANGED events) \/ Event
    /\ run' = [run EXCEPT ![r] = Idle]
    /\ unsettled' = IF run[r].kind = "render" THEN unsettled \cup {run[r].on} ELSE unsettled
    /\ UNCHANGED <<shares, device, begun>>
Publish(r) ==
    /\ run[r].pc = "publish" /\ remote' = run[r].record
    /\ Step(r, "keep")
    /\ UNCHANGED <<source, blobs, device, events, unsettled, begun>>
\* After the remote lock is released.
Keep(r) ==
    /\ run[r].pc = "keep" /\ local' = [local EXCEPT ![run[r].on] = run[r].record]
    /\ Step(r, "read")
    /\ UNCHANGED <<shares, media, shown, launch, events, unsettled, begun>>

-----------------------------------------------------------------------------
(* The gamelist: _render_system reads it, and replaces it later. *)

Read(r) ==
    LET d == run[r].on
    IN /\ run[r].pc = "read"
       /\ run' = [run EXCEPT ![r].pc = "write", ![r].view = shown[d], ![r].launch = @ \cap Launchable(d)]
       /\ unsettled' = IF \E q \in On(d) \ {r} : run[q].pc = "write" THEN unsettled \cup {d} ELSE unsettled
       /\ UNCHANGED <<shares, device, events, begun>>

\* _render_media: the image of an entry, and what of it is copied from the share.  A
\* Connected device launches from the source and shows the image that is there.
Fetched(r, g) ==
    LET rec == run[r].record[g]
    IN IF ~(run[r].on \in Direct /\ rec.src) /\ run[r].kind # "render" /\ rec.image \in blobs
       THEN {rec.image} ELSE {}
OnShare(r, g) == run[r].record[g].image \in blobs  \* mutant: the blob of the share is taken for the copy
OnDevice(r, g) == run[r].record[g].image \in media[run[r].on] \cup Fetched(r, g)
Shown(r, g) ==
    LET d == run[r].on
        rec == run[r].record[g]
        old == run[r].view[g].image
    IN IF rec.image = None /\ ~rec.src THEN old
       ELSE IF d \in Direct /\ rec.src THEN "source"
       ELSE IF rec.image = None THEN None
       ELSE IF OnDevice(r, g) THEN rec.image
       ELSE IF run[r].kind = "render" THEN None
       ELSE old                                    \* it could not be copied
ForgetAll(entry) == NoEntry  \* mutant: whatever is not a known game goes
ForgetNothing(entry) == entry  \* mutant: an entry without a launch path stays
Forget(entry) == IF entry.owner = "romcloud" THEN NoEntry ELSE entry
Entry(r, g) ==
    IF g \in run[r].launch /\ run[r].record[g].there
    THEN [owner |-> "romcloud", text |-> First(run[r].record[g].text, run[r].view[g].text), image |-> Shown(r, g)]
    ELSE Forget(run[r].view[g])
Write(r) ==
    LET d == run[r].on
    IN /\ run[r].pc = "write"
       /\ shown' = [shown EXCEPT ![d] = [g \in Games |-> Entry(r, g)]]
       /\ media' = [media EXCEPT ![d] = @ \cup UNION {Fetched(r, g) : g \in run[r].launch}]
       /\ run' = [run EXCEPT ![r] = Idle]
       /\ UNCHANGED <<shares, local, launch, events, unsettled, begun>>

\* A change of the presentation: the proxies, and then render_local.
Present(r, d) ==
       /\ Start(r)
       /\ \E there \in SUBSET Games :
            /\ launch' = [launch EXCEPT ![d] = there]
            /\ run' = [run EXCEPT ![r] = [Idle EXCEPT !.pc = "read", !.on = d, !.kind = "render", !.record = local[d],
                                                   !.launch = IF d \in Direct THEN Games ELSE there]]
       /\ unsettled' = IF \E q \in On(d) \ {r} : run[q].pc = "write" THEN unsettled \cup {d} ELSE unsettled
       /\ UNCHANGED <<shares, local, media, shown, events>>

Unlisted(d) == [g \in Games |-> Forget(shown[d][g])]
\* The removal of the program: the owned entries, then the verified media.
Remove(d) ==
    /\ On(d) = {}
    /\ shown' = [shown EXCEPT ![d] = Unlisted(d)]
    /\ media' = [media EXCEPT ![d] = @ \ {local[d][g].image : g \in Games}]
    /\ UNCHANGED <<shares, local, launch, run, events, unsettled, begun>>

-----------------------------------------------------------------------------
(* The user, and EmulationStation. *)

EditSource ==
    /\ Event /\ \E g \in Games : source' \in {[source EXCEPT ![g].image = i] : i \in Images \cup {None}} \cup {[source EXCEPT ![g].text = t] : t \in Texts}
    /\ UNCHANGED <<remote, blobs, device, run, unsettled, begun>>
EditShown(d) ==
    /\ Event /\ \E g \in Games, t \in Texts :
         shown' = [shown EXCEPT ![d][g] = IF @.owner = None THEN [owner |-> "user", text |-> t, image |-> None] ELSE [@ EXCEPT !.text = t]]
    /\ UNCHANGED <<shares, local, media, launch, run, unsettled, begun>>

Next ==
    \/ \E r \in Runs :
         \/ \E d \in Devices, full \in BOOLEAN : Begin(r, d, "sync", full)
         \/ \E d \in Devices : Begin(r, d, "pull", FALSE) \/ Present(r, d)
         \/ Media(r) \/ Fail(r) \/ Publish(r) \/ Keep(r) \/ Read(r) \/ Write(r)
    \/ \E d \in Devices : EditShown(d) \/ Remove(d)
    \/ EditSource
Spec == Init /\ [][Next]_vars

-----------------------------------------------------------------------------
(* Properties. *)

Record == [there : BOOLEAN, text : Texts \cup {None}, image : Images \cup {None}, src : BOOLEAN]
Shows == [owner : {None, "user", "romcloud"}, text : Texts \cup {None}, image : Images \cup {None, "source"}]
TypeOK ==
    /\ source \in [Games -> [text : Texts \cup {None}, image : Images \cup {None}]]
    /\ remote \in [Games -> Record] /\ blobs \subseteq Images
    /\ local \in [Devices -> [Games -> Record]] /\ media \in [Devices -> SUBSET Images]
    /\ shown \in [Devices -> [Games -> Shows]] /\ launch \in [Devices -> SUBSET Games]
    /\ \A r \in Runs : run[r].pc \in {"off", "media", "publish", "keep", "read", "write"}
    /\ begun \in 0..MaxRuns /\ events \in 0..MaxEvents /\ unsettled \subseteq Devices

\* What is canonical stays so, however the runs of several devices interleave: a
\* record does not vanish, a text that is set is not changed by anybody, and an
\* image is never taken out.
CanonKeptStep ==
    \A g \in Games : /\ remote[g].there => remote'[g].there
                     /\ remote[g].text # None => remote'[g].text = remote[g].text
                     /\ remote[g].image # None => remote'[g].image # None
CanonKept == [][CanonKeptStep]_vars

\* An image that the canonical record names has been copied to the share before,
\* so that every other device can fetch it.
BlobsFirst == \A g \in Games : remote[g].image # None => remote[g].image \in blobs

\* An image that a gamelist names is on the device.
ImageThere == \A d \in Devices, g \in Games : shown[d][g].image \in Images => shown[d][g].image \in media[d]

\* A game that cannot be launched is not offered, once the runs of the device are
\* over, unless one of them rendered across a change of the proxies.
NoGhost ==
    \A d \in Devices \ unsettled, g \in Games :
       On(d) = {} /\ g \notin Launchable(d) => shown[d][g].owner # "romcloud"

\* No step takes an entry of the user's own out of the gamelist, except where it
\* was made while a gamelist was being rewritten.
OwnKeptStep ==
    \A d \in Devices, g \in Games :
      shown[d][g].owner = "user" /\ shown'[d][g].owner = None =>
        \E r \in On(d) : run[r].pc = "write" /\ run[r].view[g] # shown[d][g]
OwnKept == [][OwnKeptStep]_vars
=============================================================================
