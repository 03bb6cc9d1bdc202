------------------------------ MODULE Mounting ------------------------------
(***************************************************************************)
(* The storage locations of one device: the detached mount workers with    *)
(* their lock, status and availability files, the blocking `mount start`,  *)
(* `mount stop` and `mount remove`, a network that comes and goes, and a   *)
(* mount command that the kernel may finish after it was given up.         *)
(*                                                                         *)
(* The lock file is a record of the worker that created it and of whether  *)
(* it has written its pid: a file that is unlinked and created again is    *)
(* another file.  Time is not modelled: a deadline passes when the bounded *)
(* attempts are used up.                                                   *)
(***************************************************************************)
EXTENDS Naturals, Sequences, FiniteSets

CONSTANTS Workers, Command, Nobody,          \* `mount worker` processes, `mount start`
          Targets, Source, RemoteData,       \* a sequence of its two elements, or of one
          Attempts, MaxEvents                \* network changes, faults, stops and interactive starts

MountingAssumption ==
    /\ Command \notin Workers /\ Nobody \notin Workers \cup {Command}
    /\ Targets \in {<<Source>>, <<RemoteData>>, <<Source, RemoteData>>} /\ Source # RemoteData
    /\ {Attempts, MaxEvents} \subseteq Nat

VARIABLES
    lock, status, avail, cache,              \* the files under run/
    mounted, stray, net,                     \* kernel and network
    run,                                     \* workers and the command
    halt,                                    \* `mount stop` or `mount remove`
    events,                                  \* how many of the bounded events have happened
    owed, cut, author, maker, stopped,       \* history: see the properties
    dropped                                  \* history: why an outage that is owed was not announced

files == <<lock, status, avail, cache>>
kernel == <<mounted, stray, net>>
history == <<owed, cut, author, maker, stopped, dropped>>
vars == <<files, kernel, run, halt, events, history>>

Procs == Workers \cup {Command}
Locations == {Targets[i] : i \in DOMAIN Targets}
NoLock == [owner |-> Nobody, signed |-> FALSE]
Off == [pc |-> "off", at |-> 1, seen |-> FALSE, stop |-> FALSE, tries |-> 0, via |-> "direct", mine |-> {},
        prev |-> "unread"]

End(pc) == [Off EXCEPT !.pc = pc]            \* what it kept no longer matters
At(p, pc) == run[p].pc = pc
Location(p) == Targets[run[p].at]
Alive(p) == p \in Workers /\ run[p].pc \notin {"off", "gone"}
Held == lock.signed /\ Alive(lock.owner)     \* is_worker_running, before it removes the file
Ready(t) == mounted[t] = "ours"
Event == events < MaxEvents /\ events' = events + 1
Reaches(p) == IF run[p].via = "cached" THEN cache = "good" /\ net # "down" ELSE net = "name"
Hit == {p \in Procs : run[p].pc \notin {"off", "gone"}}

Init ==
    /\ lock \in {NoLock, [owner |-> Nobody, signed |-> TRUE]}      \* the latter left by a power loss
    /\ status = "none" /\ avail = "unknown" /\ stray = {}
    /\ \/ cache = "none" /\ net = "name"
       \/ cache = "stale" /\ net = "down"
    /\ \E foreign \in {{}, {Targets[Len(Targets)]}} :
         mounted = [t \in Locations |-> IF t \in foreign THEN "foreign" ELSE "none"]
    /\ run = [p \in Procs |-> Off] /\ halt = [pc |-> "off", victim |-> Nobody, left |-> 0, clean |-> FALSE]
    /\ events = 0
    /\ owed = FALSE /\ cut = {} /\ author = Nobody /\ maker = [t \in Locations |-> Nobody] /\ stopped = FALSE /\ dropped = {}

Active == {w \in Workers : Alive(w)}
Within == {w \in Active : run[w].pc \notin {"spawned", "purge", "create"}}   \* have created the file

-----------------------------------------------------------------------------
(* The environment: the network, the kernel, a loss of power. *)

Network ==
    /\ Event
    /\ net' \in {"down", "address", "name"} \ {net}
    /\ UNCHANGED <<files, mounted, stray, run, halt, history>>

\* The kernel completes a mount whose command was killed.
Straggle(t) ==
    /\ t \in stray /\ stray' = stray \ {t}
    /\ mounted' = [mounted EXCEPT ![t] = IF @ = "none" THEN "ours" ELSE @]
    /\ maker' = [maker EXCEPT ![t] = IF mounted[t] = "none" THEN Nobody ELSE @]
    /\ UNCHANGED <<files, net, run, halt, events, owed, cut, author, stopped, dropped>>

PowerLoss ==
    /\ Event
    /\ mounted' = [t \in Locations |-> IF Ready(t) THEN "none" ELSE mounted[t]] /\ stray' = {}
    /\ run' = [p \in Procs |-> IF At(p, "off") THEN Off ELSE End("gone")]
    /\ halt' = [halt EXCEPT !.pc = "off", !.victim = Nobody]
    /\ maker' = [t \in Locations |-> Nobody] /\ cut' = Procs /\ stopped' = FALSE
    /\ UNCHANGED <<files, net, owed, author, dropped>>

-----------------------------------------------------------------------------
(* A worker, from `mount boot-start` to the lock. *)

\* all_configured_mounts_are_mounted, is_worker_running, spawn_worker: the new
\* process holds nothing until it has created the lock file itself.
BootStart(w) ==
    /\ At(w, "off") /\ \E t \in Locations : ~Ready(t)
    /\ ~Held /\ lock' = NoLock
    /\ run' = [run EXCEPT ![w].pc = "spawned"]
    /\ cut' = cut \ {w} /\ stopped' = FALSE
    /\ UNCHANGED <<status, avail, cache, kernel, halt, events, owed, author, maker, dropped>>

\* _WorkerLock.__enter__: a recovery pass that reads the file, then removes it
\* when no worker stands behind it; the exclusive creation; the pid.  A pass that
\* finds nothing to remove leaves no trace, so the creation is in the same step.
TryCreate(w) ==
    IF lock = NoLock
    THEN lock' = [owner |-> w, signed |-> FALSE] /\ run' = [run EXCEPT ![w].pc = "sign"]
    ELSE UNCHANGED lock /\ run' = [run EXCEPT ![w] = End("gone")]       \* WorkerAlreadyRunning
Enter(w) ==
    /\ At(w, "spawned")
    /\ IF lock = NoLock \/ Held THEN TryCreate(w)
       ELSE UNCHANGED lock /\ run' = [run EXCEPT ![w].pc = "purge"]
    /\ UNCHANGED <<status, avail, cache, kernel, halt, events, history>>
Purge(w) ==
    /\ At(w, "purge") /\ lock' = NoLock
    /\ run' = [run EXCEPT ![w].pc = "create"]
    /\ UNCHANGED <<status, avail, cache, kernel, halt, events, history>>
Create(w) ==
    /\ At(w, "create") /\ TryCreate(w)
    /\ UNCHANGED <<status, avail, cache, kernel, halt, events, history>>
Sign(w) ==
    /\ At(w, "sign")
    /\ lock' = IF lock.owner = w THEN [lock EXCEPT !.signed = TRUE] ELSE lock
    /\ run' = [run EXCEPT ![w].pc = "look"]
    /\ UNCHANGED <<status, avail, cache, kernel, halt, events, history>>
\* __exit__ removes whatever lies under the name.
Leave(w) ==
    /\ At(w, "leave") /\ lock' = NoLock
    /\ run' = [run EXCEPT ![w] = End("gone")]
    /\ UNCHANGED <<status, avail, cache, kernel, halt, events, history>>

-----------------------------------------------------------------------------
(* A worker under the lock. *)

Succeed(w) == status' = "success" /\ author' = w /\ run' = [run EXCEPT ![w] = End("leave")]

Look(w) ==
    /\ At(w, "look")
    /\ run' = [run EXCEPT ![w].pc = "record", ![w].seen = \A t \in Locations \cap {RemoteData} : Ready(t)]
    /\ UNCHANGED <<files, kernel, halt, events, history>>

\* record_remote_data_availability takes no lock: it reads what was recorded, and replaces it
\* afterwards.  The remote data is observed before the survey of the locations, again when all
\* of them are mounted, and when its own turn is over.
ObservesFirst(w) == RemoteData \in Locations /\ At(w, "record")  \* mutant: only the first look is recorded
Observes(w) == RemoteData \in Locations /\ (At(w, "report") => Location(w) = RemoteData)
Observing(w) == run[w].pc \in {"record", "again", "report"}
Observed(w) ==
    CASE At(w, "record") -> [run[w] EXCEPT !.pc = "survey", !.seen = FALSE, !.prev = "unread"]
      [] At(w, "again") -> [Off EXCEPT !.pc = "target", !.at = Len(Targets) + 1, !.stop = run[w].stop]
      [] OTHER -> [Off EXCEPT !.pc = "target", !.at = run[w].at + 1, !.stop = run[w].stop]
ReadRecord(w) ==
    /\ Observing(w) /\ run[w].prev = "unread"
    /\ run' = [run EXCEPT ![w] =
                 IF Observes(w) THEN [@ EXCEPT !.prev = avail, !.seen = IF At(w, "record") THEN @ ELSE Ready(RemoteData) \/ At(w, "report")]
                 ELSE Observed(w)]
    /\ UNCHANGED <<files, kernel, halt, events, history>>
\* The end of an outage is announced by the worker that read its record; when the record cannot
\* be written it is not, and an announcement that fails is not repeated.
Announces(w) == run[w].seen /\ run[w].prev = "no"
WriteRecord(w) ==
    /\ Observing(w) /\ run[w].prev # "unread"
    /\ \/ avail' = (IF run[w].seen THEN "yes" ELSE "no") /\ UNCHANGED events
          /\ IF ~run[w].seen THEN owed' = TRUE /\ dropped' = {}
             ELSE IF Announces(w) THEN owed' = FALSE /\ dropped' = {}
             ELSE dropped' = (IF avail = "no" THEN dropped \cup {"overwritten"} ELSE dropped) /\ UNCHANGED owed
       \/ Event /\ avail' = "yes" /\ Announces(w) /\ dropped' = dropped \cup {"unheard"} /\ UNCHANGED owed
       \/ Event /\ UNCHANGED <<avail, owed>> /\ dropped' = IF run[w].seen THEN dropped \cup {"unwritten"} ELSE dropped
    /\ run' = [run EXCEPT ![w] = Observed(w)]
    /\ UNCHANGED <<lock, status, cache, kernel, halt, cut, author, maker, stopped>>
Survey(w) ==
    /\ At(w, "survey")
    /\ run' = [run EXCEPT ![w].pc = IF \A t \in Locations : Ready(t) THEN "again" ELSE "target"]
    /\ UNCHANGED <<files, kernel, halt, events, history>>

GiveUp(w) == status' = "failed" /\ run' = [run EXCEPT ![w] = End("leave")]

\* The head of the loop over the locations: all done, told to stop, already
\* mounted, no usable password, or the wait begins.
NextTarget(w) ==
    /\ At(w, "target")
    /\ \/ /\ run[w].at > Len(Targets)
          /\ Succeed(w) /\ UNCHANGED events
       \/ /\ run[w].at <= Len(Targets) /\ run[w].stop
          /\ GiveUp(w) /\ UNCHANGED <<author, events>>
       \/ /\ run[w].at <= Len(Targets) /\ ~run[w].stop /\ Ready(Location(w))
          /\ run' = [run EXCEPT ![w].pc = "report"] /\ UNCHANGED <<status, author, events>>
       \/ /\ run[w].at <= Len(Targets) /\ ~run[w].stop /\ ~Ready(Location(w))
          /\ UNCHANGED author
          /\ \/ Event /\ GiveUp(w)
             \/ /\ status' = "waiting" /\ UNCHANGED events
                /\ run' = [run EXCEPT ![w].pc = "wait", ![w].tries = 0,
                             ![w].via = IF Location(w) = Source /\ cache # "none" THEN "cached" ELSE "direct"]
    /\ UNCHANGED <<lock, avail, cache, kernel, halt, owed, cut, maker, stopped, dropped>>

\* What follows an attempt.  A failure over the cached endpoint leads to the
\* name itself; a name that cannot be reached is tried again until the budget is
\* used up; any other failure ends the worker, or undoes the command.
FailedOnward(p) ==  \* mutant: a location that fails is passed over
    UNCHANGED status /\ run' = [run EXCEPT ![p].pc = IF p = Command THEN "undo" ELSE "report"]
Failed(p) == IF p = Command THEN UNCHANGED status /\ run' = [run EXCEPT ![p].pc = "undo"] ELSE GiveUp(p)
RetryTwice(p) == run' = [run EXCEPT ![p].pc = "wait", ![p].tries = @ + 2]  \* mutant: an attempt counts twice
RetryFresh(p) == run' = [run EXCEPT ![p].pc = "wait"]  \* mutant: every attempt has the whole budget
Retry(p) == run' = [run EXCEPT ![p].pc = "wait", ![p].tries = @ + 1]
Conclude(p, outcome) ==
    \/ /\ outcome = "mounted"
       /\ cache' = IF p # Command /\ Location(p) = Source /\ net = "name" /\ ~run[p].stop THEN "good" ELSE cache
       /\ run' = IF p = Command THEN [run EXCEPT ![p].pc = "wait", ![p].at = @ + 1]
                                ELSE [run EXCEPT ![p].pc = "report"]
       /\ UNCHANGED status
    \/ /\ outcome # "mounted" /\ run[p].via = "cached"
       /\ run' = [run EXCEPT ![p].pc = "wait", ![p].via = "direct"]
       /\ UNCHANGED <<cache, status>>
    \/ /\ outcome = "unreachable" /\ run[p].via = "direct" /\ UNCHANGED cache
       /\ IF p # Command /\ ~run[p].stop /\ run[p].tries < Attempts
          THEN Retry(p) /\ UNCHANGED status
          ELSE Failed(p)
    \/ /\ outcome = "refused" /\ run[p].via = "direct" /\ UNCHANGED cache /\ Failed(p)

\* mount_cifs_source up to its command: what is mounted is kept or refused, and
\* a server that cannot be reached, or a stop, ends the attempt.
Attempt(p) ==
    /\ At(p, "wait") /\ run[p].at <= Len(Targets)
    /\ IF p # Command /\ run[p].via = "direct" /\ run[p].stop THEN Failed(p) /\ UNCHANGED cache
       ELSE CASE Ready(Location(p)) -> Conclude(p, "mounted")
              [] mounted[Location(p)] = "foreign" -> Conclude(p, "refused")
              [] mounted[Location(p)] = "none" /\ Reaches(p) /\ ~run[p].stop ->
                    run' = [run EXCEPT ![p].pc = "command"] /\ UNCHANGED <<cache, status>>
              [] OTHER -> Conclude(p, "unreachable")
    /\ UNCHANGED <<lock, avail, kernel, halt, events, history>>

\* The mount command: it mounts, finds the place taken, is refused by the
\* server, or is killed at its deadline.
MountCommand(p) ==
    /\ At(p, "command")
    /\ \/ /\ mounted[Location(p)] = "none" /\ Reaches(p)
          /\ mounted' = [mounted EXCEPT ![Location(p)] = "ours"]
          /\ maker' = [maker EXCEPT ![Location(p)] = p]
          /\ IF p = Command
             THEN run' = [run EXCEPT ![p].pc = "wait", ![p].at = @ + 1, ![p].mine = @ \cup {Location(p)}] /\ UNCHANGED <<cache, status>>
             ELSE Conclude(p, "mounted")
          /\ UNCHANGED <<stray, events>>
       \/ /\ mounted[Location(p)] # "none" \/ run[p].stop
          /\ Conclude(p, "refused") /\ UNCHANGED <<mounted, stray, maker, events>>
       \/ /\ Event /\ Reaches(p)
          /\ Conclude(p, "refused") /\ UNCHANGED <<mounted, stray, maker>>
       \/ /\ ~Reaches(p) /\ stray' \in {stray, stray \cup {Location(p)}}
          /\ Conclude(p, "unreachable") /\ UNCHANGED <<mounted, maker, events>>
    /\ UNCHANGED <<lock, avail, net, halt, owed, cut, author, stopped, dropped>>

-----------------------------------------------------------------------------
(* `mount start`: no lock, and its own mounts are undone when one fails. *)

ManualStart ==
    /\ At(Command, "off") /\ Event
    /\ run' = [run EXCEPT ![Command] = [Off EXCEPT !.pc = "wait"]]
    /\ stopped' = FALSE /\ cut' = cut \ {Command}
    /\ UNCHANGED <<files, kernel, halt, owed, author, maker, dropped>>
ManualDone ==
    /\ At(Command, "wait") /\ run[Command].at > Len(Targets)
    /\ run' = [run EXCEPT ![Command] = Off]
    /\ UNCHANGED <<files, kernel, halt, events, history>>

\* unmount_cifs_source looks at what is there, and leaves what is not ours alone.
UnmountAny(t, others) ==  \* mutant: whatever is there is unmounted
    /\ mounted' = [mounted EXCEPT ![t] = "none"] /\ maker' = [maker EXCEPT ![t] = Nobody]
    /\ cut' = IF Ready(t) THEN cut \cup (others \cap (Hit \cup {author})) ELSE cut
Unmount(t, others) ==
    /\ mounted' = [mounted EXCEPT ![t] = IF @ = "ours" THEN "none" ELSE @]
    /\ maker' = [maker EXCEPT ![t] = Nobody]
    /\ cut' = IF Ready(t) THEN cut \cup (others \cap (Hit \cup {author})) ELSE cut
MineAll == {t \in Locations : Ready(t)}  \* mutant: what was already mounted is taken for its own
Mine == run[Command].mine
Undo ==
    /\ At(Command, "undo")
    /\ LET last == CHOOSE t \in Mine : \A i, j \in DOMAIN Targets : Targets[i] = t /\ Targets[j] \in Mine => j <= i
       IN IF Mine = {} THEN run' = [run EXCEPT ![Command] = Off] /\ UNCHANGED <<mounted, maker, cut>>
          ELSE run' = [run EXCEPT ![Command].mine = @ \ {last}] /\ Unmount(last, Workers)
    /\ UNCHANGED <<files, stray, net, halt, events, owed, author, stopped, dropped>>

-----------------------------------------------------------------------------
(* `mount stop`, and `mount remove`, which also cleans the files. *)

Stop ==
    /\ halt.pc = "off" /\ Event
    /\ \E clean \in BOOLEAN :
         halt' = [pc |-> IF Held THEN "grace" ELSE "unmount", victim |-> IF Held THEN lock.owner ELSE Nobody,
                  left |-> Len(Targets), clean |-> clean]
    /\ IF Held THEN /\ run' = [run EXCEPT ![lock.owner].stop = TRUE]     \* SIGTERM
                    /\ cut' = cut \cup {lock.owner} /\ UNCHANGED lock
       ELSE lock' = NoLock /\ UNCHANGED <<run, cut>>
    /\ stopped' = At(Command, "off")
    /\ UNCHANGED <<status, avail, cache, kernel, owed, author, maker, dropped>>

\* The grace period ends with the worker, or with a SIGKILL of its process group.
\* Then the lock file is removed, whoever created it.
Reap ==
    /\ halt.pc = "grace"
    /\ IF Alive(halt.victim)
       THEN /\ run' = [run EXCEPT ![halt.victim] = End("gone")]
            /\ stray' \in {stray} \cup {stray \cup {Location(halt.victim)} : v \in {halt.victim} \cap {w \in Workers : At(w, "command")}}
       ELSE UNCHANGED <<run, stray>>
    /\ lock' = NoLock /\ halt' = [halt EXCEPT !.pc = "unmount"]
    /\ UNCHANGED <<status, avail, cache, mounted, net, events, history>>

StopTarget ==
    /\ halt.pc = "unmount" /\ halt.left > 0
    /\ Unmount(Targets[halt.left], Procs)
    /\ halt' = [halt EXCEPT !.left = @ - 1]
    /\ stopped' = (stopped /\ mounted[Targets[halt.left]] # "foreign")
    /\ UNCHANGED <<files, stray, net, run, events, owed, author, dropped>>
StopDone ==
    /\ halt.pc = "unmount" /\ halt.left = 0
    /\ IF halt.clean THEN lock' = NoLock /\ status' = "none" /\ avail' = "unknown" /\ cache' = "none" /\ owed' = FALSE /\ dropped' = {}
                     ELSE UNCHANGED <<files, owed, dropped>>
    /\ halt' = [halt EXCEPT !.pc = "off", !.victim = Nobody]
    /\ UNCHANGED <<kernel, run, events, cut, author, maker, stopped>>

-----------------------------------------------------------------------------

WorkerStep(w) ==
    \/ Enter(w) \/ Purge(w) \/ Create(w) \/ Sign(w) \/ Leave(w)
    \/ Look(w) \/ ReadRecord(w) \/ WriteRecord(w) \/ Survey(w) \/ NextTarget(w)
    \/ Attempt(w) \/ MountCommand(w)
CommandStep == Attempt(Command) \/ MountCommand(Command) \/ ManualDone \/ Undo
StopStep == Reap \/ StopTarget \/ StopDone

Next ==
    \/ Network \/ PowerLoss \/ ManualStart \/ CommandStep \/ Stop \/ StopStep
    \/ \E t \in Locations : Straggle(t)
    \/ \E w \in Workers : BootStart(w) \/ WorkerStep(w)

Spec == Init /\ [][Next]_vars
Fairness == \A w \in Workers : WF_vars(WorkerStep(w))
FairSpec == Spec /\ Fairness

-----------------------------------------------------------------------------
(* Properties. *)

TypeOK ==
    /\ lock \in [owner : Workers \cup {Nobody}, signed : BOOLEAN]
    /\ status \in {"none", "waiting", "success", "failed"} /\ avail \in {"unknown", "no", "yes"}
    /\ cache \in {"none", "stale", "good"} /\ mounted \in [Locations -> {"none", "ours", "foreign"}]
    /\ stray \subseteq Locations /\ net \in {"down", "address", "name"}
    /\ run \in [Procs -> [pc : {"off", "spawned", "purge", "create", "sign", "look", "record", "survey", "again", "target",
                                 "report", "wait", "command", "undo", "leave", "gone"},
                          at : 1..Len(Targets) + 1, seen : BOOLEAN, stop : BOOLEAN, tries : 0..Attempts,
                          via : {"cached", "direct"}, mine : SUBSET Locations,
                          prev : {"unread", "unknown", "no", "yes"}]]
    /\ \A p \in Procs : run[p].pc \in {"wait", "command", "report"} /\ p # Command => run[p].at \in DOMAIN Targets
    /\ halt \in [pc : {"off", "grace", "unmount"}, victim : Workers \cup {Nobody}, left : 0..Len(Targets),
                 clean : BOOLEAN]
    /\ events \in 0..MaxEvents
    /\ owed \in BOOLEAN /\ cut \subseteq Procs /\ author \in Workers \cup {Nobody} /\ stopped \in BOOLEAN
    /\ dropped \subseteq {"unwritten", "unheard", "overwritten"}

\* A reported success is true: whatever other workers, an interactive start and
\* the network did meanwhile, every location is mounted until one is unmounted.
SuccessIsMounted == status = "success" /\ author \notin cut => \A t \in Locations : Ready(t)

\* An outage that a worker recorded is announced to automatic SaveSync by the time the workers
\* have ended and the last of them reports success, unless one of them was stopped or had its
\* work undone.  Three routes lose it: the announcement failed; a worker that had read the file
\* before the outage was recorded replaced it; or the end could not be written, and then
\* the outage is still recorded and the next worker announces it.
OutageAnnounced ==
    status = "success" /\ Active = {} /\ cut = {} /\ owed =>
        dropped # {} /\ (dropped = {"unwritten"} => avail = "no")

\* A failed `mount start` takes down only what it mounted itself, unless a stop
\* took that down before and another process mounted it again.
UndoesOwnMountsStep ==
    \A t \in Locations : Ready(t) /\ ~Ready(t)' /\ At(Command, "undo") /\ halt' = halt /\ events' = events
       => maker[t] = Command \/ Command \in cut
UndoesOwnMounts == [][UndoesOwnMountsStep]_vars

\* What somebody else mounted at a configured place is never replaced or unmounted.
ForeignUntouchedStep ==
    \A t \in Locations : mounted[t] = "foreign" => mounted'[t] = "foreign"
ForeignUntouched == [][ForeignUntouchedStep]_vars

\* A worker ends on its own, however the network behaves and whatever lock file
\* an earlier one left behind.
WorkerEnds == \A w \in Workers : At(w, "spawned") ~> At(w, "gone")

\* "guarded by an atomic single-instance lock": one worker at a time.
OneWorker == Cardinality(Within) <= 1

\* "Stop the mount worker, then unmount every configured SMB location": after a
\* stop that reported success, nothing is mounted until a start is requested.
StopSticks == stopped /\ halt.pc = "off" => \A t \in Locations : ~Ready(t)
=============================================================================
