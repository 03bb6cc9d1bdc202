------------------------------ MODULE Downloads ------------------------------
(***************************************************************************)
(* The resident download manager: the durable queue (DownloadRepository),  *)
(* the one worker thread of DownloadManagerService, the HTTP requests that *)
(* control it, the manager process that owns both, and set_operating_mode, *)
(* which another process runs to go Offline or to come back.               *)
(*                                                                         *)
(* The asset locks of a game are one lock, its staged bytes one flag, and  *)
(* the Connected and Cache modes one mode: what the queue sees of them.    *)
(* The worker's wait for _wake is a stutter, for it ends after a second.   *)
(***************************************************************************)
EXTENDS Naturals, FiniteSets

CONSTANTS Games, NoGame,
          MaxItems,                                \* items ever enqueued
          MaxStarts,                               \* starts of the manager
          MaxMoves                                 \* requests, mode changes, failures,
                                                   \* crashes, moves of other programs

ASSUME DownloadsAssumption ==
    /\ NoGame \notin Games
    /\ {MaxItems, MaxStarts, MaxMoves} \subseteq Nat

Items == 1..MaxItems            \* in the order of queue_seq
NoItem == 0

VARIABLES
    row, game, born,            \* download_items; how many were ever enqueued
    partial,                    \* games with staged bytes
    catalog,                    \* games of the catalog
    mode,                       \* the persisted operating mode
    manager,                    \* the manager process
    suspended, claiming,        \* _offline_suspended and _claiming
    active, token, stop,        \* _active_item_id, its token, _requested_stop
    worker,                     \* the worker thread and what it remembers
    lease, foreign,             \* the game it has locked, the one another program has
    control,                    \* a request between what it reads and what it does
    switch,                     \* the running set_operating_mode
    asked,                      \* stops accepted since the active run began
    stranded,                   \* the last switch ended without the manager's answer
    starts, moves               \* how often the bounded actions were taken

queue == <<row, game, born>>
memory == <<suspended, claiming, active, token, stop, asked>>
run == <<partial, worker, lease>>
world == <<catalog, foreign, manager, starts>>
modes == <<mode, switch, stranded>>
vars == <<queue, memory, run, world, control, modes, moves>>

Inflight == {"running", "verifying"}
Held == {"paused", "interrupted"}
Active == {"queued"} \cup Inflight \cup Held         \* ACTIVE_DOWNLOAD_STATES
Settled == {"failed", "cancelled", "complete"}
Protected == {"queued", "paused"} \cup Inflight      \* whatever their age

Move == moves < MaxMoves /\ moves' = moves + 1

-----------------------------------------------------------------------------
(* The table and its unique index: one active item per game. *)

\* What one conditional UPDATE leaves: nothing changes when the item has left
\* the states it names or when the index refuses the new one.
Transition(i, from, to) ==
    LET clash == /\ to \in Active /\ game[i] # NoGame
                 /\ \E j \in Items \ {i} : game[j] = game[i] /\ row[j] \in Active
    IN  IF row[i] \in from /\ ~clash THEN [row EXCEPT ![i] = to] ELSE row

Enqueue(g) ==
    /\ manager = "up" /\ g \in catalog /\ born < MaxItems
    /\ ~\E i \in Items : game[i] = g /\ row[i] \in Active
    /\ born' = born + 1
    /\ row' = [row EXCEPT ![born + 1] = "queued"]
    /\ game' = [game EXCEPT ![born + 1] = g]
    /\ UNCHANGED <<memory, run, world, control, modes, moves>>

-----------------------------------------------------------------------------
(* The worker thread.  It reads the ROM source while it is at claim, begin, run
   and final. *)

At(pc) == worker.pc = pc /\ manager \in {"up", "closing"}
Goto(pc) == worker' = [worker EXCEPT !.pc = pc]
Others == <<game, born, world, control, modes>>

\* _downloads_blocked, which remembers a policy that says Offline.
Blocked == suspended \/ mode = "offline"
Latch == suspended' = Blocked

Pick ==
    /\ At("top") /\ manager = "up"
    /\ \E i \in Items :
         /\ row[i] = "queued" /\ \A j \in Items : row[j] = "queued" => i <= j
         /\ IF game[i] = NoGame
            THEN row' = Transition(i, {"queued"}, "failed") /\ UNCHANGED worker
            ELSE worker' = [pc |-> "check", item |-> i, game |-> game[i], target |-> "source"] /\ UNCHANGED row
    /\ UNCHANGED <<memory, partial, lease, moves, Others>>

Check ==
    /\ At("check") /\ Latch
    /\ claiming' = ~Blocked
    /\ Goto(IF Blocked THEN "top" ELSE "claim")
    /\ UNCHANGED <<row, active, token, stop, asked, partial, lease, moves, Others>>

\* try_asset_locks: the closure is resolved and locked, or another program has
\* one of its files, or the source cannot be read.
Claim ==
    /\ At("claim") /\ claiming' = FALSE
    /\ \/ /\ worker.game \in catalog /\ foreign # worker.game
          /\ lease' = worker.game /\ Goto("leased") /\ UNCHANGED <<suspended, moves>>
       \/ worker.game \in catalog /\ foreign = worker.game /\ Goto("top") /\ UNCHANGED <<suspended, lease, moves>>
       \/ /\ Move \/ (worker.game \notin catalog /\ UNCHANGED moves)
          /\ Latch /\ Goto(IF Blocked THEN "top" ELSE "reject") /\ UNCHANGED lease
    /\ UNCHANGED <<row, active, token, stop, asked, partial, Others>>

RejectAndDie ==  \* mutant: the exception leaves the loop
    /\ At("reject") /\ Goto("off")
    /\ row' = Transition(worker.item, {"queued"}, "failed")
    /\ UNCHANGED <<memory, partial, lease, moves, Others>>
Reject ==
    /\ At("reject") /\ Goto("top")
    /\ row' = Transition(worker.item, {"queued"}, "failed")
    /\ UNCHANGED <<memory, partial, lease, moves, Others>>

\* The second test of the latch, in one critical section with the start.
Admit ==
    /\ At("leased") /\ Latch
    /\ IF ~Blocked /\ row[worker.item] = "queued"
       THEN /\ row' = Transition(worker.item, {"queued"},
                                 IF worker.game \in partial THEN "verifying" ELSE "running")
            /\ active' = worker.item /\ token' = FALSE /\ asked' = {}
            /\ Goto("begin") /\ UNCHANGED lease
       ELSE lease' = NoGame /\ Goto("top") /\ UNCHANGED <<row, active, token, asked>>
    /\ UNCHANGED <<claiming, stop, partial, moves, Others>>

\* cache_game up to its transfer: cancelled already, cached meanwhile by another
\* program, refused, or admitted with its membership recorded.
Begin ==
    /\ At("begin")
    /\ \/ token /\ Goto("stopped") /\ UNCHANGED moves
       \/ ~token /\ Goto("finished") /\ UNCHANGED moves
       \/ ~token /\ Goto("failed") /\ (Move \/ ((mode = "offline" \/ worker.game \notin catalog) /\ UNCHANGED moves))
       \/ /\ ~token /\ mode # "offline" /\ worker.game \in catalog
          /\ worker' = [worker EXCEPT !.pc = "run", !.target = "none"] /\ UNCHANGED moves
    /\ UNCHANGED <<row, memory, partial, lease, Others>>

Progress ==
    /\ At("run") /\ (row[worker.item] = "verifying" \/ worker.game \notin partial)
    /\ row' = Transition(worker.item, {"verifying"}, "running")
    /\ partial' = partial \cup {worker.game}
    /\ UNCHANGED <<memory, worker, lease, moves, Others>>

\* The transfer ends: stopped by its token, failed, or past its last look at the
\* token and about to be recorded.
Transferred ==
    /\ At("run")
    /\ \/ token /\ Goto("stopped") /\ UNCHANGED moves
       \/ Goto("failed") /\ (Move \/ (worker.game \notin catalog /\ UNCHANGED moves))
       \/ ~token /\ Goto("final") /\ UNCHANGED moves
    /\ UNCHANGED <<row, memory, partial, lease, Others>>

\* finalize_transfer marks the item complete; releasing the reservation after it
\* may still fail.
Final ==
    /\ At("final")
    /\ row' = Transition(worker.item, Inflight, "complete")
    /\ partial' = partial \ {worker.game}
    /\ \/ Goto("finished") /\ UNCHANGED moves
       \/ Goto("failed") /\ Move
    /\ UNCHANGED <<memory, lease, Others>>

PopStop ==
    /\ At("stopped")
    /\ worker' = [worker EXCEPT !.pc = "settle",
                                !.target = IF stop[worker.item] = "none" THEN "interrupted" ELSE stop[worker.item]]
    /\ stop' = [stop EXCEPT ![worker.item] = "none"]
    /\ UNCHANGED <<row, suspended, claiming, active, token, asked, partial, lease, moves, Others>>

\* The handlers of a stop and of a failure while downloads are blocked first ask
\* for the staged size.  Of a run that recorded no membership it is resolved through
\* the source, and what that raises leaves the handler and ends the thread.
Raise ==
    /\ At("stopped") \/ (At("failed") /\ Blocked)
    /\ worker.target = "source" /\ worker.game \in catalog /\ Move
    /\ worker' = [worker EXCEPT !.pc = "finally", !.target = "raised"]
    /\ suspended' = (suspended \/ worker.pc = "failed")
    /\ UNCHANGED <<row, claiming, active, token, stop, asked, partial, lease, Others>>

\* The item gets its next state, whatever its present one.
SettleAs(to) == row' = Transition(worker.item, {row[worker.item]}, to) /\ Goto("finally")

Settle ==
    /\ \/ At("settle") /\ SettleAs(worker.target) /\ UNCHANGED suspended
       \/ At("failed") /\ Latch /\ SettleAs(IF Blocked THEN "paused" ELSE "failed")
       \/ At("finished") /\ SettleAs("complete") /\ UNCHANGED suspended
    /\ UNCHANGED <<claiming, active, token, stop, asked, partial, lease, moves, Others>>

Unlock ==
    /\ At("finally") /\ Goto("clear") /\ lease' = NoGame
    /\ UNCHANGED <<row, memory, partial, moves, Others>>

Clear ==
    /\ At("clear") /\ Goto(IF worker.target = "raised" THEN "dead" ELSE "top")
    /\ active' = NoItem /\ token' = FALSE
    /\ UNCHANGED <<row, suspended, claiming, stop, asked, partial, lease, moves, Others>>

Worker == \/ Pick \/ Check \/ Claim \/ Reject \/ Admit \/ Begin \/ Progress \/ Transferred
          \/ Final \/ PopStop \/ Raise \/ Settle \/ Unlock \/ Clear

-----------------------------------------------------------------------------
(* Requests of the browser.  One that reads a state and then acts on it takes two
   steps, and anything may happen between them. *)

NoControl == [kind |-> "none", on |-> NoItem, to |-> "none"]
Request == manager = "up" /\ control = NoControl /\ Move
Elsewhere == <<game, born, run, world, modes>>

\* A stop of the active run, accepted under _control_lock.
StopActiveUnnamed(to) == token' = TRUE /\ asked' = asked \cup {to} /\ UNCHANGED stop  \* mutant
StopActive(to) ==
    /\ stop' = [stop EXCEPT ![active] = to]
    /\ token' = TRUE /\ asked' = asked \cup {to}

AskStop(i, to) ==
    /\ Request /\ row[i] \in Inflight
    /\ control' = [kind |-> "stop", on |-> i, to |-> to]
    /\ UNCHANGED <<row, memory, Elsewhere>>

CancelAll ==
    /\ Request
    /\ row' = [i \in Items |-> IF row[i] = "queued" THEN "cancelled" ELSE row[i]]
    /\ control' = [kind |-> "stopany", on |-> NoItem, to |-> "cancelled"]
    /\ UNCHANGED <<memory, Elsewhere>>

DoStop ==
    /\ manager \in {"up", "closing"} /\ control.kind \in {"stop", "stopany"}
    /\ control' = NoControl
    /\ IF active # NoItem /\ (control.kind = "stop" => active = control.on)
       THEN StopActive(control.to)
       ELSE UNCHANGED <<stop, token, asked>>
    /\ UNCHANGED <<row, suspended, claiming, active, moves, Elsewhere>>

Edit(to) == row' = to /\ UNCHANGED <<memory, control, Elsewhere>>

CancelQueued(i) == Request /\ row[i] = "queued" /\ Edit(Transition(i, {"queued"}, "cancelled"))
Resume(i) == Request /\ row[i] \in Held \cup {"cancelled"} /\ Edit(Transition(i, Held \cup {"cancelled"}, "queued"))
Retry(i) == Request /\ row[i] = "failed" /\ Edit(Transition(i, {"failed"}, "queued"))
RemoveAny(i) == Request /\ row[i] # "none" /\ Edit([row EXCEPT ![i] = "none"])  \* mutant: DELETE by id alone
RemoveQueued(i) == Request /\ row[i] = "queued" /\ Edit([row EXCEPT ![i] = "none"])

\* One failed item for each game that has one and no active item.
RetryAllFailed ==
    /\ Request
    /\ LET ready(g) == g # NoGame /\ ~\E j \in Items : game[j] = g /\ row[j] \in Active
           failed == {i \in Items : row[i] = "failed" /\ ready(game[i])}
       IN  \E S \in SUBSET failed :
             /\ \A i \in failed : Cardinality({j \in S : game[j] = game[i]}) = 1
             /\ Edit([i \in Items |-> IF i \in S THEN "queued" ELSE row[i]])

\* discard_partial of an item, and cleanup_stale_partials, which may find any item
\* that is not protected too old.
AskDiscard(g) ==
    /\ control = NoControl /\ Move
    /\ g \in partial
    /\ LET ofGame == {i \in Items : game[i] = g}
           needed == {i \in ofGame : row[i] \in Protected}
       IN  \/ manager \in {"starting", "up"} /\ needed = {}
           \/ manager = "up" /\ \E i \in ofGame : /\ row[i] \in Held \cup {"failed", "cancelled"}
                                                  /\ needed \subseteq {i}
    /\ control' = [kind |-> "discard", on |-> g, to |-> "none"]
    /\ UNCHANGED <<row, memory, Elsewhere>>

\* discard_staging_asset takes the asset lock or gives up.
DiscardableUnlocked(g) == g \in Games  \* mutant: no asset lock
Discardable(g) == lease # g /\ foreign # g

DoDiscard ==
    /\ manager \in {"starting", "up", "closing"} /\ control.kind = "discard"
    /\ control' = NoControl
    /\ partial' = IF Discardable(control.on) THEN partial \ {control.on} ELSE partial
    /\ UNCHANGED <<queue, memory, worker, lease, world, modes, moves>>

Control ==
    \/ \E g \in Games : Enqueue(g) \/ AskDiscard(g)
    \/ \E i \in Items : \/ \E to \in {"paused", "cancelled"} : AskStop(i, to)
                        \/ CancelQueued(i) \/ Resume(i) \/ Retry(i) \/ RemoveQueued(i)
    \/ CancelAll \/ RetryAllFailed

-----------------------------------------------------------------------------
(* set_operating_mode, one at a time under its lock. *)

NoSwitch == [pc |-> "idle", to |-> "none", from |-> "none", waits |-> "no", committed |-> FALSE, told |-> FALSE]
NotModes == <<queue, run, world, control>>

SwitchTo(m) ==
    /\ switch = NoSwitch /\ Move
    /\ switch' = [NoSwitch EXCEPT !.to = m, !.from = mode,
                    !.pc = IF m = mode THEN "again" ELSE IF m = "offline" THEN "quiesce" ELSE "present"]
    /\ UNCHANGED <<NotModes, memory, mode, stranded>>

Running == {"published", "up", "closing"}      \* manager_status(...)["running"]
Goal == IF switch.pc = "undo" THEN switch.from ELSE switch.to
Coordinating == switch.pc \in {"again", "quiesce", "coord", "undo"}

\* The switch goes on after a coordination that returned, or ends.
Coordinated ==
    /\ switch' = CASE switch.pc = "quiesce" -> [switch EXCEPT !.pc = "present", !.waits = "no", !.told = TRUE]
                   [] switch.pc = "coord" -> [switch EXCEPT !.pc = "refresh", !.waits = "no", !.told = TRUE]
                   [] OTHER -> NoSwitch
    /\ stranded' = (switch.pc # "again" /\ stranded)

\* What the exception handler does: the mode is put back if it was written, and
\* the manager is told if it had answered.
FailUntold ==  \* mutant: the manager is told only of a mode that was written
    /\ switch' = IF switch.committed /\ switch.pc # "undo" THEN [switch EXCEPT !.pc = "restore", !.waits = "no"] ELSE NoSwitch
    /\ stranded' = (stranded \/ switch.pc \in {"again", "quiesce", "undo"})
Fail ==
    /\ switch' = IF switch.pc \in {"again", "undo"} \/ ~(switch.committed \/ switch.told)
                 THEN NoSwitch
                 ELSE [switch EXCEPT !.pc = IF switch.committed THEN "restore" ELSE "undo", !.waits = "no"]
    /\ stranded' = (stranded \/ switch.pc \in {"again", "quiesce", "undo"})

\* apply_operating_mode, called over HTTP if the manager has published its state.
\* Leaving Offline it answers at once, and the answer may come too late.
Coordinate ==
    /\ Coordinating /\ switch.waits = "no"
    /\ \/ /\ manager \notin Running
          /\ Coordinated /\ UNCHANGED <<memory, moves>>
       \/ /\ manager = "up" /\ Goal = "offline"
          /\ suspended' = TRUE
          /\ IF active # NoItem THEN StopActive("paused") ELSE UNCHANGED <<stop, token, asked>>
          /\ switch' = [switch EXCEPT !.waits = "yes"]
          /\ UNCHANGED <<claiming, active, stranded, moves>>
       \/ /\ manager = "up" /\ Goal # "offline"
          /\ suspended' = FALSE
          /\ (Coordinated /\ UNCHANGED moves) \/ (Fail /\ Move)
          /\ UNCHANGED <<claiming, active, stop, token, asked>>
    /\ UNCHANGED <<NotModes, mode>>

\* The answer to an Offline request, its timeout, or its lost connection.
QuietTransfers == active = NoItem  \* mutant: claims are not waited for
Quiet == ~claiming /\ active = NoItem
Answer ==
    /\ Coordinating
    /\ \/ switch.waits = "yes" /\ Quiet /\ Coordinated /\ UNCHANGED moves
       \/ switch.waits = "yes" /\ ~Quiet /\ Fail /\ Move
       \/ switch.waits = "lost" /\ manager \notin Running /\ Coordinated /\ UNCHANGED moves
       \/ switch.waits = "lost" /\ manager \in Running /\ Fail /\ UNCHANGED moves
    /\ UNCHANGED <<NotModes, memory, mode>>

\* The steps between the coordinations; each may fail.
Present ==
    /\ switch.pc = "present"
    /\ \/ switch' = [switch EXCEPT !.pc = "commit"] /\ UNCHANGED <<stranded, moves>>
       \/ Fail /\ Move
    /\ UNCHANGED <<NotModes, memory, mode>>

Commit ==
    /\ switch.pc = "commit"
    /\ \/ /\ mode' = switch.to
          /\ switch' = [switch EXCEPT !.pc = "coord", !.committed = TRUE] /\ UNCHANGED <<stranded, moves>>
       \/ Fail /\ Move /\ UNCHANGED mode
    /\ UNCHANGED <<NotModes, memory>>

Refresh ==
    /\ switch.pc = "refresh"
    /\ \/ switch' = NoSwitch /\ stranded' = FALSE /\ UNCHANGED moves
       \/ Fail /\ Move
    /\ UNCHANGED <<NotModes, memory, mode>>

Restore ==
    /\ switch.pc = "restore"
    /\ switch' = [switch EXCEPT !.pc = "undo"]
    /\ \/ mode' = switch.from /\ stranded' = FALSE /\ UNCHANGED moves
       \/ Move /\ stranded' = TRUE /\ UNCHANGED mode
    /\ UNCHANGED <<NotModes, memory>>

SwitchKilled ==
    /\ switch # NoSwitch /\ Move
    /\ switch' = NoSwitch /\ stranded' = TRUE
    /\ UNCHANGED <<NotModes, memory, mode>>

Switch == Coordinate \/ Answer \/ Present \/ Commit \/ Refresh \/ Restore

-----------------------------------------------------------------------------
(* The manager process, of which the instance lock allows one. *)

NoWorker == [pc |-> "off", item |-> NoItem, game |-> NoGame, target |-> "none"]

\* DownloadManagerService.__init__: runs a dead manager left are interrupted.
StartAsLeft ==  \* mutant: no recover_interrupted
    /\ manager = "down" /\ starts < MaxStarts
    /\ manager' = "starting" /\ starts' = starts + 1
    /\ UNCHANGED <<queue, memory, run, catalog, foreign, control, modes, moves>>
Start ==
    /\ manager = "down" /\ starts < MaxStarts
    /\ manager' = "starting" /\ starts' = starts + 1
    /\ row' = [i \in Items |-> IF row[i] \in Inflight THEN "interrupted" ELSE row[i]]
    /\ UNCHANGED <<game, born, memory, run, catalog, foreign, control, modes, moves>>

\* serve_manager: the state is published before the worker is started.
Publish ==
    /\ manager = "starting" /\ control = NoControl /\ manager' = "published"
    /\ UNCHANGED <<queue, memory, run, catalog, foreign, starts, control, modes, moves>>

Serve ==
    /\ manager = "published" /\ manager' = "up" /\ Goto("top")
    /\ UNCHANGED <<queue, memory, partial, lease, catalog, foreign, starts, control, modes, moves>>

\* shutdown: the active run is stopped and the worker is waited for, ten seconds
\* at most.
Term ==
    /\ manager = "up" /\ Move /\ manager' = "closing"
    /\ IF active # NoItem THEN StopActive("interrupted") ELSE UNCHANGED <<stop, token, asked>>
    /\ UNCHANGED <<queue, suspended, claiming, active, run, catalog, foreign, starts, control, modes>>

\* What the process kept in memory and its locks go with it.
Gone ==
    /\ manager' = "down" /\ worker' = NoWorker /\ lease' = NoGame /\ control' = NoControl
    /\ suspended' = FALSE /\ claiming' = FALSE /\ active' = NoItem /\ token' = FALSE
    /\ stop' = [i \in Items |-> "none"] /\ asked' = {}
    /\ switch' = IF switch.waits = "yes" THEN [switch EXCEPT !.waits = "lost"] ELSE switch
    /\ UNCHANGED <<queue, partial, catalog, foreign, starts, mode, stranded>>

Exit == manager = "closing" /\ Gone /\ UNCHANGED moves
Crash == manager # "down" /\ Move /\ Gone

-----------------------------------------------------------------------------
(* The rest of the device. *)

\* A launch or a command transfers the same game.
ForeignTakes(g) ==
    /\ Move /\ foreign = NoGame /\ lease # g /\ foreign' = g
    /\ UNCHANGED <<queue, memory, run, catalog, manager, starts, control, modes>>

ForeignLeaves ==
    /\ foreign # NoGame /\ foreign' = NoGame
    /\ partial' \in {partial \cup {foreign}, partial \ {foreign}}
    /\ UNCHANGED <<queue, memory, worker, lease, catalog, manager, starts, control, modes, moves>>

\* A library scan deletes a game: its items lose their reference.
CatalogDrops(g) ==
    /\ Move /\ g \in catalog /\ catalog' = catalog \ {g}
    /\ game' = [i \in Items |-> IF game[i] = g THEN NoGame ELSE game[i]]
    /\ UNCHANGED <<row, born, memory, run, foreign, manager, starts, control, modes>>

Outside == ForeignLeaves \/ \E g \in Games : ForeignTakes(g) \/ CatalogDrops(g)

Init ==
    /\ row = [i \in Items |-> "none"] /\ game = [i \in Items |-> NoGame] /\ born = 0
    /\ partial = {} /\ catalog = Games /\ mode \in {"cache", "offline"} /\ manager = "down"
    /\ suspended = FALSE /\ claiming = FALSE /\ active = NoItem /\ token = FALSE
    /\ stop = [i \in Items |-> "none"] /\ asked = {} /\ worker = NoWorker
    /\ lease = NoGame /\ foreign = NoGame /\ control = NoControl /\ switch = NoSwitch
    /\ stranded = FALSE /\ starts = 0 /\ moves = 0

Next ==
    \/ Worker \/ Control \/ DoStop \/ DoDiscard
    \/ Switch \/ SwitchKilled \/ \E m \in {"cache", "offline"} : SwitchTo(m)
    \/ Start \/ Publish \/ Serve \/ Term \/ Exit \/ Crash \/ Outside

\* The worker thread is scheduled and its transfers end, a switch that has begun goes
\* on, and other programs let go of a game; nothing else is obliged to happen.
Spec == /\ Init /\ [][Next]_vars
        /\ WF_vars(Worker) /\ WF_vars(Switch) /\ WF_vars(ForeignLeaves)

-----------------------------------------------------------------------------
\* The types of the state; until it is settled, the active item is a row of the
\* table whose game the worker has locked.
TypeOK ==
    /\ row \in [Items -> {"none"} \cup Active \cup Settled]
    /\ game \in [Items -> Games \cup {NoGame}] /\ born \in 0..MaxItems
    /\ partial \subseteq Games /\ catalog \subseteq Games
    /\ mode \in {"cache", "offline"}
    /\ manager \in {"down", "starting", "published", "up", "closing"}
    /\ {suspended, claiming, token, stranded} \subseteq BOOLEAN
    /\ active \in Items \cup {NoItem}
    /\ active # NoItem /\ worker.pc \notin {"finally", "clear"}
         => row[active] # "none" /\ worker.item = active /\ lease = worker.game
    /\ stop \in [Items -> {"none", "paused", "cancelled", "interrupted"}]
    /\ asked \subseteq {"paused", "cancelled", "interrupted"}
    /\ {worker.game, lease, foreign} \subseteq Games \cup {NoGame}
    /\ worker.item \in Items \cup {NoItem}
    /\ worker.target \in {"none", "source", "raised", "paused", "cancelled", "interrupted"}
    /\ control.on \in Items \cup Games \cup {NoItem}
    /\ {switch.to, switch.from} \subseteq {"none", "cache", "offline"}
    /\ {starts, moves} \subseteq Nat

\* Once a switch has ended and the device is Offline, the worker neither resolves
\* nor transfers anything, whether the manager was up, starting, restarted or
\* down meanwhile (apply_operating_mode; web/server.py:577).
OfflineQuiet ==
    mode = "offline" /\ switch = NoSwitch /\ ~stranded
        => worker.pc \notin {"claim", "begin", "run", "final"}

\* Downloads are suspended only Offline: every route that leaves Offline, or fails
\* to enter it, tells the manager, except a switch that gave up or was killed.
SuspensionLifted ==
    mode = "cache" /\ switch = NoSwitch /\ ~stranded => ~suspended

\* An item in flight has a worker: no end of a run, and no death of the manager,
\* leaves a row that nobody will settle (recover_interrupted, _worker), but the one
\* in whose handler the worker thread died, until the manager is started again.
NoOrphanRow ==
    manager \in {"starting", "published", "up"} =>
        \A i \in Items : row[i] \in Inflight => active = i \/ (worker.pc = "dead" /\ worker.item = i)

\* The rows of the queue, the worker and the operating mode agree.
QueueHonest == OfflineQuiet /\ SuspensionLifted /\ NoOrphanRow

\* A run ends paused, cancelled or interrupted only by a stop accepted during that
\* very run, never by one left over from an earlier run of the item, or because
\* downloads are blocked.
RunEndsAsAsked ==
    \A i \in Items :
        active = i /\ row[i] \in Inflight /\ row'[i] \in Held \cup {"cancelled"}
        => row'[i] \in asked \/ (row'[i] = "paused" /\ Blocked)

\* A discard never takes the staged bytes of the game that is being transferred,
\* although it decides before it locks (discard_partial, cleanup_stale_partials).
TransferKeepsPartial == \A g \in partial \ partial' : lease = g => worker.pc = "final"

\* A run ends as it was asked to, and no request takes what it is transferring.
RunsHonest == [][RunEndsAsAsked /\ TransferKeepsPartial]_vars

\* A queued item is taken up: the worker survives every end of a run but the one
\* whose handler could not read the source, and waits neither for a game another
\* program has left nor for a mode the device has left.
QueueMoves ==
    \A i \in Items :
        row[i] = "queued" ~> \/ row[i] # "queued" \/ mode = "offline" \/ stranded
                            \/ manager # "up" \/ worker.pc = "dead"

=============================================================================
