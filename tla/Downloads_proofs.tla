--------------------------- MODULE Downloads_proofs ---------------------------
(***************************************************************************)
(* Proofs about Downloads, for any games, queue length and bounds.         *)
(*                                                                         *)
(* RowsSound needs the unique index: a run whose item could not take its   *)
(* next state, because another item of the game had become active, would   *)
(* leave a row in flight.  ModeSound follows every route of a switch.      *)
(***************************************************************************)
EXTENDS Downloads, FiniteSetTheorems, TLAPS

-----------------------------------------------------------------------------
(* The inductive invariant.                                                *)

\* The places of the worker thread, and of set_operating_mode.
Resting  == {"off", "dead", "top", "check", "claim", "reject", "leased"}
InRun    == {"begin", "run", "final", "stopped", "settle", "failed", "finished"}
Ending   == {"finally", "clear"}
Busy     == {"claim", "begin", "run", "final"}
Stops    == {"paused", "cancelled", "interrupted"}

Workers  == [pc : Resting \cup InRun \cup Ending, item : Items \cup {NoItem},
             game : Games \cup {NoGame}, target : {"none", "source", "raised"} \cup Stops]
Switches == [pc : {"idle", "again", "quiesce", "present", "commit", "coord", "refresh",
                   "restore", "undo"},
             to : {"none", "cache", "offline"}, from : {"none", "cache", "offline"},
             waits : {"no", "yes", "lost"}, committed : BOOLEAN, told : BOOLEAN]
Controls == [kind : {"none", "stop", "stopany", "discard"},
             on : Items \cup Games \cup {NoItem}, to : {"none", "paused", "cancelled"}]

Types ==
    /\ row \in [Items -> {"none"} \cup Active \cup Settled]
    /\ game \in [Items -> Games \cup {NoGame}] /\ born \in 0..MaxItems
    /\ partial \subseteq Games /\ catalog \subseteq Games
    /\ mode \in {"cache", "offline"}
    /\ manager \in {"down", "starting", "published", "up", "closing"}
    /\ suspended \in BOOLEAN /\ claiming \in BOOLEAN /\ token \in BOOLEAN
    /\ stranded \in BOOLEAN
    /\ active \in Items \cup {NoItem}
    /\ stop \in [Items -> {"none"} \cup Stops] /\ asked \subseteq Stops
    /\ lease \in Games \cup {NoGame} /\ foreign \in Games \cup {NoGame}
    /\ worker \in Workers /\ switch \in Switches /\ control \in Controls
    /\ control.kind \in {"stop", "stopany"} => control.to # "none"
    /\ starts \in Nat /\ moves \in Nat

\* The active item is the worker's from its admission until it is cleared, and
\* nothing of it survives the manager.
WorkerSound ==
    /\ worker.pc \in Resting => active = NoItem
    /\ worker.pc \in InRun \cup Ending => active = worker.item /\ active # NoItem
    /\ worker.pc \in {"check", "claim", "reject", "leased"} => worker.item # NoItem
    /\ worker.pc \notin {"off", "dead", "top"} \cup Ending => worker.game \in Games
    /\ worker.pc \in {"leased"} \cup InRun => lease = worker.game
    /\ foreign \in Games => lease # foreign
    /\ claiming <=> worker.pc = "claim"
    /\ manager \in {"down", "starting", "published"} =>
         worker.pc = "off" /\ ~suspended

\* The item in whose handler the worker thread died.
Dead(i) == worker.pc = "dead" /\ worker.item = i

\* One item of a game is active; the item of the run stays in flight until the run
\* is recorded, and no other item is in flight.
RowsSound ==
    /\ \A i \in Items : i > born => row[i] = "none"
    /\ \A i, j \in Items : i # j /\ game[i] = game[j] /\ game[i] # NoGame =>
         ~(row[i] \in Active /\ row[j] \in Active)
    /\ worker.pc \in {"begin", "run", "final", "stopped", "settle"} => row[worker.item] \in Inflight
    /\ worker.pc \in {"failed", "finished"} => row[worker.item] \in Inflight \cup {"complete"}
    /\ worker.pc \in Ending /\ worker.target # "raised" => row[worker.item] \notin Inflight
    /\ manager # "down" => \A i \in Items : row[i] \in Inflight => active = i \/ Dead(i)

\* A stop of the run is remembered until it is popped, and was asked for.
StopSound ==
    /\ worker.pc = "stopped" => token
    /\ token /\ worker.pc \in {"begin", "run", "final", "stopped"} =>
         stop[active] \in asked
    /\ worker.pc = "settle" => worker.target \in asked

\* Where a switch is, and what it has done to the mode.
SwitchSound ==
    /\ switch.pc = "idle" => switch = NoSwitch
    /\ switch.pc = "again" => switch.to = mode
    /\ switch.pc \in {"quiesce", "present", "commit"} =>
         /\ mode = switch.from /\ switch.to # switch.from /\ switch.to # "none"
         /\ ~switch.committed
         /\ switch.pc # "quiesce" /\ switch.to = "offline" => switch.told
    /\ switch.pc = "quiesce" => switch.to = "offline" /\ ~switch.told
    /\ switch.pc \in {"coord", "refresh", "restore"} =>
         /\ mode = switch.to /\ switch.committed
         /\ switch.from \in {"cache", "offline"} \ {switch.to}
    /\ switch.pc = "undo" => mode = switch.from \/ stranded
    /\ switch.waits # "no" => Coordinating /\ Goal = "offline"

\* The worker takes nothing up Offline, and waits for nothing that is over, but
\* while a switch that will see to it is on its way.
ModeSound ==
    /\ mode = "offline" /\ worker.pc \in Busy =>
         \/ stranded /\ switch.pc # "refresh"
         \/ switch.pc \in {"coord", "restore", "undo"}
    /\ mode = "cache" /\ suspended =>
         \/ stranded /\ switch.pc # "refresh"
         \/ switch.pc \in {"quiesce", "present", "commit", "coord", "restore", "undo"}

IInv == Types /\ WorkerSound /\ RowsSound /\ StopSound /\ SwitchSound /\ ModeSound

-----------------------------------------------------------------------------
(* Type correctness.                                                       *)

Places == Resting \cup InRun \cup Ending
Rows   == {"none"} \cup Active \cup Settled

LEMMA Bounds == /\ NoGame \notin Games /\ MaxItems \in Nat /\ MaxStarts \in Nat /\ MaxMoves \in Nat
                /\ NoItem \notin Items
BY DownloadsAssumption DEF Items, NoItem

USE Bounds

USE DEF queue, memory, run, world, modes, Others, Elsewhere, NotModes

LEMMA InitInv == Init => IInv
<1> SUFFICES ASSUME Init PROVE IInv
  OBVIOUS
<1> USE DEF Init
<1>1. NoWorker \in Workers
  BY DEF NoWorker, Workers, Resting
<1>2. NoSwitch \in Switches /\ NoControl \in Controls
  BY DEF NoSwitch, Switches, NoControl, Controls
<1>3. NoControl.kind = "none" /\ NoSwitch.pc = "idle" /\ NoSwitch.waits = "no" /\ NoWorker.pc = "off"
  BY DEF NoControl, NoSwitch, NoWorker
<1>4. Types
  <2>1. /\ row \in [Items -> {"none"} \cup Active \cup Settled]
        /\ game \in [Items -> Games \cup {NoGame}]
        /\ stop \in [Items -> {"none"} \cup Stops]
    OBVIOUS
  <2>2. born \in 0..MaxItems /\ starts \in Nat /\ moves \in Nat
    OBVIOUS
  <2>3. QED
    BY <1>1, <1>2, <1>3, <2>1, <2>2 DEF Types
<1>5. WorkerSound /\ StopSound /\ ModeSound
  BY <1>3 DEF WorkerSound, StopSound, ModeSound, InRun, Ending, Busy
<1>6. RowsSound
  BY <1>3 DEF RowsSound, Active, Inflight, Held, Ending
<1>7. SwitchSound
  BY <1>3 DEF SwitchSound
<1>8. QED
  BY <1>4, <1>5, <1>6, <1>7 DEF IInv

(* The worker moves, and forgets nothing of its run.                       *)
LEMMA GotoIs ==
    ASSUME Types, NEW p \in Places, Goto(p)
    PROVE  /\ worker' \in Workers /\ worker'.pc = p
           /\ worker'.item = worker.item /\ worker'.game = worker.game
           /\ worker'.target = worker.target
BY DEF Types, Workers, Goto, Places

(* A transition of one item.                                               *)
LEMMA TransitionIs ==
    ASSUME Types, NEW i \in Items, NEW from, NEW to \in Rows
    PROVE  /\ Transition(i, from, to) \in [Items -> Rows]
           /\ \A j \in Items : j # i => Transition(i, from, to)[j] = row[j]
           /\ Transition(i, from, to)[i] \in {row[i], to}
           /\ row[i] \notin from => Transition(i, from, to) = row
<1>1. row \in [Items -> Rows]
  BY DEF Types, Rows
<1>2. Transition(i, from, to) = row \/ Transition(i, from, to) = [row EXCEPT ![i] = to]
  BY DEF Transition
<1>3. row[i] \notin from => Transition(i, from, to) = row
  BY DEF Transition
<1>4. QED
  BY <1>1, <1>2, <1>3

(* The unique index refuses nothing to an item that is already active.     *)
LEMMA TransitionTakes ==
    ASSUME Types, RowsSound, NEW i \in Items, NEW from, NEW to \in Rows, row[i] \in from,
           row[i] \in Active \/ to \notin Active
    PROVE  Transition(i, from, to)[i] = to
<1>1. ~(/\ to \in Active /\ game[i] # NoGame
        /\ \E j \in Items \ {i} : game[j] = game[i] /\ row[j] \in Active)
  BY DEF RowsSound
<1>2. Transition(i, from, to) = [row EXCEPT ![i] = to]
  BY <1>1 DEF Transition
<1>3. QED
  BY <1>2 DEF Types

LEMMA WorkerTypes ==
    ASSUME IInv, Worker
    PROVE  Types'
<1> USE DEF IInv
<1>0. /\ row \in [Items -> Rows] /\ stop \in [Items -> {"none"} \cup Stops]
      /\ worker \in Workers /\ active \in Items \cup {NoItem} /\ moves \in Nat
  BY DEF Types, Rows
<1>p. /\ Places = Resting \cup InRun \cup Ending
      /\ {"top", "claim", "reject", "leased", "begin", "stopped", "finished", "failed", "run",
          "final", "settle", "finally", "clear", "check", "dead"} \subseteq Places
      /\ {"failed", "verifying", "running", "complete", "paused", "none", "queued"} \subseteq Rows
      /\ Stops \subseteq Rows
  BY DEF Places, Resting, InRun, Ending, Rows, Active, Settled, Inflight, Held, Stops
<1>w. worker.pc \notin {"off", "dead", "top"} => worker.item \in Items
  BY <1>0 DEF WorkerSound, Workers, Resting, InRun, Ending
<1>m. ASSUME Move PROVE moves' \in Nat
  BY <1>0, <1>m DEF Move
<1>1. CASE Pick
  <2>1. PICK i \in Items :
          IF game[i] = NoGame
          THEN row' = Transition(i, {"queued"}, "failed") /\ UNCHANGED worker
          ELSE worker' = [pc |-> "check", item |-> i, game |-> game[i], target |-> "source"]
               /\ UNCHANGED row
    BY <1>1 DEF Pick
  <2>2. row' \in [Items -> Rows]
    BY <1>0, <1>p, <2>1, TransitionIs
  <2>3. worker' \in Workers
    BY <1>0, <2>1 DEF Types, Workers, Resting
  <2>4. QED
    BY <1>1, <2>2, <2>3 DEF Pick, Types, Rows
<1>2. CASE Check
  <2>1. worker' \in Workers
    BY <1>2, <1>p, GotoIs DEF Check
  <2>2. suspended' \in BOOLEAN /\ claiming' \in BOOLEAN
    BY <1>2 DEF Check, Latch, Blocked, Types
  <2>3. QED
    BY <1>2, <2>1, <2>2 DEF Check, Types
<1>3. CASE Claim
  <2>1. worker' \in Workers
    BY <1>3, <1>p, GotoIs DEF Claim
  <2>2. suspended' \in BOOLEAN /\ moves' \in Nat
    BY <1>3, <1>0, <1>m DEF Claim, Latch, Blocked, Types
  <2>3. lease' \in Games \cup {NoGame}
    BY <1>3, <1>0 DEF Claim, Types, Workers
  <2>4. QED
    BY <1>3, <2>1, <2>2, <2>3 DEF Claim, Types
<1>4. CASE Reject
  <2>1. worker' \in Workers /\ row' \in [Items -> Rows]
    BY <1>4, <1>p, <1>w, GotoIs, TransitionIs DEF Reject, At
  <2>2. QED
    BY <1>4, <2>1 DEF Reject, Types, Rows
<1>5. CASE Admit
  <2>1. worker.item \in Items
    BY <1>5, <1>w DEF Admit, At
  <2>2. worker' \in Workers /\ row' \in [Items -> Rows]
    BY <1>5, <1>0, <1>p, <2>1, GotoIs, TransitionIs DEF Admit
  <2>3. suspended' \in BOOLEAN /\ token' \in BOOLEAN /\ active' \in Items \cup {NoItem}
        /\ asked' \subseteq Stops /\ lease' \in Games \cup {NoGame}
    BY <1>5, <2>1 DEF Admit, Latch, Blocked, Types
  <2>4. QED
    BY <1>5, <2>2, <2>3 DEF Admit, Types, Rows
<1>6. CASE Begin
  <2>1. worker' \in Workers /\ moves' \in Nat
    <3>1. [worker EXCEPT !.pc = "run", !.target = "none"] \in Workers
      BY <1>0 DEF Workers, InRun
    <3>2. QED
      BY <1>6, <1>0, <1>m, <1>p, <3>1, GotoIs DEF Begin
  <2>2. QED
    BY <1>6, <2>1 DEF Begin, Types
<1>7. CASE Progress
  <2>1. row' \in [Items -> Rows]
    BY <1>7, <1>p, <1>w, TransitionIs DEF Progress, At
  <2>2. partial' \subseteq Games
    <3>1. worker.pc = "run" /\ worker.game \in Games
      BY <1>7 DEF Progress, At, WorkerSound, Ending
    <3>2. QED
      BY <1>7, <3>1 DEF Progress, Types
  <2>3. QED
    BY <1>7, <2>1, <2>2 DEF Progress, Types, Rows
<1>8. CASE Transferred
  <2>1. worker' \in Workers /\ moves' \in Nat
    BY <1>8, <1>0, <1>m, <1>p, GotoIs DEF Transferred
  <2>2. QED
    BY <1>8, <2>1 DEF Transferred, Types
<1>9. CASE Final
  <2>1. worker' \in Workers /\ moves' \in Nat
    BY <1>9, <1>0, <1>m, <1>p, GotoIs DEF Final
  <2>2. row' \in [Items -> Rows]
    BY <1>9, <1>p, <1>w, TransitionIs DEF Final, At
  <2>3. QED
    BY <1>9, <2>1, <2>2 DEF Final, Types, Rows
<1>10. CASE PopStop
  <2>1. worker.item \in Items
    BY <1>10, <1>w DEF PopStop, At
  <2>2. stop[worker.item] \in {"none"} \cup Stops
    BY <1>0, <2>1
  <2>3. worker' \in Workers
    BY <1>10, <1>0, <2>2 DEF PopStop, Workers, InRun, Stops
  <2>4. stop' \in [Items -> {"none"} \cup Stops]
    BY <1>10, <1>0 DEF PopStop
  <2>5. QED
    BY <1>10, <2>3, <2>4 DEF PopStop, Types
<1>11. CASE Settle
  <2>1. worker.item \in Items
    BY <1>11, <1>w DEF Settle, At
  <2>2. worker.pc = "settle" => worker.target \in Rows
    BY <1>p DEF StopSound, Types
  <2>3. worker' \in Workers
    BY <1>11, <1>p, GotoIs DEF Settle, SettleAs
  <2>4. row' \in [Items -> Rows]
    BY <1>11, <1>p, <2>1, <2>2, TransitionIs DEF Settle, SettleAs, At
  <2>5. suspended' \in BOOLEAN
    BY <1>11 DEF Settle, Latch, Blocked, Types
  <2>6. QED
    BY <1>11, <2>3, <2>4, <2>5 DEF Settle, Types, Rows
<1>12. CASE Unlock
  <2>1. worker' \in Workers
    BY <1>12, <1>p, GotoIs DEF Unlock
  <2>2. QED
    BY <1>12, <2>1 DEF Unlock, Types
<1>13. CASE Clear
  <2>1. worker' \in Workers
    BY <1>13, <1>p, GotoIs DEF Clear
  <2>2. QED
    BY <1>13, <2>1 DEF Clear, Types
<1>14. CASE Raise
  <2>1. worker' \in Workers /\ moves' \in Nat
    BY <1>14, <1>0, <1>m DEF Raise, Workers, Ending
  <2>2. suspended' \in BOOLEAN
    BY <1>14 DEF Raise, Types
  <2>3. QED
    BY <1>14, <2>1, <2>2 DEF Raise, Types
<1>15. QED
  BY <1>1, <1>2, <1>3, <1>4, <1>5, <1>6, <1>7, <1>8, <1>9, <1>10, <1>11, <1>12, <1>13, <1>14
     DEF Worker

LEMMA StopActiveTypes ==
    ASSUME Types, NEW to \in Stops, active # NoItem, StopActive(to)
    PROVE  /\ stop' \in [Items -> {"none"} \cup Stops] /\ token' \in BOOLEAN
           /\ asked' \subseteq Stops
BY DEF Types, StopActive

LEMMA ControlTypes ==
    ASSUME Types, Control \/ DoStop \/ DoDiscard
    PROVE  Types'
<1>0. row \in [Items -> Rows] /\ moves \in Nat /\ NoControl \in Controls
      /\ NoControl.kind = "none"
  BY DEF Types, Rows, NoControl, Controls
<1>p. {"queued", "cancelled", "none"} \subseteq Rows
  BY DEF Rows, Active, Settled
<1>m. Request => moves' \in Nat
  BY <1>0 DEF Request, Move
<1>e. ASSUME NEW to \in [Items -> Rows], Edit(to), Request PROVE Types'
  BY <1>e, <1>m DEF Edit, Types, Rows
<1>1. ASSUME NEW g \in Games, Enqueue(g) PROVE Types'
  <2>1. born + 1 \in Items /\ born' \in 0..MaxItems
    BY <1>1 DEF Enqueue, Types, Items
  <2>2. row' \in [Items -> Rows] /\ game' \in [Items -> Games \cup {NoGame}]
    BY <1>0, <1>1, <1>p, <2>1 DEF Enqueue, Types
  <2>3. QED
    BY <1>1, <2>1, <2>2 DEF Enqueue, Types, Rows
<1>2. ASSUME NEW g \in Games, AskDiscard(g) PROVE Types'
  <2>1. control' \in Controls /\ control'.kind = "discard"
    BY <1>2 DEF AskDiscard, Controls
  <2>2. moves' \in Nat
    BY <1>0, <1>2 DEF AskDiscard, Move
  <2>3. QED
    BY <1>2, <2>1, <2>2 DEF AskDiscard, Types
<1>3. ASSUME NEW i \in Items, NEW to \in {"paused", "cancelled"}, AskStop(i, to) PROVE Types'
  <2>1. control' \in Controls /\ control'.to # "none"
    BY <1>3 DEF AskStop, Controls
  <2>2. QED
    BY <1>3, <1>m, <2>1 DEF AskStop, Types
<1>4. ASSUME NEW i \in Items, CancelQueued(i) \/ Resume(i) \/ Retry(i) PROVE Types'
  <2>1. \A from : Transition(i, from, "cancelled") \in [Items -> Rows]
                  /\ Transition(i, from, "queued") \in [Items -> Rows]
    BY <1>p, TransitionIs
  <2>2. PICK to \in [Items -> Rows] : Edit(to) /\ Request
    BY <1>4, <2>1 DEF CancelQueued, Resume, Retry
  <2>3. QED
    BY <1>e, <2>2
<1>5. ASSUME NEW i \in Items, RemoveQueued(i) PROVE Types'
  <2>1. [row EXCEPT ![i] = "none"] \in [Items -> Rows]
    BY <1>0, <1>p
  <2>2. QED
    BY <1>e, <1>5, <2>1 DEF RemoveQueued
<1>6. CASE CancelAll
  <2>1. control' \in Controls /\ control'.to # "none"
    BY <1>6 DEF CancelAll, Controls
  <2>2. row' \in [Items -> Rows]
    BY <1>0, <1>6, <1>p DEF CancelAll
  <2>3. QED
    BY <1>6, <1>m, <2>1, <2>2 DEF CancelAll, Types, Rows
<1>7. CASE RetryAllFailed
  <2>1. PICK S \in SUBSET Items :
          Edit([i \in Items |-> IF i \in S THEN "queued" ELSE row[i]]) /\ Request
    BY <1>7 DEF RetryAllFailed
  <2>2. [i \in Items |-> IF i \in S THEN "queued" ELSE row[i]] \in [Items -> Rows]
    BY <1>0, <1>p
  <2>3. QED
    BY <1>e, <2>1, <2>2
<1>8. CASE DoStop
  <2>1. /\ stop' \in [Items -> {"none"} \cup Stops] /\ token' \in BOOLEAN
        /\ asked' \subseteq Stops
    <3>1. control.to \in Stops
      BY <1>8 DEF DoStop, Types, Controls, Stops
    <3>2. CASE active # NoItem /\ StopActive(control.to)
      BY <3>1, <3>2, StopActiveTypes
    <3>3. CASE UNCHANGED <<stop, token, asked>>
      BY <3>3 DEF Types
    <3>4. QED
      BY <1>8, <3>2, <3>3 DEF DoStop
  <2>2. QED
    BY <1>0, <1>8, <2>1 DEF DoStop, Types
<1>9. CASE DoDiscard
  BY <1>0, <1>9 DEF DoDiscard, Types
<1>10. QED
  BY <1>1, <1>2, <1>3, <1>4, <1>5, <1>6, <1>7, <1>8, <1>9 DEF Control

(* A switch is one of those, wherever it goes.                             *)
LEMMA SwitchIs ==
    ASSUME Types
    PROVE  /\ NoSwitch \in Switches
           /\ Coordinated => switch' \in Switches /\ stranded' \in BOOLEAN
           /\ Fail => switch' \in Switches /\ stranded' \in BOOLEAN
<1>1. NoSwitch \in Switches
  BY DEF NoSwitch, Switches
<1>2. switch \in Switches /\ stranded \in BOOLEAN
  BY DEF Types
<1>3. Coordinated => switch' \in Switches
  BY <1>1, <1>2 DEF Coordinated, Switches
<1>4. Fail => switch' \in Switches
  BY <1>1, <1>2 DEF Fail, Switches
<1>5. (Coordinated \/ Fail) => stranded' \in BOOLEAN
  BY <1>2 DEF Coordinated, Fail
<1>6. QED
  BY <1>1, <1>3, <1>4, <1>5

LEMMA SwitchTypes ==
    ASSUME Types, SwitchSound, Switch \/ SwitchKilled \/ \E m \in {"cache", "offline"} : SwitchTo(m)
    PROVE  Types'
<1>0. moves \in Nat /\ switch \in Switches
  BY DEF Types
<1>m. Move => moves' \in Nat
  BY <1>0 DEF Move
<1>1. CASE Coordinate
  <2>1. switch' \in Switches /\ stranded' \in BOOLEAN
    <3>1. [switch EXCEPT !.waits = "yes"] \in Switches
      BY <1>0 DEF Switches
    <3>2. QED
      BY <1>1, <3>1, SwitchIs DEF Coordinate, Types
  <2>2. /\ suspended' \in BOOLEAN /\ claiming' = claiming /\ active' = active
        /\ moves' \in Nat
    BY <1>0, <1>1, <1>m DEF Coordinate, Types
  <2>3. /\ stop' \in [Items -> {"none"} \cup Stops] /\ token' \in BOOLEAN
        /\ asked' \subseteq Stops
    <3>1. \/ UNCHANGED <<stop, token, asked>>
          \/ active # NoItem /\ StopActive("paused")
      BY <1>1 DEF Coordinate
    <3>2. QED
      BY <3>1, StopActiveTypes DEF Types, Stops
  <2>4. QED
    BY <1>1, <2>1, <2>2, <2>3 DEF Coordinate, Types
<1>2. CASE Answer
  <2>1. switch' \in Switches /\ stranded' \in BOOLEAN /\ moves' \in Nat
    BY <1>0, <1>2, <1>m, SwitchIs DEF Answer
  <2>2. QED
    BY <1>2, <2>1 DEF Answer, Types
<1>3. CASE Present \/ Commit \/ Refresh \/ Restore
  <2>1. moves' \in Nat
    BY <1>0, <1>3, <1>m DEF Present, Commit, Refresh, Restore
  <2>2. switch' \in Switches
    <3>1. /\ [switch EXCEPT !.pc = "commit"] \in Switches
          /\ [switch EXCEPT !.pc = "coord", !.committed = TRUE] \in Switches
          /\ [switch EXCEPT !.pc = "undo"] \in Switches
      BY <1>0 DEF Switches
    <3>2. QED
      BY <1>3, <3>1, SwitchIs DEF Present, Commit, Refresh, Restore
  <2>3. stranded' \in BOOLEAN
    BY <1>3, SwitchIs DEF Present, Commit, Refresh, Restore, Types
  <2>4. mode' \in {"cache", "offline"}
    <3>1. switch.pc = "commit" => switch.to \in {"cache", "offline"}
      BY <1>0 DEF SwitchSound, Switches
    <3>2. switch.pc = "restore" => switch.from \in {"cache", "offline"}
      BY DEF SwitchSound
    <3>3. QED
      BY <1>3, <3>1, <3>2 DEF Present, Commit, Refresh, Restore, Types
  <2>5. QED
    BY <1>3, <2>1, <2>2, <2>3, <2>4 DEF Present, Commit, Refresh, Restore, Types
<1>4. CASE SwitchKilled
  BY <1>4, <1>m, SwitchIs DEF SwitchKilled, Types
<1>5. ASSUME NEW m \in {"cache", "offline"}, SwitchTo(m) PROVE Types'
  <2>1. switch' \in Switches
    BY <1>5 DEF SwitchTo, Switches, NoSwitch, Types
  <2>2. QED
    BY <1>5, <1>m, <2>1 DEF SwitchTo, Types
<1>6. QED
  BY <1>1, <1>2, <1>3, <1>4, <1>5 DEF Switch

Manager == Start \/ Publish \/ Serve \/ Term \/ Exit \/ Crash

LEMMA ManagerTypes ==
    ASSUME Types, Manager
    PROVE  Types'
<1>0. moves \in Nat /\ starts \in Nat /\ row \in [Items -> Rows] /\ switch \in Switches
  BY DEF Types, Rows
<1>m. Move => moves' \in Nat
  BY <1>0 DEF Move
<1>1. CASE Start
  <2>1. row' \in [Items -> Rows] /\ starts' \in Nat
    BY <1>0, <1>1 DEF Start, Rows, Active, Held
  <2>2. QED
    BY <1>1, <2>1 DEF Start, Types, Rows
<1>2. CASE Publish
  BY <1>2 DEF Publish, Types
<1>3. CASE Serve
  <2>1. worker' \in Workers
    BY <1>3, GotoIs DEF Serve, Places, Resting
  <2>2. QED
    BY <1>3, <2>1 DEF Serve, Types
<1>4. CASE Term
  <2>1. /\ stop' \in [Items -> {"none"} \cup Stops] /\ token' \in BOOLEAN
        /\ asked' \subseteq Stops
    <3>1. \/ UNCHANGED <<stop, token, asked>>
          \/ active # NoItem /\ StopActive("interrupted")
      BY <1>4 DEF Term
    <3>2. QED
      BY <3>1, StopActiveTypes DEF Types, Stops
  <2>2. QED
    BY <1>4, <1>m, <2>1 DEF Term, Types
<1>5. CASE Exit \/ Crash
  <2>1. Gone /\ moves' \in Nat
    BY <1>0, <1>5, <1>m DEF Exit, Crash
  <2>2. NoWorker \in Workers /\ NoControl \in Controls /\ NoControl.kind = "none"
    BY DEF NoWorker, Workers, NoControl, Controls, Resting
  <2>3. [switch EXCEPT !.waits = "lost"] \in Switches
    BY <1>0 DEF Switches
  <2>4. switch' \in Switches
    BY <1>0, <2>1, <2>3 DEF Gone
  <2>5. stop' \in [Items -> {"none"} \cup Stops]
    BY <2>1 DEF Gone
  <2>6. QED
    BY <2>1, <2>2, <2>4, <2>5 DEF Gone, Types
<1>6. QED
  BY <1>1, <1>2, <1>3, <1>4, <1>5 DEF Manager

LEMMA OutsideTypes ==
    ASSUME Types, Outside
    PROVE  Types'
<1>0. moves \in Nat /\ game \in [Items -> Games \cup {NoGame}]
  BY DEF Types
<1>m. Move => moves' \in Nat
  BY <1>0 DEF Move
<1>1. CASE ForeignLeaves
  BY <1>1 DEF ForeignLeaves, Types
<1>2. ASSUME NEW g \in Games, ForeignTakes(g) PROVE Types'
  BY <1>2, <1>m DEF ForeignTakes, Types
<1>3. ASSUME NEW g \in Games, CatalogDrops(g) PROVE Types'
  <2>1. game' \in [Items -> Games \cup {NoGame}]
    BY <1>0, <1>3 DEF CatalogDrops
  <2>2. QED
    BY <1>3, <1>m, <2>1 DEF CatalogDrops, Types
<1>4. QED
  BY <1>1, <1>2, <1>3 DEF Outside

-----------------------------------------------------------------------------
(* The worker.                                                             *)

\* What the invariant says of the worker, its locks and its memory is about these.
WorkerState == <<worker, active, lease, foreign, claiming, manager, suspended>>

LEMMA WorkerKeeps ==
    ASSUME IInv, Worker
    PROVE  WorkerSound'
<1> USE DEF IInv, Resting, InRun, Ending, At
<1>0. worker \in Workers /\ claiming \in BOOLEAN /\ suspended \in BOOLEAN
      /\ active \in Items \cup {NoItem}
  BY DEF Types
<1>f. UNCHANGED <<foreign, manager>>
  BY DEF Worker, Pick, Check, Claim, Reject, Admit, Begin, Progress, Transferred, Final, PopStop, Raise,
     Settle, Unlock, Clear
<1>u. manager \in {"up", "closing"}
  BY DEF Worker, Pick, Check, Claim, Reject, Admit, Begin, Progress, Transferred, Final, PopStop, Raise,
     Settle, Unlock, Clear
<1>1. CASE Pick
  <2>1. worker.pc = "top" /\ UNCHANGED <<active, lease, foreign, claiming, manager, suspended>>
    BY <1>1 DEF Pick
  <2>2. PICK i \in Items :
          \/ UNCHANGED worker
          \/ game[i] # NoGame /\ worker' = [pc |-> "check", item |-> i, game |-> game[i],
                                            target |-> "source"]
    BY <1>1 DEF Pick
  <2>3. game[i] \in Games \cup {NoGame}
    BY DEF Types
  <2>4. QED
    BY <1>u, <2>1, <2>2, <2>3 DEF WorkerSound
<1>2. CASE Check
  <2>1. /\ worker'.pc = (IF Blocked THEN "top" ELSE "claim") /\ worker'.item = worker.item
        /\ worker'.game = worker.game
    BY <1>2, GotoIs DEF Check, Places
  <2>2. worker.pc = "check" /\ claiming' = ~Blocked
        /\ UNCHANGED <<active, lease, foreign, manager>>
    BY <1>2 DEF Check
  <2>3. QED
    BY <1>u, <2>1, <2>2 DEF WorkerSound
<1>3. CASE Claim
  <2>1. worker.pc = "claim" /\ claiming' = FALSE /\ UNCHANGED <<active, foreign, manager>>
    BY <1>3 DEF Claim
  <2>2. /\ worker'.item = worker.item /\ worker'.game = worker.game
        /\ \/ worker'.pc = "leased" /\ lease' = worker.game /\ foreign # worker.game
           \/ worker'.pc \in {"top", "reject"} /\ lease' = lease
    BY <1>3, GotoIs DEF Claim, Places
  <2>3. QED
    BY <1>u, <2>1, <2>2 DEF WorkerSound
<1>4. CASE Reject
  <2>1. worker'.pc = "top" /\ worker.pc = "reject"
        /\ UNCHANGED <<active, lease, foreign, claiming, manager, suspended>>
    BY <1>4, GotoIs DEF Reject, Places
  <2>2. QED
    BY <1>u, <2>1 DEF WorkerSound
<1>5. CASE Admit
  <2>1. worker.pc = "leased" /\ UNCHANGED <<claiming, foreign, manager>>
    BY <1>5 DEF Admit
  <2>2. /\ worker'.item = worker.item /\ worker'.game = worker.game
        /\ \/ worker'.pc = "begin" /\ active' = worker.item /\ lease' = lease
           \/ worker'.pc = "top" /\ active' = active /\ lease' = NoGame
    BY <1>5, GotoIs DEF Admit, Places
  <2>3. QED
    BY <1>u, <2>1, <2>2 DEF WorkerSound
<1>6. CASE Begin \/ Transferred \/ Final \/ Raise \/ Settle
  <2>1. /\ worker.pc \in InRun /\ worker'.pc \in InRun \cup {"finally"}
        /\ worker'.item = worker.item /\ worker'.game = worker.game
    <3>1. CASE Raise \/ (Begin /\ worker' = [worker EXCEPT !.pc = "run", !.target = "none"])
      BY <1>0, <3>1 DEF Begin, Raise, Workers
    <3>2. QED
      BY <1>6, <3>1, GotoIs DEF Begin, Transferred, Final, Settle, SettleAs, Places
  <2>2. UNCHANGED <<active, lease, foreign, claiming, manager>>
    BY <1>6 DEF Begin, Transferred, Final, Raise, Settle
  <2>3. QED
    BY <1>u, <2>1, <2>2 DEF WorkerSound
<1>7. CASE Progress
  BY <1>7 DEF Progress, WorkerSound
<1>8. CASE PopStop
  <2>1. /\ worker'.pc = "settle" /\ worker'.item = worker.item /\ worker'.game = worker.game
        /\ worker.pc = "stopped"
        /\ UNCHANGED <<active, lease, foreign, claiming, manager, suspended>>
    BY <1>0, <1>8 DEF PopStop, Workers
  <2>2. QED
    BY <1>u, <2>1 DEF WorkerSound
<1>9. CASE Unlock
  <2>1. /\ worker'.pc = "clear" /\ worker'.item = worker.item /\ worker.pc = "finally"
        /\ lease' = NoGame
        /\ UNCHANGED <<active, foreign, claiming, manager, suspended>>
    BY <1>9, GotoIs DEF Unlock, Places
  <2>2. QED
    BY <1>u, <2>1 DEF WorkerSound
<1>10. CASE Clear
  <2>1. /\ worker'.pc \in {"top", "dead"} /\ worker.pc = "clear" /\ active' = NoItem
        /\ UNCHANGED <<lease, foreign, claiming, manager, suspended>>
    BY <1>10, GotoIs DEF Clear, Places
  <2>2. QED
    BY <1>u, <2>1 DEF WorkerSound
<1>11. QED
  BY <1>1, <1>2, <1>3, <1>4, <1>5, <1>6, <1>7, <1>8, <1>9, <1>10 DEF Worker

LEMMA WorkerKept ==
    ASSUME IInv, \/ Control \/ DoStop \/ DoDiscard \/ Manager \/ Outside
                 \/ Switch \/ SwitchKilled \/ \E m \in {"cache", "offline"} : SwitchTo(m)
    PROVE  WorkerSound'
<1> USE DEF IInv, Resting, InRun, Ending
<1>1. CASE Control \/ DoStop \/ DoDiscard
  <2>1. UNCHANGED WorkerState
    BY <1>1 DEF WorkerState, Control, DoStop, DoDiscard, Enqueue, AskDiscard, AskStop, CancelAll,
       CancelQueued, Resume, Retry, RemoveQueued, RetryAllFailed, Edit
  <2>2. QED
    BY <2>1 DEF WorkerSound, WorkerState
<1>2. CASE Switch \/ SwitchKilled \/ \E m \in {"cache", "offline"} : SwitchTo(m)
  <2>1. UNCHANGED <<worker, active, lease, foreign, claiming, manager>>
        /\ (suspended' = suspended \/ manager = "up")
    BY <1>2 DEF Switch, Coordinate, Answer, Present, Commit, Refresh, Restore, SwitchKilled,
       SwitchTo
  <2>2. QED
    BY <2>1 DEF WorkerSound
<1>3. CASE Start \/ Publish
  <2>1. UNCHANGED <<worker, active, lease, foreign, claiming, suspended>>
        /\ manager \in {"down", "starting"}
    BY <1>3 DEF Start, Publish
  <2>2. QED
    BY <2>1 DEF WorkerSound
<1>4. CASE Serve
  <2>1. worker'.pc = "top" /\ manager = "published" /\ manager' = "up"
        /\ UNCHANGED <<active, lease, foreign, claiming, suspended>>
    BY <1>4, GotoIs DEF Serve, Places
  <2>2. QED
    BY <2>1 DEF WorkerSound
<1>5. CASE Term
  <2>1. UNCHANGED <<worker, active, lease, foreign, claiming, suspended>> /\ manager' = "closing"
    BY <1>5 DEF Term
  <2>2. QED
    BY <2>1 DEF WorkerSound
<1>6. CASE Exit \/ Crash
  <2>1. /\ worker' = NoWorker /\ lease' = NoGame /\ active' = NoItem /\ suspended' = FALSE
        /\ claiming' = FALSE /\ foreign' = foreign
    BY <1>6 DEF Exit, Crash, Gone
  <2>2. QED
    BY <2>1 DEF WorkerSound, NoWorker
<1>7. CASE Outside
  <2>1. /\ UNCHANGED <<worker, active, lease, claiming, manager, suspended>>
        /\ foreign' \in Games => foreign' = foreign \/ lease # foreign'
    BY <1>7 DEF Outside, ForeignLeaves, ForeignTakes, CatalogDrops
  <2>2. QED
    BY <2>1 DEF WorkerSound
<1>8. QED
  BY <1>1, <1>2, <1>3, <1>4, <1>5, <1>6, <1>7 DEF Manager

-----------------------------------------------------------------------------
(* The rows of the queue.                                                  *)

\* Of the queue alone.
TableSound ==
    /\ \A i \in Items : i > born => row[i] = "none"
    /\ \A i, j \in Items : i # j /\ game[i] = game[j] /\ game[i] # NoGame =>
         ~(row[i] \in Active /\ row[j] \in Active)

(* A conditional update respects the unique index.                         *)
LEMMA TransitionTable ==
    ASSUME Types, TableSound, NEW i \in Items, NEW from, NEW to \in Rows, "none" \notin from,
           row' = Transition(i, from, to), UNCHANGED <<game, born>>
    PROVE  TableSound'
<1>0. row \in [Items -> Rows]
  BY DEF Types, Rows
<1>1. CASE row' = row
  BY <1>1 DEF TableSound
<1>2. CASE row' # row
  <2>1. /\ row' = [row EXCEPT ![i] = to] /\ row[i] \in from
        /\ to \in Active /\ game[i] # NoGame =>
             \A j \in Items \ {i} : game[j] = game[i] => row[j] \notin Active
    BY <1>2 DEF Transition
  <2>2. row[i] # "none"
    BY <2>1
  <2>3. \A k \in Items : k > born' => row'[k] = "none"
    BY <1>0, <2>1, <2>2 DEF TableSound
  <2>4. ASSUME NEW k \in Items, NEW j \in Items, k # j, game[k] = game[j], game[k] # NoGame,
               row'[k] \in Active, row'[j] \in Active
        PROVE  FALSE
    <3>1. CASE k = i
      BY <1>0, <2>1, <2>4, <3>1
    <3>2. CASE j = i
      BY <1>0, <2>1, <2>4, <3>2
    <3>3. CASE k # i /\ j # i
      BY <1>0, <2>1, <2>4, <3>3 DEF TableSound
    <3>4. QED
      BY <3>1, <3>2, <3>3
  <2>5. QED
    BY <2>3, <2>4 DEF TableSound
<1>3. QED
  BY <1>1, <1>2

(* Leaving the active states is always possible.                           *)
LEMMA LessActiveTable ==
    ASSUME Types, TableSound, UNCHANGED born,
           \A i \in Items : \/ row'[i] = row[i]
                            \/ row[i] # "none" /\ row'[i] \notin Active
                            \/ row[i] \in Active /\ row'[i] \in Active,
           \A i \in Items : game'[i] \in {game[i], NoGame}
    PROVE  TableSound'
<1>1. \A i \in Items : row'[i] \in Active => row[i] \in Active
  OBVIOUS
<1>2. \A i \in Items : i > born' => row'[i] = "none"
  BY DEF TableSound, Active, Inflight, Held
<1>3. ASSUME NEW i \in Items, NEW j \in Items, i # j, game'[i] = game'[j], game'[i] # NoGame,
             row'[i] \in Active, row'[j] \in Active
      PROVE  FALSE
  <2>1. game[i] = game[j] /\ game[i] # NoGame
    BY <1>3
  <2>2. QED
    BY <1>1, <1>3, <2>1 DEF TableSound
<1>4. QED
  BY <1>2, <1>3 DEF TableSound

LEMMA WorkerRows ==
    ASSUME IInv, Worker
    PROVE  RowsSound'
<1> USE DEF IInv, Resting, InRun, Ending, At
<1>0. /\ worker \in Workers /\ manager \in {"up", "closing"} /\ UNCHANGED <<manager, game, born>>
      /\ active \in Items \cup {NoItem} /\ row \in [Items -> Rows]
  BY DEF Types, Rows, Worker, Pick, Check, Claim, Reject, Admit, Begin, Progress, Transferred,
     Final, PopStop, Raise, Settle, Unlock, Clear
<1>t. TableSound /\ (TableSound' /\
        /\ worker'.pc \in {"begin", "run", "final", "stopped", "settle"} =>
             row'[worker'.item] \in Inflight
        /\ worker'.pc \in {"failed", "finished"} =>
             row'[worker'.item] \in Inflight \cup {"complete"}
        /\ worker'.pc \in Ending /\ worker'.target # "raised" => row'[worker'.item] \notin Inflight
        /\ \A i \in Items : row'[i] \in Inflight => active' = i \/ Dead(i)') => RowsSound'
  BY DEF RowsSound, TableSound
<1>s. TableSound
  BY DEF RowsSound, TableSound
<1>i. /\ worker.pc # "dead" => \A i \in Items : row[i] \in Inflight => active = i
      /\ worker.pc \in {"begin", "run", "final", "stopped", "settle"} =>
           row[worker.item] \in Inflight
      /\ worker.pc \in {"failed", "finished"} => row[worker.item] \in Inflight \cup {"complete"}
      /\ worker.pc \in Ending /\ worker.target # "raised" => row[worker.item] \notin Inflight
  BY <1>0 DEF RowsSound, Dead
<1>n. /\ worker.pc # "dead"
      /\ (\A i \in Items : row'[i] \in Inflight => active' = i) =>
           \A i \in Items : row'[i] \in Inflight => active' = i \/ Dead(i)'
  BY DEF Worker, Pick, Check, Claim, Reject, Admit, Begin, Progress, Transferred, Final, PopStop,
     Raise, Settle, Unlock, Clear
<1>p. /\ {"failed", "verifying", "running", "complete", "paused"} \cup Stops \subseteq Rows
      /\ Inflight \subseteq Active /\ "complete" \notin Active /\ "failed" \notin Active
      /\ "none" \notin Inflight \cup {"queued"} /\ "queued" \in Active /\ "queued" \notin Inflight
  BY DEF Rows, Active, Settled, Inflight, Held, Stops
<1>w. worker.pc \notin {"off", "dead", "top"} => worker.item \in Items
  BY <1>0 DEF WorkerSound, Workers
<1>1. CASE Pick
  <2>1. PICK i \in Items :
          \/ row' = Transition(i, {"queued"}, "failed") /\ UNCHANGED worker
          \/ worker'.pc = "check" /\ UNCHANGED row
    BY <1>1 DEF Pick
  <2>2. worker.pc = "top" /\ active' = active
    BY <1>1 DEF Pick
  <2>3. TableSound'
    <3>1. CASE row' = row
      BY <1>0, <1>s, <3>1 DEF TableSound
    <3>2. CASE row' # row
      BY <1>0, <1>p, <1>s, <2>1, <3>2, TransitionTable
    <3>3. QED
      BY <3>1, <3>2
  <2>4. \A j \in Items : row'[j] \in Inflight => row[j] \in Inflight
    BY <1>p, <2>1, TransitionIs DEF Inflight
  <2>5. QED
    BY <1>t, <1>s, <1>i, <1>n, <2>1, <2>2, <2>3, <2>4
<1>2. CASE Check \/ Claim
  <2>1. worker'.pc \in {"top", "claim", "leased", "reject"} /\ UNCHANGED <<row, active>>
    BY <1>2, GotoIs DEF Check, Claim, Places
  <2>2. TableSound'
    BY <1>0, <1>s, <2>1 DEF TableSound
  <2>3. QED
    BY <1>t, <1>s, <1>i, <1>n, <2>1, <2>2
<1>3. CASE Reject
  <2>1. worker.item \in Items /\ worker'.pc = "top" /\ active' = active
        /\ row' = Transition(worker.item, {"queued"}, "failed")
    BY <1>3, <1>w, GotoIs DEF Reject, Places
  <2>2. TableSound'
    BY <1>0, <1>p, <1>s, <2>1, TransitionTable
  <2>3. \A j \in Items : row'[j] \in Inflight => row[j] \in Inflight
    BY <1>p, <2>1, TransitionIs DEF Inflight
  <2>4. QED
    BY <1>t, <1>s, <1>i, <1>n, <2>1, <2>2, <2>3
<1>4. CASE Admit
  <2>0. worker.item \in Items /\ worker.pc = "leased" /\ active = NoItem
    BY <1>4, <1>w DEF Admit, WorkerSound
  <2>1. CASE ~Blocked /\ row[worker.item] = "queued"
    <3>1. PICK to \in {"verifying", "running"} :
            row' = Transition(worker.item, {"queued"}, to)
      BY <1>4, <2>1 DEF Admit
    <3>2. active' = worker.item /\ worker'.pc = "begin" /\ worker'.item = worker.item
      BY <1>4, <2>1, GotoIs DEF Admit, Places
    <3>3. TableSound'
      BY <1>0, <1>p, <1>s, <2>0, <3>1, TransitionTable
    <3>4. row'[worker.item] = to
      BY <1>p, <2>0, <2>1, <3>1, TransitionTakes
    <3>5. \A j \in Items : j # worker.item => row'[j] = row[j]
      BY <1>p, <2>0, <3>1, TransitionIs
    <3>6. \A j \in Items : row[j] \notin Inflight
      BY <1>i, <1>n, <2>0
    <3>7. to \in Inflight
      BY DEF Inflight
    <3>8. QED
      BY <1>t, <1>s, <1>n, <3>2, <3>3, <3>4, <3>5, <3>6, <3>7
  <2>2. CASE ~(~Blocked /\ row[worker.item] = "queued")
    <3>1. worker'.pc = "top" /\ UNCHANGED <<row, active>>
      BY <1>4, <2>2, GotoIs DEF Admit, Places
    <3>2. TableSound'
      BY <1>0, <1>s, <3>1 DEF TableSound
    <3>3. QED
      BY <1>t, <1>s, <1>i, <1>n, <3>1, <3>2
  <2>3. QED
    BY <2>1, <2>2
<1>5. CASE Begin \/ Transferred
  <2>1. /\ worker.pc \in {"begin", "run"}
        /\ worker'.pc \in {"stopped", "finished", "failed", "run", "final"}
        /\ worker'.item = worker.item /\ UNCHANGED <<row, active>>
    <3>1. CASE Begin /\ worker' = [worker EXCEPT !.pc = "run", !.target = "none"]
      BY <1>0, <3>1 DEF Begin, Workers
    <3>2. QED
      BY <1>5, <3>1, GotoIs DEF Begin, Transferred, Places
  <2>2. TableSound'
    BY <1>0, <1>s, <2>1 DEF TableSound
  <2>3. QED
    BY <1>t, <1>s, <1>i, <1>n, <2>1, <2>2
<1>6. CASE Progress
  <2>1. /\ worker.pc = "run" /\ UNCHANGED <<worker, active>> /\ worker.item \in Items
        /\ row' = Transition(worker.item, {"verifying"}, "running")
    BY <1>6, <1>w DEF Progress
  <2>2. TableSound'
    BY <1>0, <1>p, <1>s, <2>1, TransitionTable
  <2>3. /\ \A j \in Items : j # worker.item => row'[j] = row[j]
        /\ row'[worker.item] \in {row[worker.item], "running"}
    BY <1>p, <2>1, TransitionIs
  <2>4. row[worker.item] \in Inflight /\ "running" \in Inflight
    BY <1>i, <2>1 DEF Inflight
  <2>5. \A j \in Items : row'[j] \in Inflight => active = j
    BY <1>i, <1>n, <2>1, <2>3, <2>4
  <2>6. QED
    BY <1>t, <1>s, <1>n, <2>1, <2>2, <2>3, <2>4, <2>5
<1>7. CASE Final
  <2>1. /\ worker.pc = "final" /\ active' = active /\ worker.item \in Items
        /\ worker'.pc \in {"failed", "finished"} /\ worker'.item = worker.item
        /\ row' = Transition(worker.item, Inflight, "complete")
    BY <1>7, <1>w, GotoIs DEF Final, Places
  <2>2. TableSound'
    BY <1>0, <1>p, <1>s, <2>1, TransitionTable
  <2>3. /\ \A j \in Items : j # worker.item => row'[j] = row[j]
        /\ row'[worker.item] \in {row[worker.item], "complete"}
    BY <1>p, <2>1, TransitionIs
  <2>4. "complete" \notin Inflight /\ row[worker.item] \in Inflight
    BY <1>i, <2>1 DEF Inflight
  <2>5. \A j \in Items : row'[j] \in Inflight => active' = j
    BY <1>i, <1>n, <2>1, <2>3, <2>4
  <2>6. QED
    BY <1>t, <1>s, <1>n, <2>1, <2>2, <2>3, <2>4, <2>5
<1>8. CASE PopStop
  <2>1. /\ worker.pc = "stopped" /\ worker'.pc = "settle" /\ worker'.item = worker.item
        /\ UNCHANGED <<row, active>>
    BY <1>0, <1>8 DEF PopStop, Workers
  <2>2. TableSound'
    BY <1>0, <1>s, <2>1 DEF TableSound
  <2>3. QED
    BY <1>t, <1>s, <1>i, <1>n, <2>1, <2>2
<1>9. CASE Settle
  <2>1. /\ worker.item \in Items /\ worker'.pc = "finally" /\ worker'.item = worker.item
        /\ active' = active
    BY <1>9, <1>w, GotoIs DEF Settle, SettleAs, Places
  <2>2. /\ worker.pc \in {"settle", "failed", "finished"}
        /\ row[worker.item] \in Inflight \cup {"complete"}
    BY <1>9, <1>i DEF Settle
  <2>3. worker.pc = "settle" => worker.target \in Stops
    BY DEF StopSound, Types
  <2>4. PICK to \in Stops \cup {"paused", "failed", "complete"} :
          row' = Transition(worker.item, {row[worker.item]}, to)
    BY <1>9, <2>3 DEF Settle, SettleAs
  <2>5. to \in Rows /\ to \notin Inflight
    BY <1>p DEF Stops, Inflight
  <2>6. TableSound'
    BY <1>0, <1>p, <1>s, <2>1, <2>2, <2>4, <2>5, TransitionTable
  <2>7. row'[worker.item] \notin Inflight
    <3>1. CASE row[worker.item] \in Inflight
      <4> DEFINE from == {row[worker.item]}
      <4>1. row[worker.item] \in from /\ row[worker.item] \in Active
        BY <1>p, <3>1
      <4>2. row' = Transition(worker.item, from, to)
        BY <2>4
      <4> HIDE DEF from
      <4>3. row'[worker.item] = to
        BY <2>1, <2>5, <4>1, <4>2, TransitionTakes
      <4>4. QED
        BY <2>5, <4>3
    <3>2. CASE row[worker.item] = "complete"
      <4>1. row'[worker.item] \in {row[worker.item], to}
        BY <2>1, <2>4, <2>5, TransitionIs
      <4>2. QED
        BY <2>5, <3>2, <4>1 DEF Inflight
    <3>3. QED
      BY <2>2, <3>1, <3>2
  <2>8. \A j \in Items : j # worker.item => row'[j] = row[j]
    BY <2>1, <2>4, <2>5, TransitionIs
  <2>9. \A j \in Items : row'[j] \in Inflight => active' = j
    BY <1>i, <1>n, <2>1, <2>7, <2>8
  <2>10. QED
    BY <1>t, <1>s, <1>n, <2>1, <2>6, <2>7, <2>9
<1>10. CASE Unlock
  <2>1. /\ worker.pc = "finally" /\ worker'.pc = "clear" /\ worker'.item = worker.item
        /\ worker'.target = worker.target /\ UNCHANGED <<row, active>>
    BY <1>10, GotoIs DEF Unlock, Places
  <2>2. TableSound'
    BY <1>0, <1>s, <2>1 DEF TableSound
  <2>3. QED
    BY <1>t, <1>s, <1>i, <1>n, <2>1, <2>2
<1>11. CASE Clear
  <2>1. /\ worker.pc = "clear" /\ worker'.pc = (IF worker.target = "raised" THEN "dead" ELSE "top")
        /\ worker'.item = worker.item /\ row' = row /\ active = worker.item
    BY <1>11, GotoIs DEF Clear, Places, WorkerSound
  <2>2. \A i \in Items : row'[i] \in Inflight => Dead(i)'
    BY <1>i, <2>1 DEF Dead
  <2>3. TableSound'
    BY <1>0, <1>s, <2>1 DEF TableSound
  <2>4. QED
    BY <1>t, <1>s, <2>1, <2>2, <2>3
<1>12. CASE Raise
  <2>1. /\ worker.pc \in {"stopped", "failed"} /\ worker'.pc = "finally"
        /\ worker'.target = "raised" /\ UNCHANGED <<row, active>>
    BY <1>0, <1>12 DEF Raise, Workers
  <2>2. TableSound'
    BY <1>0, <1>s, <2>1 DEF TableSound
  <2>3. QED
    BY <1>t, <1>s, <1>i, <1>n, <2>1, <2>2
<1>13. QED
  BY <1>1, <1>2, <1>3, <1>4, <1>5, <1>6, <1>7, <1>8, <1>9, <1>10, <1>11, <1>12 DEF Worker

(* What a request does to the queue leaves the run alone.                  *)
LEMMA RequestRows ==
    ASSUME IInv, TableSound', UNCHANGED <<worker, active, manager>>,
           \A i \in Items : /\ row[i] \in Inflight \cup {"complete"} => row'[i] = row[i]
                            /\ row'[i] \in Inflight => row[i] \in Inflight
    PROVE  RowsSound'
<1> USE DEF IInv
<1>1. worker.item \in Items \cup {NoItem}
  BY DEF Types, Workers
<1>2. worker.pc \in InRun \cup Ending => worker.item \in Items
  BY <1>1 DEF WorkerSound
<1>3. QED
  BY <1>2 DEF RowsSound, TableSound, InRun, Ending, Dead

LEMMA ControlRows ==
    ASSUME IInv, Control \/ DoStop \/ DoDiscard
    PROVE  RowsSound'
<1> USE DEF IInv
<1>0. row \in [Items -> Rows] /\ TableSound /\ game \in [Items -> Games \cup {NoGame}]
      /\ born \in Nat
  BY DEF Types, Rows, RowsSound, TableSound
<1>p. /\ "queued" \in Active /\ "queued" \notin Inflight \cup {"complete"}
      /\ "cancelled" \notin Active \cup {"complete"} /\ "none" \notin Active /\ "cancelled" # "none"
      /\ Inflight \subseteq Active /\ "failed" \notin Active /\ "cancelled" # "queued"
      /\ {"queued", "cancelled", "failed", "none"} \subseteq Rows
      /\ (Held \cup {"cancelled"}) \cap (Inflight \cup {"complete"}) = {}
  BY DEF Active, Inflight, Held, Rows, Settled
<1>1. ASSUME NEW g \in Games, Enqueue(g) PROVE RowsSound'
  <2>1. born + 1 \in Items /\ born' = born + 1 /\ row[born + 1] = "none"
    BY <1>0, <1>1 DEF Enqueue, Types, Items, TableSound
  <2>2. /\ row' = [row EXCEPT ![born + 1] = "queued"]
        /\ game' = [game EXCEPT ![born + 1] = g]
        /\ \A i \in Items : ~(game[i] = g /\ row[i] \in Active)
        /\ UNCHANGED <<worker, active, manager>>
    BY <1>1 DEF Enqueue
  <2>3. \A i \in Items : /\ row[i] \in Inflight \cup {"complete"} => row'[i] = row[i]
                         /\ row'[i] \in Inflight => row[i] \in Inflight
    BY <1>0, <1>p, <2>1, <2>2 DEF Inflight
  <2>4. \A i \in Items : i > born' => row'[i] = "none"
    BY <1>0, <2>1, <2>2 DEF TableSound, Items
  <2>5. ASSUME NEW i \in Items, NEW j \in Items, i # j, game'[i] = game'[j], game'[i] # NoGame,
               row'[i] \in Active, row'[j] \in Active
        PROVE  FALSE
    <3>1. CASE i = born + 1
      BY <1>0, <2>1, <2>2, <2>5, <3>1
    <3>2. CASE j = born + 1
      BY <1>0, <2>1, <2>2, <2>5, <3>2
    <3>3. CASE i # born + 1 /\ j # born + 1
      BY <1>0, <2>1, <2>2, <2>5, <3>3 DEF TableSound
    <3>4. QED
      BY <3>1, <3>2, <3>3
  <2>6. TableSound'
    BY <2>4, <2>5 DEF TableSound
  <2>7. QED
    BY <2>2, <2>3, <2>6, RequestRows
<1>2. ASSUME NEW i \in Items, NEW from, NEW to \in {"queued", "cancelled"},
             from \cap (Inflight \cup {"complete", "none"}) = {},
             Edit(Transition(i, from, to))
      PROVE  RowsSound'
  <2>1. /\ row' = Transition(i, from, to)
        /\ UNCHANGED <<worker, active, manager, game, born>>
    BY <1>2 DEF Edit
  <2>2. TableSound'
    BY <1>0, <1>2, <1>p, <2>1, TransitionTable
  <2>3. \A j \in Items : j # i => row'[j] = row[j]
    BY <1>2, <1>p, <2>1, TransitionIs
  <2>4. row'[i] \in {row[i], to} /\ (row[i] \notin from => row'[i] = row[i])
    BY <1>2, <1>p, <2>1, TransitionIs
  <2>5. to \notin Inflight
    BY DEF Inflight
  <2>6. QED
    BY <1>2, <2>1, <2>2, <2>3, <2>4, <2>5, RequestRows
<1>3. ASSUME NEW i \in Items, CancelQueued(i) \/ Resume(i) \/ Retry(i) PROVE RowsSound'
  <2>1. {"queued"} \cap (Inflight \cup {"complete", "none"}) = {}
        /\ {"failed"} \cap (Inflight \cup {"complete", "none"}) = {}
        /\ (Held \cup {"cancelled"}) \cap (Inflight \cup {"complete", "none"}) = {}
    BY DEF Inflight, Held
  <2>2. CASE CancelQueued(i)
    BY <1>2, <2>1, <2>2 DEF CancelQueued
  <2>3. CASE Resume(i)
    BY <1>2, <2>1, <2>3 DEF Resume
  <2>4. CASE Retry(i)
    BY <1>2, <2>1, <2>4 DEF Retry
  <2>5. QED
    BY <1>3, <2>2, <2>3, <2>4
<1>4. ASSUME UNCHANGED <<worker, active, manager, game, born>>,
             \A i \in Items : \/ row'[i] = row[i]
                              \/ row[i] = "queued" /\ row'[i] \in {"none", "cancelled"}
      PROVE  RowsSound'
  <2>1. TableSound'
    BY <1>0, <1>4, <1>p, LessActiveTable
  <2>2. \A i \in Items : /\ row[i] \in Inflight \cup {"complete"} => row'[i] = row[i]
                         /\ row'[i] \in Inflight => row[i] \in Inflight
    BY <1>4, <1>p DEF Inflight
  <2>3. QED
    BY <1>4, <2>1, <2>2, RequestRows
<1>5. ASSUME NEW i \in Items, RemoveQueued(i) PROVE RowsSound'
  <2>1. row' = [row EXCEPT ![i] = "none"] /\ row[i] = "queued"
        /\ UNCHANGED <<worker, active, manager, game, born>>
    BY <1>5 DEF RemoveQueued, Edit
  <2>2. \A j \in Items : \/ row'[j] = row[j]
                         \/ row[j] = "queued" /\ row'[j] \in {"none", "cancelled"}
    BY <1>0, <2>1
  <2>3. QED
    BY <1>4, <2>1, <2>2
<1>6. CASE CancelAll
  BY <1>4, <1>6 DEF CancelAll
<1>7. CASE RetryAllFailed
  <2> DEFINE ready(g) == g # NoGame /\ ~\E j \in Items : game[j] = g /\ row[j] \in Active
             failed == {i \in Items : row[i] = "failed" /\ ready(game[i])}
  <2>1. PICK S \in SUBSET failed :
          /\ \A i \in failed : Cardinality({j \in S : game[j] = game[i]}) = 1
          /\ Edit([i \in Items |-> IF i \in S THEN "queued" ELSE row[i]])
    BY <1>7 DEF RetryAllFailed
  <2>2. /\ row' = [i \in Items |-> IF i \in S THEN "queued" ELSE row[i]]
        /\ UNCHANGED <<worker, active, manager, game, born>>
    BY <2>1 DEF Edit
  <2>3. \A i \in S : i \in Items /\ row[i] = "failed" /\ ready(game[i])
    OBVIOUS
  <2>4. \A i \in Items : /\ row[i] \in Inflight \cup {"complete"} => row'[i] = row[i]
                         /\ row'[i] \in Inflight => row[i] \in Inflight
    BY <1>p, <2>2, <2>3 DEF Inflight
  <2>5. \A i, j \in S : game[i] = game[j] => i = j
    <3>1. SUFFICES ASSUME NEW i \in S, NEW j \in S, game[i] = game[j] PROVE i = j
      OBVIOUS
    <3> DEFINE T == {k \in S : game[k] = game[i]}
    <3>2. IsFiniteSet(T)
      <4>1. IsFiniteSet(Items)
        BY FS_Interval DEF Items
      <4>2. T \subseteq Items
        OBVIOUS
      <4>3. QED
        BY <4>1, <4>2, FS_Subset
    <3>3. Cardinality(T) = 1
      BY <2>1
    <3>4. PICK x : T = {x}
      BY <3>2, <3>3, FS_Singleton
    <3>5. i \in T /\ j \in T
      BY <3>1
    <3>6. QED
      BY <3>4, <3>5
  <2>6. \A i \in Items : i > born' => row'[i] = "none"
    BY <1>0, <2>2, <2>3 DEF TableSound
  <2>7. ASSUME NEW i \in Items, NEW j \in Items, i # j, game'[i] = game'[j], game'[i] # NoGame,
               row'[i] \in Active, row'[j] \in Active
        PROVE  FALSE
    <3>1. game[i] = game[j] /\ game[i] # NoGame
      BY <2>2, <2>7
    <3>2. CASE i \notin S /\ j \notin S
      BY <1>0, <2>2, <2>7, <3>1, <3>2 DEF TableSound
    <3>3. CASE i \in S /\ j \in S
      BY <2>5, <2>7, <3>1, <3>3
    <3>4. CASE i \in S /\ j \notin S
      BY <2>2, <2>3, <2>7, <3>1, <3>4
    <3>5. CASE i \notin S /\ j \in S
      BY <2>2, <2>3, <2>7, <3>1, <3>5
    <3>6. QED
      BY <3>2, <3>3, <3>4, <3>5
  <2>8. TableSound'
    BY <2>6, <2>7 DEF TableSound
  <2>9. QED
    BY <2>2, <2>4, <2>8, RequestRows
<1>8. CASE DoStop \/ DoDiscard
  BY <1>4, <1>8 DEF DoStop, DoDiscard
<1>9. ASSUME NEW g \in Games, AskDiscard(g) PROVE RowsSound'
  BY <1>4, <1>9 DEF AskDiscard
<1>10. ASSUME NEW i \in Items, NEW to \in {"paused", "cancelled"}, AskStop(i, to)
       PROVE  RowsSound'
  BY <1>4, <1>10 DEF AskStop
<1>11. QED
  BY <1>1, <1>3, <1>5, <1>6, <1>7, <1>8, <1>9, <1>10 DEF Control

LEMMA OtherRows ==
    ASSUME IInv, Manager \/ Outside \/ Switch \/ SwitchKilled
                 \/ \E m \in {"cache", "offline"} : SwitchTo(m)
    PROVE  RowsSound'
<1> USE DEF IInv
<1>0. row \in [Items -> Rows] /\ TableSound
  BY DEF Types, Rows, RowsSound, TableSound
<1>1. CASE Start
  <2>1. /\ row' = [i \in Items |-> IF row[i] \in Inflight THEN "interrupted" ELSE row[i]]
        /\ UNCHANGED <<game, born, worker>> /\ worker.pc = "off"
    BY <1>1 DEF Start, WorkerSound
  <2>2. /\ "interrupted" \in Active /\ "interrupted" \notin Inflight
        /\ Inflight \subseteq Active /\ "none" \notin Inflight
    BY DEF Active, Held, Inflight
  <2>3. TableSound'
    BY <1>0, <2>1, <2>2, LessActiveTable
  <2>4. \A i \in Items : row'[i] \notin Inflight
    BY <2>1, <2>2
  <2>5. QED
    BY <2>1, <2>3, <2>4 DEF RowsSound, TableSound, Ending, Dead
<1>2. CASE Publish \/ Term
  BY <1>2 DEF Publish, Term, RowsSound, Dead
<1>3. CASE Serve
  <2>1. /\ UNCHANGED <<row, game, born, active>> /\ manager = "published" /\ manager' = "up"
        /\ worker'.pc = "top" /\ worker.pc = "off"
    BY <1>3, GotoIs DEF Serve, Places, Resting, WorkerSound
  <2>2. QED
    BY <2>1 DEF RowsSound, Ending, Dead
<1>4. CASE Exit \/ Crash
  <2>1. UNCHANGED <<row, game, born>> /\ manager' = "down" /\ worker'.pc = "off"
    BY <1>4 DEF Exit, Crash, Gone, NoWorker
  <2>2. QED
    BY <2>1 DEF RowsSound, Ending, Dead
<1>5. CASE Switch \/ SwitchKilled \/ \E m \in {"cache", "offline"} : SwitchTo(m)
  <2>1. UNCHANGED <<row, game, born, active, worker, manager>>
    BY <1>5 DEF Switch, Coordinate, Answer, Present, Commit, Refresh, Restore, SwitchKilled,
       SwitchTo
  <2>2. QED
    BY <2>1 DEF RowsSound, Dead
<1>6. CASE Outside
  <2>1. /\ UNCHANGED <<row, born, active, worker, manager>>
        /\ \A i \in Items : game'[i] \in {game[i], NoGame}
    BY <1>6 DEF Outside, ForeignLeaves, ForeignTakes, CatalogDrops
  <2>2. TableSound'
    BY <1>0, <2>1, LessActiveTable
  <2>3. QED
    BY <2>1, <2>2 DEF RowsSound, TableSound, Dead
<1>7. QED
  BY <1>1, <1>2, <1>3, <1>4, <1>5, <1>6 DEF Manager

-----------------------------------------------------------------------------
(* The stops that were asked for.                                          *)

LEMMA StopsKept ==
    ASSUME IInv, active # NoItem, NEW to \in Stops, StopActive(to),
           UNCHANGED <<active, worker>>
    PROVE  StopSound'
<1>1. token' = TRUE /\ stop'[active] \in asked' /\ asked \subseteq asked'
  BY DEF IInv, StopActive, Types
<1>2. QED
  BY <1>1 DEF IInv, StopSound

LEMMA StopStep ==
    ASSUME IInv, \/ Worker \/ Control \/ DoStop \/ DoDiscard \/ Manager \/ Outside
                 \/ Switch \/ SwitchKilled \/ \E m \in {"cache", "offline"} : SwitchTo(m)
    PROVE  StopSound'
<1> USE DEF IInv, Resting, InRun, Ending
<1>k. ASSUME UNCHANGED <<worker, active, stop, token, asked>> PROVE StopSound'
  BY <1>k DEF StopSound
<1>0. worker \in Workers /\ token \in BOOLEAN /\ stop \in [Items -> {"none"} \cup Stops]
  BY DEF Types
<1>1. CASE Pick \/ Check \/ Claim \/ Reject \/ Raise \/ Unlock \/ Clear
  <2>1. worker'.pc \in {"top", "check", "claim", "leased", "reject", "finally", "clear", "dead"}
    <3>1. Pick => worker'.pc \in {"top", "check"}
      BY DEF Pick, At
    <3>2. (Check \/ Claim \/ Reject \/ Unlock \/ Clear) =>
            worker'.pc \in {"top", "claim", "leased", "reject", "clear", "dead"}
      BY GotoIs DEF Check, Claim, Reject, Unlock, Clear, Places
    <3>3. Raise => worker'.pc = "finally"
      BY <1>0 DEF Raise, Workers
    <3>4. QED
      BY <1>1, <3>1, <3>2, <3>3
  <2>2. QED
    BY <2>1 DEF StopSound
<1>2. CASE Admit
  <2>1. \/ worker' = [worker EXCEPT !.pc = "top"]
        \/ worker' = [worker EXCEPT !.pc = "begin"] /\ token' = FALSE
    BY <1>2 DEF Admit, Goto
  <2>t. worker'.pc = "top" \/ (worker'.pc = "begin" /\ token' = FALSE)
    BY <1>0, <2>1 DEF Workers
  <2>3. QED
    BY <2>t DEF StopSound
<1>3. CASE Begin \/ Transferred \/ Final \/ Settle
  <2>1. /\ worker.pc \in {"begin", "run", "final", "settle", "failed", "finished"}
        /\ UNCHANGED <<active, stop, token, asked>>
        /\ worker'.pc \in {"stopped", "finished", "failed", "run", "final", "finally"}
        /\ worker'.pc \in {"stopped", "run", "final"} => worker.pc \in {"begin", "run"}
        /\ worker'.pc = "stopped" => token
    <3>1. CASE Begin /\ worker' = [worker EXCEPT !.pc = "run", !.target = "none"]
      BY <1>0, <3>1 DEF Begin, At, Workers
    <3>2. QED
      BY <1>3, <3>1, GotoIs DEF Begin, Transferred, Final, Settle, SettleAs, At, Places
  <2>2. QED
    BY <2>1 DEF StopSound
<1>4. CASE PopStop
  <2>1. worker.pc = "stopped" /\ token /\ active = worker.item /\ stop[active] \in asked
    BY <1>4 DEF PopStop, At, StopSound, WorkerSound
  <2>2. stop[active] # "none"
    BY <2>1 DEF Types, Stops
  <2>3. worker'.pc = "settle" /\ worker'.target = stop[active] /\ asked' = asked
    BY <1>0, <1>4, <2>1, <2>2 DEF PopStop, Workers
  <2>4. QED
    BY <2>1, <2>3 DEF StopSound
<1>5. CASE Progress
  BY <1>5, <1>k DEF Progress
<1>6. CASE Control \/ DoDiscard \/ Outside \/ Start \/ Publish
  BY <1>6, <1>k DEF Control, DoDiscard, Outside, Start, Publish, Enqueue, AskDiscard, AskStop,
     CancelAll, CancelQueued, Resume, Retry, RemoveQueued, RetryAllFailed, Edit, ForeignLeaves,
     ForeignTakes, CatalogDrops
<1>7. CASE DoStop
  <2>1. control.to \in Stops
    BY <1>7 DEF DoStop, Types, Controls, Stops
  <2>2. UNCHANGED <<active, worker>>
    BY <1>7 DEF DoStop
  <2>3. QED
    BY <1>7, <1>k, <2>1, <2>2, StopsKept DEF DoStop
<1>8. CASE Term
  <2>1. "interrupted" \in Stops /\ UNCHANGED <<active, worker>>
    BY <1>8 DEF Term, Stops
  <2>2. QED
    BY <1>8, <1>k, <2>1, StopsKept DEF Term
<1>9. CASE Switch \/ SwitchKilled \/ \E m \in {"cache", "offline"} : SwitchTo(m)
  <2>1. /\ UNCHANGED <<active, worker>> /\ "paused" \in Stops
        /\ \/ UNCHANGED <<stop, token, asked>>
           \/ active # NoItem /\ StopActive("paused")
    BY <1>9 DEF Switch, Coordinate, Answer, Present, Commit, Refresh, Restore, SwitchKilled,
       SwitchTo, Stops
  <2>2. QED
    BY <1>k, <2>1, StopsKept
<1>10. CASE Serve
  <2>1. worker'.pc = "top"
    BY <1>10, GotoIs DEF Serve, Places
  <2>2. QED
    BY <2>1 DEF StopSound
<1>11. CASE Exit \/ Crash
  BY <1>11 DEF Exit, Crash, Gone, NoWorker, StopSound
<1>12. QED
  BY <1>1, <1>2, <1>3, <1>4, <1>5, <1>6, <1>7, <1>8, <1>9, <1>10, <1>11 DEF Worker, Manager

-----------------------------------------------------------------------------
(* The switch and the mode.                                                *)

LEMMA SwitchStep ==
    ASSUME IInv, \/ Worker \/ Control \/ DoStop \/ DoDiscard \/ Manager \/ Outside
                 \/ Switch \/ SwitchKilled \/ \E m \in {"cache", "offline"} : SwitchTo(m)
    PROVE  SwitchSound'
<1> USE DEF IInv
<1>0. switch \in Switches /\ mode \in {"cache", "offline"} /\ stranded \in BOOLEAN
  BY DEF Types
<1>k. ASSUME UNCHANGED modes PROVE SwitchSound'
  BY <1>k DEF SwitchSound, Coordinating, Goal
<1>n. ASSUME switch' = NoSwitch PROVE SwitchSound'
  BY <1>n DEF SwitchSound, NoSwitch
<1>1. CASE Worker \/ Control \/ DoStop \/ DoDiscard \/ Outside \/ Start \/ Publish \/ Serve \/ Term
  <2>1. UNCHANGED modes
    BY <1>1 DEF Worker, Pick, Check, Claim, Reject, Admit, Begin, Progress, Transferred, Final,
       PopStop, Raise, Settle, Unlock, Clear, Control, DoStop, DoDiscard, Outside, Start, Publish,
       Serve, Term, Enqueue, AskDiscard, AskStop, CancelAll, CancelQueued, Resume, Retry,
       RemoveQueued, RetryAllFailed, Edit, ForeignLeaves, ForeignTakes, CatalogDrops
  <2>2. QED
    BY <1>k, <2>1
<1>2. CASE Exit \/ Crash
  <2>1. /\ UNCHANGED <<mode, stranded>>
        /\ switch' = IF switch.waits = "yes" THEN [switch EXCEPT !.waits = "lost"] ELSE switch
    BY <1>2 DEF Exit, Crash, Gone
  <2>2. CASE switch.waits = "yes"
    <3>1. /\ switch'.pc = switch.pc /\ switch'.to = switch.to /\ switch'.from = switch.from
          /\ switch'.committed = switch.committed /\ switch'.told = switch.told
          /\ switch.pc # "idle"
      BY <1>0, <2>1, <2>2 DEF Switches, SwitchSound, Coordinating
    <3>2. QED
      BY <2>1, <2>2, <3>1 DEF SwitchSound, Coordinating, Goal
  <2>3. CASE switch.waits # "yes"
    BY <1>k, <2>1, <2>3
  <2>4. QED
    BY <2>2, <2>3
<1>3. ASSUME NEW m \in {"cache", "offline"}, SwitchTo(m) PROVE SwitchSound'
  <2>1. /\ switch'.to = m /\ switch'.from = mode /\ switch'.waits = "no" /\ ~switch'.committed
        /\ ~switch'.told /\ mode' = mode
        /\ switch'.pc = IF m = mode THEN "again" ELSE IF m = "offline" THEN "quiesce" ELSE "present"
    BY <1>3 DEF SwitchTo, NoSwitch
  <2>2. QED
    BY <1>0, <1>3, <2>1 DEF SwitchSound
<1>4. CASE SwitchKilled
  BY <1>4, <1>n DEF SwitchKilled
<1>c. ASSUME Coordinated, Coordinating, mode' = mode PROVE SwitchSound'
  <2>1. CASE switch.pc = "quiesce"
    <3>1. /\ switch'.pc = "present" /\ switch'.waits = "no" /\ switch'.told
          /\ switch'.to = switch.to /\ switch'.from = switch.from
          /\ switch'.committed = switch.committed
      BY <1>0, <1>c, <2>1 DEF Coordinated, Switches
    <3>2. QED
      BY <1>c, <2>1, <3>1 DEF SwitchSound
  <2>2. CASE switch.pc = "coord"
    <3>1. /\ switch'.pc = "refresh" /\ switch'.waits = "no"
          /\ switch'.to = switch.to /\ switch'.from = switch.from
          /\ switch'.committed = switch.committed
      BY <1>0, <1>c, <2>2 DEF Coordinated, Switches
    <3>2. QED
      BY <1>c, <2>2, <3>1 DEF SwitchSound
  <2>3. CASE switch.pc \notin {"quiesce", "coord"}
    BY <1>c, <1>n, <2>3 DEF Coordinated
  <2>4. QED
    BY <2>1, <2>2, <2>3
<1>f. ASSUME Fail, mode' = mode, switch.pc # "idle" PROVE SwitchSound'
  <2>1. CASE switch.pc \notin {"again", "undo"} /\ switch.committed
    <3>1. /\ switch'.pc = "restore" /\ switch'.waits = "no"
          /\ switch'.to = switch.to /\ switch'.from = switch.from
          /\ switch'.committed = switch.committed
      BY <1>0, <1>f, <2>1 DEF Fail, Switches
    <3>2. switch.pc \in {"coord", "refresh", "restore"}
      BY <1>0, <1>f, <2>1 DEF SwitchSound, Switches
    <3>3. QED
      BY <1>f, <3>1, <3>2 DEF SwitchSound
  <2>2. CASE switch.pc \notin {"again", "undo"} /\ ~switch.committed /\ switch.told
    <3>1. /\ switch'.pc = "undo" /\ switch'.waits = "no" /\ switch'.from = switch.from
      BY <1>0, <1>f, <2>2 DEF Fail, Switches
    <3>2. mode = switch.from
      BY <1>0, <1>f, <2>2 DEF SwitchSound, Switches
    <3>3. QED
      BY <1>f, <3>1, <3>2 DEF SwitchSound
  <2>3. CASE ~(\/ switch.pc \notin {"again", "undo"} /\ switch.committed
               \/ switch.pc \notin {"again", "undo"} /\ ~switch.committed /\ switch.told)
    <3>1. switch' = NoSwitch
      BY <1>0, <1>f, <2>3 DEF Fail
    <3>2. QED
      BY <1>n, <3>1
  <2>4. QED
    BY <2>1, <2>2, <2>3
<1>5. CASE Coordinate
  <2>1. mode' = mode /\ Coordinating /\ switch.pc # "idle"
    BY <1>5 DEF Coordinate, Coordinating
  <2>2. CASE Coordinated \/ Fail
    BY <1>c, <1>f, <2>1, <2>2
  <2>3. CASE ~(Coordinated \/ Fail)
    <3>t. /\ manager = "up" /\ Goal = "offline"
          /\ switch' = [switch EXCEPT !.waits = "yes"]
          /\ UNCHANGED <<claiming, active, stranded, moves>>
      BY <1>5, <2>3, Zenon DEF Coordinate
    <3>1. switch' = [switch EXCEPT !.waits = "yes"] /\ stranded' = stranded /\ Goal = "offline"
      BY <3>t
    <3>2. /\ switch'.pc = switch.pc /\ switch'.to = switch.to /\ switch'.from = switch.from
          /\ switch'.committed = switch.committed /\ switch'.told = switch.told
      BY <1>0, <3>1 DEF Switches
    <3>3. QED
      BY <2>1, <3>1, <3>2 DEF SwitchSound, Coordinating, Goal
  <2>4. QED
    BY <2>2, <2>3
<1>6. CASE Answer
  BY <1>c, <1>f, <1>6 DEF Answer, Coordinating
<1>7. CASE Present
  <2>1. mode' = mode /\ switch.pc = "present"
    BY <1>7 DEF Present
  <2>2. CASE Fail
    BY <1>f, <2>1, <2>2
  <2>3. CASE switch' = [switch EXCEPT !.pc = "commit"]
    <3>1. /\ switch'.pc = "commit" /\ switch'.to = switch.to /\ switch'.from = switch.from
          /\ switch'.committed = switch.committed /\ switch'.told = switch.told
          /\ switch'.waits = switch.waits
      BY <1>0, <2>3 DEF Switches
    <3>2. QED
      BY <2>1, <3>1 DEF SwitchSound, Coordinating
  <2>4. QED
    BY <1>7, <2>2, <2>3 DEF Present
<1>8. CASE Commit
  <2>1. switch.pc = "commit" /\ switch.waits = "no"
    BY <1>8 DEF Commit, SwitchSound, Coordinating
  <2>2. CASE Fail /\ mode' = mode
    BY <1>f, <2>1, <2>2
  <2>3. CASE ~(Fail /\ mode' = mode)
    <3>1. /\ switch'.pc = "coord" /\ switch'.to = switch.to /\ switch'.from = switch.from
          /\ switch'.committed /\ switch'.waits = "no" /\ mode' = switch.to
      BY <1>0, <1>8, <2>1, <2>3 DEF Commit, Switches
    <3>2. switch.from \in {"cache", "offline"} \ {switch.to}
      BY <1>0, <2>1 DEF SwitchSound
    <3>3. QED
      BY <3>1, <3>2 DEF SwitchSound
  <2>4. QED
    BY <2>2, <2>3
<1>9. CASE Refresh
  <2>1. switch.pc = "refresh" /\ mode' = mode
    BY <1>9 DEF Refresh
  <2>2. QED
    BY <1>9, <1>f, <1>n, <2>1 DEF Refresh
<1>10. CASE Restore
  <2>1. switch.pc = "restore" /\ switch.waits = "no" /\ (mode' = switch.from \/ stranded')
    BY <1>10 DEF Restore, SwitchSound, Coordinating
  <2>2. /\ switch'.pc = "undo" /\ switch'.from = switch.from /\ switch'.waits = switch.waits
    BY <1>0, <1>10 DEF Restore, Switches
  <2>3. QED
    BY <2>1, <2>2 DEF SwitchSound
<1>11. QED
  BY <1>1, <1>2, <1>3, <1>4, <1>5, <1>6, <1>7, <1>8, <1>9, <1>10 DEF Switch, Manager

\* The two facts of ModeSound, where the switch is.
LEMMA ModeStep ==
    ASSUME IInv, \/ Worker \/ Control \/ DoStop \/ DoDiscard \/ Manager \/ Outside
                 \/ Switch \/ SwitchKilled \/ \E m \in {"cache", "offline"} : SwitchTo(m)
    PROVE  ModeSound'
<1> USE DEF IInv
<1>0. switch \in Switches /\ mode \in {"cache", "offline"} /\ stranded \in BOOLEAN
      /\ worker \in Workers /\ suspended \in BOOLEAN /\ NoSwitch.pc = "idle"
  BY DEF Types, NoSwitch
<1>k. ASSUME mode' = mode, stranded' = stranded, switch'.pc = switch.pc,
             worker'.pc \in Busy => worker.pc \in Busy \/ mode # "offline",
             suspended' => suspended \/ mode = "offline"
      PROVE  ModeSound'
  BY <1>k DEF ModeSound
<1>q. ASSUME worker'.pc \notin Busy, ~suspended' PROVE ModeSound'
  BY <1>q DEF ModeSound
<1>d. manager \notin Running => worker.pc \notin Busy /\ ~suspended
  BY DEF WorkerSound, Running, Types, Busy
<1>1. CASE Worker
  <2>1. worker'.pc \in Busy => worker.pc \in Busy \/ mode # "offline"
    <3>1. CASE Check \/ Admit
      <4>1. \/ worker' = [worker EXCEPT !.pc = "top"]
            \/ ~Blocked /\ worker' = [worker EXCEPT !.pc = "claim"]
            \/ ~Blocked /\ worker' = [worker EXCEPT !.pc = "begin"]
        BY <3>1 DEF Check, Admit, Goto
      <4>2. worker'.pc = "top" \/ mode # "offline"
        BY <1>0, <4>1 DEF Workers, Blocked
      <4>3. QED
        BY <4>2 DEF Busy
    <3>2. CASE Begin
      BY <3>2 DEF Begin, At, Busy
    <3>3. CASE Progress \/ Transferred
      BY <3>3 DEF Progress, Transferred, At, Busy
    <3>4. CASE Pick
      BY <3>4 DEF Pick, At, Busy
    <3>5. CASE PopStop \/ Raise
      <4>1. \/ worker' = [worker EXCEPT !.pc = "finally", !.target = "raised"]
            \/ \E t : worker' = [worker EXCEPT !.pc = "settle", !.target = t]
        BY <3>5 DEF PopStop, Raise
      <4>2. worker'.pc \in {"settle", "finally"}
        BY <1>0, <4>1 DEF Workers
      <4>3. QED
        BY <4>2 DEF Busy
    <3>6. CASE Claim \/ Reject \/ Final \/ Settle \/ Unlock \/ Clear
      <4>1. PICK p \in {"top", "leased", "reject", "finished", "failed", "finally", "clear",
                      "dead"} :
              worker' = [worker EXCEPT !.pc = p]
        BY <3>6 DEF Claim, Reject, Final, Settle, SettleAs, Unlock, Clear, Goto
      <4>2. worker'.pc = p
        BY <1>0, <4>1 DEF Workers
      <4>3. QED
        BY <4>2 DEF Busy
    <3>7. QED
      BY <1>1, <3>1, <3>2, <3>3, <3>4, <3>5, <3>6 DEF Worker
  <2>2. /\ UNCHANGED modes
        /\ suspended' = suspended \/ suspended' = Blocked
    <3>1. CASE Raise
      <4>1. worker.pc = "stopped" \/ (worker.pc = "failed" /\ Blocked)
        BY <3>1 DEF Raise, At
      <4>2. suspended' = (suspended \/ worker.pc = "failed") /\ UNCHANGED modes
        BY <3>1 DEF Raise
      <4>3. suspended \in BOOLEAN
        BY DEF Types
      <4>4. worker.pc # "failed" => suspended' = suspended
        BY <4>2, <4>3
      <4>5. worker.pc = "failed" => suspended' = TRUE /\ Blocked = TRUE
        BY <4>1, <4>2, <4>3 DEF Blocked
      <4>6. QED
        BY <4>2, <4>4, <4>5
    <3>2. QED
      BY <1>1, <3>1 DEF Worker, Pick, Check, Claim, Reject, Admit, Begin, Progress, Transferred,
         Final, PopStop, Settle, Unlock, Clear, Latch
  <2>3. QED
    BY <1>k, <2>1, <2>2 DEF Blocked
<1>2. CASE Control \/ DoStop \/ DoDiscard \/ Outside \/ Start \/ Publish \/ Term
  <2>1. UNCHANGED modes /\ UNCHANGED <<worker, suspended>>
    BY <1>2 DEF Control, DoStop, DoDiscard, Outside, Start, Publish, Term, Enqueue, AskDiscard,
       AskStop, CancelAll, CancelQueued, Resume, Retry, RemoveQueued, RetryAllFailed, Edit,
       ForeignLeaves, ForeignTakes, CatalogDrops
  <2>2. QED
    BY <1>k, <2>1
<1>3. CASE Serve
  <2>1. worker' = [worker EXCEPT !.pc = "top"] /\ UNCHANGED suspended /\ UNCHANGED modes
    BY <1>3 DEF Serve, Goto
  <2>2. worker'.pc \notin Busy
    BY <1>0, <2>1 DEF Workers, Busy
  <2>3. QED
    BY <1>k, <2>1, <2>2
<1>4. CASE Exit \/ Crash
  <2>1. worker'.pc \notin Busy /\ ~suspended'
    BY <1>4 DEF Exit, Crash, Gone, NoWorker, Busy
  <2>2. QED
    BY <1>q, <2>1
<1>5. ASSUME NEW m \in {"cache", "offline"}, SwitchTo(m) PROVE ModeSound'
  <2>1. /\ switch.pc = "idle" /\ switch'.pc \in {"again", "quiesce", "present"}
        /\ UNCHANGED <<worker, suspended, mode, stranded>>
    BY <1>0, <1>5 DEF SwitchTo, NoSwitch
  <2>2. QED
    BY <2>1 DEF ModeSound
<1>6. CASE SwitchKilled
  BY <1>0, <1>6 DEF SwitchKilled, ModeSound
<1>c. ASSUME Coordinated, Coordinating
      PROVE  /\ switch.pc = "quiesce" => switch'.pc = "present" /\ stranded' = stranded
             /\ switch.pc = "coord" => switch'.pc = "refresh" /\ stranded' = stranded
             /\ switch.pc = "again" => switch'.pc = "idle" /\ ~stranded'
             /\ switch.pc = "undo" => switch'.pc = "idle" /\ stranded' = stranded
  BY <1>0, <1>c DEF Coordinated, Coordinating, Switches
<1>f. ASSUME Fail, UNCHANGED <<mode, worker, suspended>>, switch.pc # "idle" PROVE ModeSound'
  <2>1. stranded' = (stranded \/ switch.pc \in {"again", "quiesce", "undo"})
    BY <1>f DEF Fail
  <2>2. CASE switch.pc \in {"again", "quiesce", "undo"}
    <3>1. switch'.pc = "idle"
      BY <1>0, <1>f, <2>2 DEF Fail, SwitchSound
    <3>2. QED
      BY <2>1, <2>2, <3>1 DEF ModeSound
  <2>3. CASE switch.pc \in {"coord", "refresh", "restore"}
    <3>1. switch'.pc = "restore"
      BY <1>0, <1>f, <2>3 DEF Fail, SwitchSound, Switches
    <3>2. QED
      BY <3>1 DEF ModeSound
  <2>4. CASE switch.pc \in {"present", "commit"}
    <3>1. switch'.pc = "undo" \/ (switch'.pc = "idle" /\ ~switch.told)
      BY <1>0, <1>f, <2>4 DEF Fail, SwitchSound, Switches
    <3>2. ~switch.told => mode = "offline"
      BY <1>0, <2>4 DEF SwitchSound, Switches
    <3>3. stranded' = stranded
      BY <1>0, <2>1, <2>4
    <3>4. QED
      BY <1>f, <2>4, <3>1, <3>2, <3>3 DEF ModeSound
  <2>5. QED
    BY <1>0, <1>f, <2>2, <2>3, <2>4 DEF Switches
<1>7. CASE Coordinate
  <2>0. Coordinating /\ switch.pc # "idle" /\ UNCHANGED <<mode, worker>>
    BY <1>7 DEF Coordinate, Coordinating
  <2>1. CASE manager \notin Running
    <3>1. UNCHANGED suspended
      BY <1>7, <2>1 DEF Coordinate, Running
    <3>2. QED
      BY <1>d, <1>q, <2>0, <2>1, <3>1
  <2>2. CASE manager \in Running /\ Goal = "offline"
    <3>1. switch' = [switch EXCEPT !.waits = "yes"] /\ UNCHANGED stranded
      BY <1>7, <2>2 DEF Coordinate
    <3>2. switch'.pc = switch.pc
      BY <1>0, <3>1 DEF Switches
    <3>3. mode = "cache" => switch.pc \in {"quiesce", "undo"}
      BY <2>0, <2>2 DEF Coordinating, Goal, SwitchSound
    <3>4. QED
      BY <2>0, <3>1, <3>2, <3>3 DEF ModeSound
  <2>3. CASE manager \in Running /\ Goal # "offline"
    <3>1. ~suspended' /\ (Coordinated \/ Fail)
      BY <1>7, <2>3 DEF Coordinate
    <3>2. mode = "offline" => switch.pc = "undo" /\ stranded
      BY <1>0, <2>0, <2>3 DEF Coordinating, Goal, SwitchSound
    <3>3. CASE Coordinated
      <4>1. mode = "offline" => switch'.pc = "idle" /\ stranded'
        <5>1. switch.pc = "undo" => switch'.pc = "idle" /\ stranded' = stranded
          BY <1>c, <2>0, <3>3
        <5>2. QED
          BY <3>2, <5>1
      <4>2. QED
        BY <2>0, <3>1, <4>1 DEF ModeSound
    <3>4. CASE Fail
      <4>1. mode = "offline" => switch'.pc = "idle" /\ stranded'
        BY <1>0, <3>2, <3>4 DEF Fail
      <4>2. QED
        BY <2>0, <3>1, <4>1 DEF ModeSound
    <3>5. QED
      BY <3>1, <3>3, <3>4
  <2>4. QED
    BY <2>1, <2>2, <2>3
<1>8. CASE Answer
  <2>0. /\ Coordinating /\ switch.pc # "idle" /\ Goal = "offline"
        /\ UNCHANGED <<mode, worker, suspended>>
    BY <1>8 DEF Answer, Coordinating, SwitchSound
  <2>1. CASE Fail
    BY <1>f, <2>0, <2>1
  <2>2. CASE Coordinated /\ manager \notin Running
    BY <1>d, <1>q, <2>0, <2>2
  <2>3. CASE Coordinated /\ Quiet
    <3>1. worker.pc \notin Busy
      BY <2>3 DEF Quiet, WorkerSound, Busy, InRun, Ending
    <3>2. mode = "cache" => switch.pc = "quiesce" \/ (switch.pc = "undo" /\ stranded)
      BY <2>0 DEF Coordinating, Goal, SwitchSound
    <3>3. mode = "cache" => switch'.pc = "present" \/ (switch'.pc = "idle" /\ stranded')
      BY <1>c, <2>0, <2>3, <3>2
    <3>4. QED
      BY <2>0, <3>1, <3>3 DEF ModeSound
  <2>4. QED
    BY <1>8, <2>1, <2>2, <2>3 DEF Answer
<1>9. CASE Present \/ Commit
  <2>0. switch.pc \in {"present", "commit"} /\ UNCHANGED <<worker, suspended>>
    BY <1>9 DEF Present, Commit
  <2>1. CASE Fail /\ mode' = mode
    BY <1>f, <2>0, <2>1
  <2>2. CASE switch' = [switch EXCEPT !.pc = "commit"] /\ UNCHANGED <<mode, stranded>>
    <3>1. switch'.pc = "commit"
      BY <1>0, <2>2 DEF Switches
    <3>2. QED
      BY <2>0, <2>2, <3>1 DEF ModeSound
  <2>3. CASE switch' = [switch EXCEPT !.pc = "coord", !.committed = TRUE]
    <3>1. switch'.pc = "coord"
      BY <1>0, <2>3 DEF Switches
    <3>2. QED
      BY <3>1 DEF ModeSound
  <2>4. QED
    BY <1>9, <2>1, <2>2, <2>3 DEF Present, Commit
<1>10. CASE Refresh
  <2>0. switch.pc = "refresh" /\ UNCHANGED <<worker, suspended, mode>>
    BY <1>10 DEF Refresh
  <2>1. CASE Fail
    BY <1>f, <2>0, <2>1
  <2>2. QED
    BY <1>10, <2>0, <2>1 DEF Refresh, ModeSound
<1>11. CASE Restore
  <2>1. switch'.pc = "undo"
    BY <1>0, <1>11 DEF Restore, Switches
  <2>2. QED
    BY <2>1 DEF ModeSound
<1>12. QED
  BY <1>1, <1>2, <1>3, <1>4, <1>5, <1>6, <1>7, <1>8, <1>9, <1>10, <1>11 DEF Switch, Manager

-----------------------------------------------------------------------------
(* The invariant is inductive.                                             *)

LEMMA NextInv == IInv /\ [Next]_vars => IInv'
<1> SUFFICES ASSUME IInv, [Next]_vars PROVE IInv'
  OBVIOUS
<1>1. CASE UNCHANGED vars
  <2>1. Types'
    BY <1>1 DEF vars, IInv, Types
  <2>2. WorkerSound' /\ RowsSound' /\ StopSound'
    BY <1>1 DEF vars, IInv, WorkerSound, RowsSound, StopSound, Dead
  <2>3. SwitchSound' /\ ModeSound'
    BY <1>1 DEF vars, IInv, SwitchSound, ModeSound, Coordinating, Goal
  <2>4. QED
    BY <2>1, <2>2, <2>3 DEF IInv
<1>2. CASE Next
  <2>0. \/ Worker \/ Control \/ DoStop \/ DoDiscard \/ Manager \/ Outside
        \/ Switch \/ SwitchKilled \/ \E m \in {"cache", "offline"} : SwitchTo(m)
    BY <1>2 DEF Next, Manager
  <2>1. Types'
    BY <2>0, WorkerTypes, ControlTypes, ManagerTypes, OutsideTypes, SwitchTypes DEF IInv
  <2>2. WorkerSound'
    BY <2>0, WorkerKeeps, WorkerKept
  <2>3. RowsSound'
    BY <2>0, WorkerRows, ControlRows, OtherRows
  <2>4. StopSound' /\ SwitchSound' /\ ModeSound'
    BY <2>0, StopStep, SwitchStep, ModeStep
  <2>5. QED
    BY <2>1, <2>2, <2>3, <2>4 DEF IInv
<1>3. QED
  BY <1>1, <1>2

LEMMA Invariant == Spec => []IInv
BY InitInv, NextInv, PTL DEF Spec

-----------------------------------------------------------------------------
(* What the runs check, for any number of games and items.                 *)

\* Every variable keeps its type, and the active item is, until it is settled, a
\* row of the table whose game the worker has locked (_run_item, _worker).
THEOREM TypeCorrect == Spec => []TypeOK
<1>1. IInv => TypeOK
  <2>1. SUFFICES ASSUME IInv PROVE TypeOK
    OBVIOUS
  <2>2. active # NoItem /\ worker.pc \notin {"finally", "clear"}
          => row[active] # "none" /\ worker.item = active /\ lease = worker.game
    <3>1. SUFFICES ASSUME active # NoItem, worker.pc \notin {"finally", "clear"}
                   PROVE  row[active] # "none" /\ worker.item = active /\ lease = worker.game
      OBVIOUS
    <3>2. worker.pc \in InRun
      BY <2>1, <3>1 DEF IInv, Types, Workers, WorkerSound, Ending
    <3>3. worker.item = active /\ lease = worker.game
      BY <2>1, <3>2 DEF IInv, WorkerSound
    <3>4. row[active] \in Inflight \cup {"complete"}
      BY <2>1, <3>2, <3>3 DEF IInv, RowsSound, InRun
    <3>5. QED
      BY <3>3, <3>4 DEF Inflight
  <2>3. /\ {suspended, claiming, token, stranded} \subseteq BOOLEAN
        /\ {worker.game, lease, foreign} \subseteq Games \cup {NoGame}
        /\ worker.item \in Items \cup {NoItem}
        /\ worker.target \in {"none", "source", "raised", "paused", "cancelled", "interrupted"}
        /\ control.on \in Items \cup Games \cup {NoItem}
        /\ {switch.to, switch.from} \subseteq {"none", "cache", "offline"}
        /\ {starts, moves} \subseteq Nat
    BY <2>1 DEF IInv, Types, Workers, Controls, Switches, Stops
  <2>4. QED
    BY <2>1, <2>2, <2>3 DEF IInv, Types, TypeOK, Stops
<1>2. QED
  BY <1>1, Invariant, PTL

\* Offline nothing is resolved or transferred, downloads stay suspended only
\* Offline, and no row in flight is left without its worker but the one in whose
\* handler the worker died, through every route of a switch and every end of the
\* manager (apply_operating_mode, set_operating_mode, recover_interrupted).
THEOREM QueueIsHonest == Spec => []QueueHonest
<1>1. IInv => QueueHonest
  <2>1. SUFFICES ASSUME IInv PROVE QueueHonest
    OBVIOUS
  <2>2. NoSwitch.pc = "idle"
    BY DEF NoSwitch
  <2>3. OfflineQuiet /\ SuspensionLifted
    BY <2>1, <2>2 DEF IInv, ModeSound, OfflineQuiet, SuspensionLifted, Busy
  <2>4. NoOrphanRow
    BY <2>1 DEF IInv, RowsSound, NoOrphanRow, Dead
  <2>5. QED
    BY <2>3, <2>4 DEF QueueHonest
<1>2. QED
  BY <1>1, Invariant, PTL

\* The row of the run is ended by the worker alone.
LEMMA OnlySettleEnds ==
    ASSUME IInv, Next, ~Settle, active # NoItem, row[active] \in Inflight
    PROVE  row'[active] \notin Held \cup {"cancelled"}
<1> USE DEF IInv
<1>0. /\ active \in Items /\ row \in [Items -> Rows] /\ worker.pc \in InRun \cup Ending
      /\ born \in Nat
      /\ active = worker.item
  BY DEF Types, Rows, Workers, WorkerSound, RowsSound, Inflight, Ending, Resting
<1>p. /\ row[active] \notin Held \cup {"queued", "cancelled", "failed", "none"}
      /\ {"queued", "cancelled", "failed", "running", "complete"} \subseteq Rows
      /\ "running" \notin Held \cup {"cancelled"} /\ "complete" \notin Held \cup {"cancelled"}
  BY DEF Inflight, Held, Rows, Active, Settled
<1>k. ASSUME row'[active] = row[active] PROVE row'[active] \notin Held \cup {"cancelled"}
  BY <1>k, <1>p
<1>1. CASE Worker
  <2>1. CASE Pick \/ Reject \/ Admit
    BY <1>0, <2>1 DEF Pick, Reject, Admit, At, InRun, Ending
  <2>2. CASE Progress \/ Final
    <3>1. \/ row' = Transition(active, {"verifying"}, "running")
          \/ row' = Transition(active, Inflight, "complete")
      BY <1>0, <2>2 DEF Progress, Final
    <3>2. row'[active] \in {row[active], "running", "complete"}
      BY <1>0, <1>p, <3>1, TransitionIs
    <3>3. QED
      BY <1>p, <3>2
  <2>3. CASE Check \/ Claim \/ Begin \/ Transferred \/ PopStop \/ Raise \/ Unlock \/ Clear
    BY <1>k, <2>3 DEF Check, Claim, Begin, Transferred, PopStop, Raise, Unlock, Clear
  <2>4. QED
    BY <1>1, <2>1, <2>2, <2>3 DEF Worker
<1>2. ASSUME NEW g \in Games, Enqueue(g) PROVE row'[active] = row[active]
  <2>1. active # born + 1
    BY <1>0, <1>2, <1>p DEF Enqueue, Types, Items, RowsSound
  <2>2. QED
    BY <1>0, <1>2, <2>1 DEF Enqueue
<1>3. ASSUME NEW i \in Items, CancelQueued(i) \/ Resume(i) \/ Retry(i)
      PROVE  row'[active] = row[active]
  <2>1. CASE i = active
    BY <1>3, <1>p, <2>1 DEF CancelQueued, Resume, Retry
  <2>2. CASE i # active
    <3>1. \E from : \E to \in {"queued", "cancelled"} : row' = Transition(i, from, to)
      BY <1>3 DEF CancelQueued, Resume, Retry, Edit
    <3>2. QED
      BY <1>0, <1>p, <2>2, <3>1, TransitionIs
  <2>3. QED
    BY <2>1, <2>2
<1>4. ASSUME NEW i \in Items, RemoveQueued(i) PROVE row'[active] = row[active]
  BY <1>0, <1>4, <1>p DEF RemoveQueued, Edit
<1>5. CASE CancelAll
  BY <1>0, <1>5, <1>k, <1>p DEF CancelAll
<1>6. CASE RetryAllFailed
  <2>1. PICK S \in SUBSET {i \in Items : row[i] = "failed"} :
          row' = [i \in Items |-> IF i \in S THEN "queued" ELSE row[i]]
    BY <1>6 DEF RetryAllFailed, Edit
  <2>2. QED
    BY <1>0, <1>k, <1>p, <2>1
<1>7. CASE \/ DoStop \/ DoDiscard \/ Switch \/ SwitchKilled \/ Publish \/ Serve \/ Term \/ Exit
           \/ Crash \/ Outside \/ \E m \in {"cache", "offline"} : SwitchTo(m)
  <2>1. row' = row
    BY <1>7 DEF DoStop, DoDiscard, Switch, Coordinate, Answer, Present, Commit, Refresh, Restore,
       SwitchKilled, SwitchTo, Publish, Serve, Term, Exit, Crash, Gone, Outside, ForeignLeaves,
       ForeignTakes, CatalogDrops
  <2>2. QED
    BY <1>k, <2>1
<1>8. CASE Start
  BY <1>0, <1>8 DEF Start, WorkerSound, InRun, Ending
<1>9. CASE (\E g \in Games : AskDiscard(g))
           \/ \E i \in Items : \E to \in {"paused", "cancelled"} : AskStop(i, to)
  BY <1>9, <1>k DEF AskDiscard, AskStop
<1>10. CASE Control
  BY <1>10, <1>2, <1>3, <1>4, <1>5, <1>6, <1>9, <1>k DEF Control
<1>11. QED
  BY <1>1, <1>7, <1>8, <1>10 DEF Next

\* A run ends paused, cancelled or interrupted only by a stop accepted during
\* that very run or because downloads are blocked, whatever was asked of the item
\* before; and no request discards what is being transferred (_requested_stop,
\* discard_staging_asset).
THEOREM RunsAreHonest == Spec => RunsHonest
<1>1. IInv /\ [Next]_vars => [RunEndsAsAsked /\ TransferKeepsPartial]_vars
  <2>1. SUFFICES ASSUME IInv, Next PROVE RunEndsAsAsked /\ TransferKeepsPartial
    OBVIOUS
  <2> USE <2>1 DEF IInv
  <2>2. RunEndsAsAsked
    <3>1. SUFFICES ASSUME active # NoItem, row[active] \in Inflight,
                          row'[active] \in Held \cup {"cancelled"}
                   PROVE  row'[active] \in asked \/ (row'[active] = "paused" /\ Blocked)
      BY Bounds DEF RunEndsAsAsked
    <3>2. Settle
      BY <2>1, <3>1, OnlySettleEnds
    <3>3. /\ active \in Items /\ active = worker.item /\ row \in [Items -> Rows]
          /\ worker.pc = "settle" => worker.target \in Rows
      <4>1. worker.pc \in {"settle", "failed", "finished"}
        BY <3>2 DEF Settle, At
      <4>2. QED
        BY <4>1 DEF WorkerSound, StopSound, InRun, Types, Workers, Rows, Active, Held, Settled, Stops
    <3>4. \E to \in Rows :
             /\ row' = Transition(active, {row[active]}, to)
             /\ \/ worker.pc = "settle" /\ to = worker.target
                \/ to = "paused" /\ Blocked
                \/ to \in {"failed", "complete"}
      BY <3>2, <3>3 DEF Settle, SettleAs, At, Rows, Active, Held, Settled
    <3>5. PICK to \in Rows :
             /\ row' = Transition(active, {row[active]}, to)
             /\ \/ worker.pc = "settle" /\ to = worker.target
                \/ to = "paused" /\ Blocked
                \/ to \in {"failed", "complete"}
      BY <3>4
    <3>6. row'[active] \in {row[active], to}
      BY <3>3, <3>5, TransitionIs
    <3>7. row'[active] = to /\ to \notin {"failed", "complete"}
      BY <3>1, <3>6 DEF Held, Inflight
    <3>8. QED
      BY <3>5, <3>7 DEF StopSound
  <2>3. TransferKeepsPartial
    <3>1. SUFFICES ASSUME NEW g \in partial \ partial', lease = g PROVE worker.pc = "final"
      BY DEF TransferKeepsPartial
    <3>2. g \in Games
      BY <3>1 DEF Types
    <3>3. CASE DoDiscard
      BY <3>1, <3>3 DEF DoDiscard, Discardable
    <3>4. CASE ForeignLeaves
      <4>1. foreign \in Games /\ g = foreign
        BY <3>1, <3>4 DEF ForeignLeaves, Types
      <4>2. QED
        BY <3>1, <4>1 DEF WorkerSound
    <3>5. CASE Worker
      BY <3>1, <3>5 DEF Worker, Pick, Check, Claim, Reject, Admit, Begin, Progress, Transferred,
         Final, PopStop, Raise, Settle, Unlock, Clear, At
    <3>6. CASE ~(DoDiscard \/ ForeignLeaves \/ Worker)
      <4>1. partial' = partial
        <5>1. CASE Control \/ DoStop
          BY <5>1 DEF Control, DoStop, Enqueue, AskDiscard, AskStop, CancelAll, CancelQueued, Resume,
             Retry, RemoveQueued, RetryAllFailed, Edit
        <5>2. CASE Switch \/ SwitchKilled \/ \E m \in {"cache", "offline"} : SwitchTo(m)
          BY <5>2 DEF Switch, Coordinate, Answer, Present, Commit, Refresh, Restore, SwitchKilled,
             SwitchTo
        <5>3. CASE \/ Start \/ Publish \/ Serve \/ Term \/ Exit \/ Crash
                   \/ \E h \in Games : ForeignTakes(h) \/ CatalogDrops(h)
          BY <5>3 DEF Start, Publish, Serve, Term, Exit, Crash, Gone, ForeignTakes, CatalogDrops
        <5>4. QED
          BY <2>1, <3>6, <5>1, <5>2, <5>3 DEF Next, Outside
      <4>2. QED
        BY <3>1, <4>1
    <3>7. QED
      BY <3>3, <3>4, <3>5, <3>6
  <2>4. QED
    BY <2>2, <2>3
<1>2. QED
  BY <1>1, Invariant, PTL DEF Spec, RunsHonest
=============================================================================
