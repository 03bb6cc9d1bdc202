------------------------------ MODULE AutoSync ------------------------------
(***************************************************************************)
(* Automatic SaveSync on one device: the gameStart and gameStop hooks, the *)
(* session markers, the one worker shared by the hook, the periodic menu   *)
(* loop (which also stands for the reconnection) and the follow-up of a    *)
(* busy gameStop, and the popup that drains the queue of conflict prompts. *)
(*                                                                         *)
(* A game is one save group of a layout of its own.  A content is the      *)
(* number of the write that made it, 0 being what every side has at first. *)
(* The files move as in SaveTransaction and CommitProtocol, remote changes *)
(* are discovered as in SharedIndex: a reconciliation is one step here.    *)
(***************************************************************************)
EXTENDS Naturals

CONSTANTS Games, NoGame,
          Unprovable,                        \* games whose save has no provable identity
          MaxWrites,                         \* contents ever written, here or by a peer
          MaxLaunches, MaxFaults,
          Observations,                      \* that a settling may make
          Retries                            \* of a staging that met a change

ASSUME AutoSyncAssumption ==
    /\ NoGame \notin Games /\ Unprovable \subseteq Games
    /\ {MaxWrites, MaxLaunches, MaxFaults, Retries} \subseteq Nat
    /\ Observations \in Nat \ {0}

Process == {"hook", "tick", "drain"}
Content == 0..MaxWrites
Ids == Games \X Content \X Content           \* a conflict is identified by its two sides

VARIABLES
    local, remote,                           \* the save of each game on either side
    base, dirty, conf,                       \* savesync-state.json
    marker, queue,                           \* session markers, conflict prompts
    front, game,                             \* what the frontend does, and with which game
    run,                                     \* the process of each kind
    worker, op,                              \* holders of the worker lock and the state lock
    popup, shown, ask,                       \* the popup, what it has loaded, what it displays
    clock, launches, faults,                 \* how often the bounded actions were taken
    escaped, silent, raced                   \* history: see the properties

saves == <<local, remote, clock>>
state == <<base, dirty, conf>>
frontend == <<marker, front, game, launches>>
locks == <<worker, op>>
prompts == <<queue, popup, shown, ask>>
history == <<escaped, silent, raced>>
vars == <<saves, state, frontend, run, locks, prompts, faults, history>>

Nobody == "none"
Idle == [pc |-> "idle", pend |-> {}, plan |-> <<>>, before |-> {}, new |-> {}, tries |-> 0, seen |-> 0]

Conflicted == {g \in Games : conf[g] # <<>>}
Active == {<<g, conf[g][1], conf[g][2]>> : g \in Conflicted}    \* active_conflicts

At(p, pc) == run[p].pc = pc
Goto(p, pc) == run' = [run EXCEPT ![p].pc = pc]
Starting == front = "starting"               \* the hook is a gameStart, else a gameStop

Init ==
    /\ local = [g \in Games |-> 0] /\ remote = local /\ base = local
    /\ dirty = {} /\ conf = [g \in Games |-> <<>>]
    /\ marker = {} /\ queue = {}
    /\ front = "menu" /\ game = NoGame
    /\ run = [p \in Process |-> Idle] /\ worker = Nobody /\ op = Nobody
    /\ popup = "off" /\ shown = {} /\ ask = <<>>
    /\ clock = 0 /\ launches = 0 /\ faults = 0
    /\ escaped = {} /\ silent = {} /\ raced = {}

-----------------------------------------------------------------------------
(* The frontend, the emulators and the peers. *)

\* emulatorlauncher runs the gameStart hook, which writes the marker first.  A
\* save that cannot be targeted, or a remote that cannot be reached, ends it.
Launch(g) ==
    /\ front = "menu" /\ At("hook", "idle") /\ popup # "show" /\ launches < MaxLaunches
    /\ launches' = launches + 1 /\ front' = "starting" /\ game' = g
    /\ marker' = marker \cup {g}
    /\ \E pc \in {"enter", "leave"} :
         /\ g \in Unprovable => pc = "leave"
         /\ run' = [run EXCEPT !["hook"] = [Idle EXCEPT !.pc = pc]]
    /\ raced' = IF \E p \in Process : At(p, "apply") /\ g \in DOMAIN run[p].plan THEN raced \cup {g} ELSE raced
    /\ UNCHANGED <<saves, state, locks, prompts, faults, escaped, silent>>

Play ==
    /\ Starting /\ At("hook", "leave") /\ run' = [run EXCEPT !["hook"] = Idle]
    /\ front' = "playing"
    /\ UNCHANGED <<saves, state, marker, game, launches, locks, prompts, faults, history>>

\* The emulator of the running game, or one that has not finished writing when
\* its end is announced: the settling of the hook is there for the latter.
EmulatorWrites ==
    /\ \/ front = "playing"
       \/ front = "stopping" /\ run["hook"].pc \in {"retire", "settle"}
    /\ clock < MaxWrites /\ clock' = clock + 1
    /\ local' = [local EXCEPT ![game] = clock + 1]
    /\ UNCHANGED <<remote, state, frontend, run, locks, prompts, faults, history>>

PeerWrites(g) ==
    /\ clock < MaxWrites /\ clock' = clock + 1
    /\ remote' = [remote EXCEPT ![g] = clock + 1]
    /\ UNCHANGED <<local, state, frontend, run, locks, prompts, faults, history>>

Exit ==
    /\ front = "playing" /\ front' = "stopping"
    /\ run' = [run EXCEPT !["hook"] = [Idle EXCEPT !.pc = "retire"]]
    /\ UNCHANGED <<saves, state, marker, game, launches, locks, prompts, faults, history>>

ReturnNamed ==  \* mutant: the frontend keeps naming the game it has left
    /\ front = "stopping" /\ At("hook", "leave") /\ run' = [run EXCEPT !["hook"] = Idle]
    /\ front' = "menu"
    /\ UNCHANGED <<saves, state, marker, game, launches, locks, prompts, faults, history>>
\* The hook returns to the frontend.
Return ==
    /\ front = "stopping" /\ At("hook", "leave") /\ run' = [run EXCEPT !["hook"] = Idle]
    /\ front' = "menu" /\ game' = NoGame
    /\ UNCHANGED <<saves, state, marker, launches, locks, prompts, faults, history>>

\* The frontend dies with its game and no gameStop is announced.
FrontendDies ==
    /\ front = "playing" /\ faults < MaxFaults /\ faults' = faults + 1
    /\ front' = "menu" /\ game' = NoGame
    /\ UNCHANGED <<saves, state, marker, launches, run, locks, prompts, history>>

\* A new boot: markers carry the id of the boot they were written in.
Changed == {g \in Games : local[g] # base[g]}
PowerLoss ==
    /\ faults < MaxFaults /\ faults' = faults + 1
    /\ front' = "menu" /\ game' = NoGame /\ marker' = {}
    /\ run' = [p \in Process |-> Idle] /\ worker' = Nobody /\ op' = Nobody
    /\ popup' = "off" /\ shown' = {} /\ ask' = <<>>
    /\ escaped' = escaped \cup (Changed \ dirty) /\ silent' = silent \cup (Active \ queue)
    /\ UNCHANGED <<saves, state, queue, launches, raced>>

-----------------------------------------------------------------------------
(* The gameStop hook until it has recorded what the game has changed. *)

RetireMarker ==
    /\ At("hook", "retire") /\ marker' = marker \ {game}
    /\ run' = [run EXCEPT !["hook"] = [@ EXCEPT !.pc = "settle", !.tries = 1, !.seen = local[game]]]
    /\ UNCHANGED <<saves, state, front, game, launches, locks, prompts, faults, history>>

\* Two equal observations in a row, or none within the bound.
SettleAtOnce ==  \* mutant: one observation is enough
    /\ At("hook", "settle") /\ Goto("hook", "detect")
    /\ UNCHANGED <<saves, state, frontend, locks, prompts, faults, history>>
Settle ==
    /\ At("hook", "settle")
    /\ \/ /\ local[game] = run["hook"].seen
          /\ Goto("hook", "detect") /\ UNCHANGED escaped
       \/ /\ local[game] # run["hook"].seen /\ run["hook"].tries < Observations
          /\ run' = [run EXCEPT !["hook"].tries = @ + 1, !["hook"].seen = local[game]]
          /\ UNCHANGED escaped
       \/ /\ local[game] # run["hook"].seen /\ run["hook"].tries = Observations
          /\ Goto("hook", "leave")
          /\ escaped' = escaped \cup ({game} \cap Changed)
    /\ UNCHANGED <<saves, state, frontend, locks, prompts, faults, silent, raced>>

\* detect_and_mark_local_changes, under the state lock: what was observed
\* against the baseline of now.  Another session defers the rest.
Detect ==
    /\ At("hook", "detect") /\ op = Nobody
    /\ dirty' = IF run["hook"].seen # base[game] THEN dirty \cup {game} ELSE dirty
    /\ escaped' = escaped \ {game}
    /\ run' = [run EXCEPT !["hook"] = [Idle EXCEPT !.pc = IF marker # {} THEN "leave" ELSE "acquire"]]
    /\ UNCHANGED <<saves, base, conf, frontend, locks, prompts, faults, silent, raced>>

-----------------------------------------------------------------------------
(* _run_quick_sync, for the gameStop hook, the menu loop and the follow-up. *)

\* The menu loop ticks, or the storage becomes reachable again.
Tick ==
    /\ At("tick", "idle") /\ run' = [run EXCEPT !["tick"] = [Idle EXCEPT !.pc = "acquire"]]
    /\ UNCHANGED <<saves, state, frontend, locks, prompts, faults, history>>

\* The follow-up looks for pending work before anything else.
Drain ==
    /\ At("drain", "spawned")
    /\ run' = [run EXCEPT !["drain"] = IF dirty = {} THEN Idle ELSE [Idle EXCEPT !.pc = "acquire"]]
    /\ UNCHANGED <<saves, state, frontend, locks, prompts, faults, history>>

\* What a worker leaves: the hook returns to the frontend, the others end.
After(p) == IF p = "hook" THEN [Idle EXCEPT !.pc = "leave"] ELSE Idle

Acquire(p) ==
    /\ At(p, "acquire") /\ worker = Nobody
    /\ IF marker # {}
       THEN run' = [run EXCEPT ![p] = After(p)] /\ UNCHANGED worker
       ELSE worker' = p /\ Goto(p, "read")
    /\ UNCHANGED <<saves, state, frontend, op, prompts, faults, history>>

\* The attempts are used up: the hook leaves a follow-up behind.
Busy(p) ==
    /\ At(p, "acquire") /\ worker \notin {Nobody, p}
    /\ run' = [q \in Process |->
                 IF q = p THEN After(p)
                 ELSE IF p = "hook" /\ q = "drain" /\ At("drain", "idle")
                      THEN [Idle EXCEPT !.pc = "spawned"] ELSE run[q]]
    /\ UNCHANGED <<saves, state, frontend, locks, prompts, faults, history>>

\* A pass: pending groups settle first, unless a game is writing them.
Pass(p) ==
    /\ At(p, "read")
    /\ \/ run' = [run EXCEPT ![p] = [@ EXCEPT !.pc = "enter", !.pend = dirty, !.before = Active]]
          /\ UNCHANGED locks
       \/ /\ game \in dirty
          /\ run' = [run EXCEPT ![p] = After(p)] /\ worker' = Nobody /\ UNCHANGED op
    /\ UNCHANGED <<saves, state, frontend, prompts, faults, history>>

Pull == {g \in Games : remote[g] # (IF conf[g] # <<>> THEN conf[g][2] ELSE base[g])}

\* Under the state lock: what differs and is not being played is planned on
\* what both sides hold now.  A gameStart looks at its own game alone.
Selected(p) == IF p = "hook" /\ Starting THEN {game} \cap (dirty \cup Conflicted \cup Pull)
               ELSE dirty \cup Pull
Excluded(p) == IF p = "hook" /\ Starting THEN {} ELSE marker
Enter(p) ==
    /\ At(p, "enter") /\ op = Nobody
    /\ LET todo == Selected(p) \ Excluded(p)
       IN  IF todo = {}
           THEN Goto(p, IF Selected(p) = {} THEN "after" ELSE "fail") /\ UNCHANGED op
           ELSE /\ op' = p
                /\ run' = [run EXCEPT ![p] = [@ EXCEPT !.pc = "verify",
                              !.plan = [g \in todo |-> <<local[g], remote[g]>>]]]
    /\ UNCHANGED <<saves, state, frontend, worker, prompts, faults, history>>

Planned(p) == DOMAIN run[p].plan
Intact(p) == \A g \in Planned(p) : run[p].plan[g] = <<local[g], remote[g]>>

\* Staging met a change: settle and stage again, or give up.
Restage(p) ==
    /\ ~Intact(p) /\ op' = Nobody
    /\ IF ~(p = "hook" /\ Starting) /\ run[p].tries < Retries
       THEN run' = [run EXCEPT ![p].pc = "enter", ![p].plan = <<>>, ![p].tries = @ + 1]
       ELSE run' = [run EXCEPT ![p].pc = "fail", ![p].plan = <<>>]

VerifyContents(p) ==  \* mutant: the sessions are not looked at again
    /\ At(p, "verify") /\ (Restage(p) \/ (Intact(p) /\ Goto(p, "apply") /\ UNCHANGED op))
    /\ UNCHANGED <<saves, state, frontend, worker, prompts, faults, history>>
\* The last look at the contents and at the sessions before anything moves.
Verify(p) ==
    /\ At(p, "verify")
    /\ \/ Restage(p)
       \/ /\ Intact(p) /\ Planned(p) \cap Excluded(p) # {}
          /\ op' = Nobody /\ run' = [run EXCEPT ![p] = [@ EXCEPT !.pc = "fail", !.plan = <<>>]]
       \/ /\ Intact(p) /\ Planned(p) \cap Excluded(p) = {}
          /\ Goto(p, "apply") /\ UNCHANGED op
    /\ UNCHANGED <<saves, state, frontend, worker, prompts, faults, history>>

\* The three-way decision for one game.
Decision(g, l, r) == IF l = r THEN "same" ELSE IF r = base[g] THEN "upload"
                     ELSE IF l = base[g] THEN "download" ELSE "conflict"

\* The transaction looks at its targets again, moves the saves and records what
\* it did.  A conflict takes the place of the dirty hints.
ApplyUnchecked(p) ==  \* mutant: the targets are not looked at again
    /\ At(p, "apply") /\ op' = Nobody
    /\ LET plan == run[p].plan
           D(g) == IF g \in DOMAIN plan THEN Decision(g, plan[g][1], plan[g][2]) ELSE "none"
       IN  /\ remote' = [g \in Games |-> IF D(g) = "upload" THEN plan[g][1] ELSE remote[g]]
           /\ local' = [g \in Games |-> IF D(g) = "download" THEN plan[g][2] ELSE local[g]]
           /\ base' = [g \in Games |-> CASE D(g) \in {"same", "upload"} -> plan[g][1]
                                         [] D(g) = "download" -> plan[g][2] [] OTHER -> base[g]]
           /\ conf' = [g \in Games |-> CASE D(g) = "conflict" -> plan[g]
                                         [] D(g) = "none" -> conf[g] [] OTHER -> <<>>]
           /\ dirty' = dirty \ DOMAIN plan
           /\ silent' = IF p = "hook" THEN silent
                        ELSE silent \cup {<<g, plan[g][1], plan[g][2]>> : g \in {h \in DOMAIN plan : D(h) = "conflict"}}
           /\ escaped' = escaped \ {g \in DOMAIN plan : plan[g][1] = local[g]}
    /\ Goto(p, "after")
    /\ UNCHANGED <<clock, frontend, worker, prompts, faults, raced>>
Replaced(p) == {g \in Planned(p) : Decision(g, run[p].plan[g][1], run[p].plan[g][2]) \in {"upload", "download"}}
Apply(p) ==
    \/ /\ \A g \in Replaced(p) : run[p].plan[g] = <<local[g], remote[g]>>
       /\ ApplyUnchecked(p)
    \/ /\ At(p, "apply") /\ \E g \in Replaced(p) : run[p].plan[g] # <<local[g], remote[g]>>
       /\ op' = Nobody /\ run' = [run EXCEPT ![p] = [@ EXCEPT !.pc = "fail", !.plan = <<>>]]
       /\ UNCHANGED <<saves, state, frontend, worker, prompts, faults, history>>

Forgetful(p) ==  \* mutant: what the hook has met is not queued
    /\ At(p, "after") /\ ~(p = "hook" /\ Starting)
    /\ worker' = Nobody /\ run' = [run EXCEPT ![p] = After(p)]
    /\ UNCHANGED <<saves, state, frontend, op, prompts, faults, history>>
\* The pass is over: another one while it helps, or the end.  A gameStop fails
\* when nothing moved, and otherwise queues the conflicts it has met.
Conclude(p) ==
    /\ At(p, "after") /\ ~(p = "hook" /\ Starting)
    /\ LET new == IF p = "hook" THEN run[p].new \cup (Active \ run[p].before) ELSE {}
           stuck == dirty = run[p].pend /\ dirty # {}
       IN  CASE p = "hook" /\ stuck ->
                  Goto(p, "fail") /\ UNCHANGED <<worker, prompts>>
             [] dirty # {} /\ ~stuck ->
                  /\ run' = [run EXCEPT ![p] = [Idle EXCEPT !.pc = "read", !.new = new]]
                  /\ UNCHANGED <<worker, prompts>>
             [] OTHER ->
                  /\ worker' = Nobody /\ run' = [run EXCEPT ![p] = After(p)]
                  /\ queue' = queue \cup (new \cap Active)
                  /\ \/ UNCHANGED popup
                     \/ p = "hook" /\ popup = "off" /\ queue' # {} /\ popup' = "load"
                  /\ UNCHANGED <<shown, ask>>
    /\ UNCHANGED <<saves, state, frontend, op, faults, history>>

FailLocked(p) ==  \* mutant: the failing worker keeps its lock
    /\ At(p, "fail") /\ run' = [run EXCEPT ![p] = After(p)]
    /\ UNCHANGED <<saves, state, frontend, locks, prompts, faults, history>>
Fail(p) ==
    /\ At(p, "fail") /\ run' = [run EXCEPT ![p] = After(p)]
    /\ worker' = IF worker = p THEN Nobody ELSE worker
    /\ silent' = IF p = "hook" THEN silent \cup (Active \ queue) ELSE silent
    /\ UNCHANGED <<saves, state, frontend, op, prompts, faults, escaped, raced>>

-----------------------------------------------------------------------------
(* The end of a gameStart, and the popup it may wait for. *)

ConcludeStart ==
    /\ Starting /\ At("hook", "after")
    /\ LET met == {i \in Active : i[1] = game /\ game \in Planned("hook")}
       IN  /\ queue' = queue \cup met
           /\ CASE met = {} -> Goto("hook", "leave") /\ UNCHANGED popup
                [] met # {} /\ popup # "off" -> Goto("hook", "leave") /\ UNCHANGED popup
                [] met # {} /\ popup = "off" -> Goto("hook", "held") /\ popup' = "load"
    /\ UNCHANGED <<saves, state, frontend, locks, shown, ask, faults, history>>

Released ==
    /\ At("hook", "held") /\ popup = "off" /\ Goto("hook", "leave")
    /\ UNCHANGED <<saves, state, frontend, locks, prompts, faults, history>>

\* Stale prompts are dropped while the queue is read.
Load ==
    /\ popup = "load" /\ queue' = queue \cap Active
    /\ IF queue' = {} THEN popup' = "off" /\ shown' = {} /\ ask' = <<>>
       ELSE popup' = "show" /\ shown' = queue' /\ ask' \in shown'
    /\ UNCHANGED <<saves, state, frontend, run, locks, faults, history>>

\* The next prompt that was loaded, and in the end the queue again.
Advance ==
    /\ shown' = shown \ {ask}
    /\ IF shown' = {} THEN popup' = "load" /\ ask' = <<>> ELSE UNCHANGED popup /\ ask' \in shown'

Answerable == popup = "show" /\ ask \in queue \cap Active
LaterAgain ==  \* mutant: the dismissed prompt stays queued
    /\ Answerable /\ Advance
    /\ UNCHANGED <<saves, state, frontend, run, locks, queue, faults, history>>
Later ==
    /\ Answerable /\ Advance /\ queue' = queue \ {ask} /\ silent' = silent \cup {ask}
    /\ UNCHANGED <<saves, state, frontend, run, locks, faults, escaped, raced>>

\* resolve_conflict, under the state lock: both sides must still be those of the
\* conflict, which every screen that resolves one goes through.
Settled(i) ==
    /\ i \in Active /\ op = Nobody
    /\ LET g == i[1]
       IN  /\ \/ remote' = [remote EXCEPT ![g] = local[g]] /\ base' = [base EXCEPT ![g] = local[g]] /\ UNCHANGED local
              \/ local' = [local EXCEPT ![g] = remote[g]] /\ base' = [base EXCEPT ![g] = remote[g]] /\ UNCHANGED remote
           /\ conf' = [conf EXCEPT ![g] = <<>>] /\ dirty' = dirty \ {g}
           /\ escaped' = escaped \ {g}
    /\ queue' = queue \ {i}
    /\ UNCHANGED <<clock, frontend, run, locks, faults, silent, raced>>
Resolve(i) == local[i[1]] = i[2] /\ remote[i[1]] = i[3] /\ Settled(i)

Answer == Answerable /\ Resolve(ask) /\ Advance
ResolveByHand == popup = "off" /\ front = "menu" /\ (\E i \in Active : Resolve(i)) /\ UNCHANGED <<popup, shown, ask>>

\* The window is closed, or a controller is connected while it is shown.
Close ==
    /\ popup = "show" /\ faults < MaxFaults /\ faults' = faults + 1
    /\ popup' = "off" /\ shown' = {} /\ ask' = <<>>
    /\ UNCHANGED <<saves, state, frontend, run, locks, queue, history>>

-----------------------------------------------------------------------------
Work(p) == Acquire(p) \/ Busy(p) \/ Pass(p) \/ Enter(p) \/ Verify(p) \/ Apply(p) \/ Conclude(p) \/ Fail(p)
Hook == RetireMarker \/ Settle \/ Detect \/ Work("hook") \/ ConcludeStart \/ Released \/ Play \/ Return

Next ==
    \/ Hook \/ Tick \/ Drain \/ Work("tick") \/ Work("drain")
    \/ Load \/ Later \/ Answer \/ ResolveByHand \/ Close
    \/ Exit \/ EmulatorWrites \/ FrontendDies \/ PowerLoss
    \/ \E g \in Games : Launch(g) \/ PeerWrites(g)

Spec == Init /\ [][Next]_vars

\* Hooks, the menu loop and its follow-up run, players end their games and
\* answer what they are asked.
FairSpec == /\ Spec /\ WF_vars(Hook) /\ WF_vars(Exit)
            /\ WF_vars(Tick) /\ WF_vars(Work("tick")) /\ WF_vars(Drain \/ Work("drain"))
            /\ WF_vars(Load) /\ WF_vars(Later)

-----------------------------------------------------------------------------
TypeOK ==
    /\ {local, remote, base} \subseteq [Games -> Content]
    /\ dirty \subseteq Games /\ marker \subseteq Games /\ escaped \subseteq Games /\ raced \subseteq Games
    /\ \A g \in Games : conf[g] = <<>> \/ conf[g] \in Content \X Content
    /\ queue \subseteq Ids /\ silent \subseteq Ids /\ shown \subseteq Ids
    /\ front \in {"menu", "starting", "playing", "stopping"} /\ (game = NoGame <=> front = "menu")
    /\ {worker, op} \subseteq Process \cup {Nobody}
    /\ \A p \in Process : At(p, "apply") => op = p
    /\ popup \in {"off", "load", "show"} /\ (popup = "show" => ask \in shown)

\* A local change that no synchronisation has compared is in the durable state,
\* or a session still owes its detection, but by the two routes of escaped: the
\* save never settled, or the power failed before the hook had recorded it.
Owed(g) == g \in marker \/ (front # "menu" /\ game = g)
Remembered == \A g \in Changed : g \in dirty \cup Conflicted \cup escaped \/ Owed(g)

\* Nothing is replaced, on either side, that is not the common baseline, equal
\* to the other side, or the copy a player was shown and gave up.
NothingUnseenReplaced == clock' = clock => \A g \in Games :
    /\ local'[g] # local[g] => local[g] \in {base[g]} \cup (IF conf[g] = <<>> THEN {} ELSE {conf[g][1]})
    /\ remote'[g] # remote[g] => remote[g] \in {base[g]} \cup (IF conf[g] = <<>> THEN {} ELSE {conf[g][2]})

\* A pass of the worker leaves the save of a running game alone, unless the game
\* was launched between the last look at the sessions and the promotion.
PassWhilePlaying == \E p \in Process : At(p, "apply") /\ run'[p].pc = "after" /\ game \in Games
                                      /\ local'[game] # local[game] /\ front = "playing"
SessionsRespected == PassWhilePlaying => game \in raced

\* Automatic passes replace no save that they should not.
PassesCareful == [][NothingUnseenReplaced /\ SessionsRespected]_vars

\* While the frontend plays a game, no pass touches its save at all.
SessionUntouched == [][~PassWhilePlaying]_vars

\* Every conflict met by a hook that ended well is queued for its prompt, until
\* a player has dismissed it; passes in the background queue nothing.
Prompted == \A i \in Active : i \in queue \cup silent \/ run["hook"].pc \in {"after", "fail"}

\* What the player did is remembered, and what he has to decide is asked.
NothingForgotten == TypeOK /\ Remembered /\ Prompted

\* A gameStop that fails has retained what the game changed as pending work.
PendingRetained ==
    front = "stopping" /\ At("hook", "leave") /\ game \in Changed => game \in dirty \cup Conflicted

\* What is pending is synchronised, unless a session that ended without a
\* gameStop defers every pass.
Abandoned == \E g \in marker : game # g
PendingDrained == \A g \in Games : g \in dirty ~> (g \notin dirty \/ Abandoned)

\* The popup displays what it can, and then exits.
PopupEnds == popup = "show" ~> popup # "show"

\* A launch that waits for SaveSync goes on, unless the popup displays a
\* conflict that a background pass has replaced meanwhile.
Trapped == popup = "show" /\ ~Answerable
LaunchProceeds == front = "starting" ~> (front # "starting" \/ Trapped)

\* Automatic SaveSync makes progress, and never keeps a game from starting.
SyncProceeds == PendingDrained /\ LaunchProceeds
=============================================================================
