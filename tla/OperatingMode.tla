--------------------------- MODULE OperatingMode ---------------------------
(***************************************************************************)
(* The three operating modes and what of the library each one shows:       *)
(* direct links to the source (Connected), a proxy for every game of the   *)
(* catalog (Cache), or a proxy for every cached game (Offline).            *)
(*                                                                         *)
(* set_operating_mode holds a lock and rolls back; a catalog refresh ends  *)
(* with reconcile_game_access, which takes no lock.  A process has a list  *)
(* of steps that it has yet to do.  A system has one game.                 *)
(***************************************************************************)
EXTENDS Naturals, Sequences, FiniteSets

CONSTANTS Games, Procs, None,
          MaxRuns, MaxFaults, MaxEvents   \* operations; failures and crashes; changes from outside

OperatingModeAssumption ==
    None \notin Procs /\ MaxRuns \in Nat /\ MaxFaults \in Nat /\ MaxEvents \in Nat

Modes == {"connected", "cache", "offline"}

VARIABLES
    mode, holder,        \* library-view.json; who holds .operating-mode.lock
    links, recorded,     \* the direct links; those of them the manifest names
    proxies,             \* the games whose proxy file is there
    es, quiet,           \* whether the systems of EmulationStation are overridden; the downloads suspended
    catalog, cached, source,  \* games known, games cached, whether the source is there
    proc, runs, faults, events,
    torn,                \* history: something ended or interfered that nobody rolls back
    stranded             \* history: a switch to Offline failed in its first call to the manager, which obeyed

shown == <<links, recorded, proxies, es, quiet>>
world == <<catalog, cached, source>>
vars == <<mode, holder, shown, world, proc, runs, faults, events, torn, stranded>>

Idle == [kind |-> None, want |-> None, prev |-> None, todo |-> <<>>, done |-> {}, back |-> FALSE,
         err |-> FALSE, met |-> FALSE, snap |-> {}, visible |-> {}, answer |-> None]
Target(p) == IF proc[p].back THEN proc[p].prev ELSE proc[p].want
Busy(p) == proc[p].kind # None
Visible(m) == IF m = "offline" THEN cached \cap catalog ELSE catalog

Init ==
    /\ mode = "cache" /\ holder = None
    /\ links = {} /\ recorded = {} /\ proxies = {} /\ es = TRUE /\ quiet = FALSE
    /\ catalog = {} /\ cached \in SUBSET Games /\ source = TRUE
    /\ proc = [p \in Procs |-> Idle] /\ runs = 0 /\ faults = 0 /\ events = 0 /\ torn = FALSE /\ stranded = FALSE

-----------------------------------------------------------------------------
(* The steps of an operation. *)

TrimFirst(m) == IF m = "connected" THEN <<"clear", "link", "record">> ELSE <<"restore", "unlink">>  \* mutant: what should not be seen stays
Present(m) == IF m = "connected" THEN <<"link", "record", "clear">> ELSE <<"restore", "unlink", "trim">>
Forward(m) ==
    (CASE m = "offline" -> <<"quiesce">> [] m = "connected" -> <<"source">> [] OTHER -> <<>>)
    \o Present(m) \o <<"commit", "quiesce", "es">>
Rollback(begun, prev) ==
    IF begun \ {"quiesce", "source"} = {} THEN <<>>
    ELSE (IF prev = "connected" THEN <<"clear", "relink">> ELSE Present(prev)) \o <<"es">>
KeepMode(done, begun, prev) == Rollback(begun, prev)  \* mutant: the mode file is not put back
\* The presentation is rolled back when it was begun, the mode file and what the manager was
\* told only when they were done: a first call to the manager that failed is not undone.
Backward(done, begun, prev) ==
    (IF "commit" \in done THEN <<"commit">> ELSE <<>>)
    \o (IF done \cap {"commit", "quiesce"} # {} THEN <<"quiesce">> ELSE <<>>) \o Rollback(begun, prev)
\* reconcile_game_access
Reconciled(m) == (IF m = "connected" THEN Present(m) ELSE <<"unlink", "restore", "trim">>) \o <<"es">>

Free == \A p \in Procs : ~Busy(p)
KeptLock(p) == holder  \* mutant: the lock outlives its holder
Released(p) == IF holder = p THEN None ELSE holder
Start(p) == ~Busy(p) /\ runs < MaxRuns /\ runs' = runs + 1
\* Another operation is under way: neither can tell what it will find.
Enter(p, rec) == proc' = [q \in Procs |-> IF q = p THEN [rec EXCEPT !.met = ~Free] ELSE [proc[q] EXCEPT !.met = Busy(q)]]

\* set_operating_mode: the active mode again is only told to the manager.
Switch(p, m) ==
    /\ Start(p) /\ holder = None
    /\ IF m = mode
       THEN /\ quiet' = (m = "offline") /\ stranded' = FALSE /\ proc' = [proc EXCEPT ![p] = [Idle EXCEPT !.answer = "same"]]
            /\ UNCHANGED holder
       ELSE /\ holder' = p /\ UNCHANGED <<quiet, stranded>>
            /\ Enter(p, [Idle EXCEPT !.kind = "switch", !.want = m, !.prev = mode, !.todo = Forward(m),
                                                        !.snap = IF mode = "connected" THEN links \cap recorded ELSE {}])
    /\ UNCHANGED <<mode, links, recorded, proxies, es, world, faults, events, torn>>
\* The manager does not acknowledge, whether or not it has obeyed.
SwitchUnheard(p) ==
    /\ Start(p) /\ holder = None /\ faults < MaxFaults /\ faults' = faults + 1
    /\ quiet' \in {quiet, mode = "offline"} /\ stranded' = (stranded /\ quiet')
    /\ proc' = [proc EXCEPT ![p] = [Idle EXCEPT !.answer = "failed"]]
    /\ UNCHANGED <<mode, holder, links, recorded, proxies, es, world, events, torn>>
MayRefresh == mode # "offline"
Reading == <<"scan", "read">>
\* A refresh of the catalog, or the selection of other systems.
Refresh(p) ==
    /\ Start(p) /\ MayRefresh
    /\ Enter(p, [Idle EXCEPT !.kind = "refresh", !.want = mode, !.todo = Reading])
    /\ UNCHANGED <<mode, holder, shown, world, faults, events, torn, stranded>>

\* What a step needs.
Possible(p, step) ==
    CASE step = "source" -> source
      [] step = "link" -> source /\ catalog \cap links \subseteq recorded
      [] OTHER -> TRUE
\* What it changes; part of it when it fails in the middle.
Restored(m, part) == proxies \cup (Visible(m) \cap part)
Trimmed(keep, part) == proxies \ (part \ keep)
\* A link whose target is not there cannot be verified, and stays.
Verified(part) == IF source THEN recorded \cap part ELSE {}
Unlinked(part) == links \ Verified(part)
Relinked(snap, part) == links \cup (snap \cap part)
Linked(step, part) == IF step = "link" THEN links \cup (catalog \cap part) ELSE links \ (recorded \ catalog)
Change(p, step, m, part) ==
    /\ links' = CASE step \in {"link", "record"} -> Linked(step, part)
                  [] step = "relink" -> Relinked(proc[p].snap, part)
                  [] step = "unlink" -> Unlinked(part)
                  [] OTHER -> links
    /\ proxies' = CASE step = "scan" /\ proc[p].want = "cache" -> proxies \cup (Games \cap part)
                    [] step = "clear" -> Trimmed({}, part)
                    [] step = "restore" -> Restored(m, part)
                    [] step = "trim" -> Trimmed(proc[p].visible, part)
                    [] OTHER -> proxies
    /\ catalog' = IF step = "scan" THEN catalog \cup part ELSE catalog
    /\ UNCHANGED <<cached, source>>
\* What is only there once the step is over.
Settle(p, step, m) ==
    /\ recorded' = CASE step = "record" -> catalog
                     [] step = "relink" -> proc[p].snap
                     [] step = "unlink" /\ source -> {}
                     [] OTHER -> recorded
    /\ mode' = IF step = "commit" THEN m ELSE mode
    /\ quiet' = IF step = "quiesce" THEN m = "offline" ELSE quiet
    /\ stranded' = (stranded /\ step # "quiesce")
    /\ es' = IF step = "es" THEN m # "connected" ELSE es

LeftBehind(step) == step = "unlink" /\ ~source /\ recorded # {}
Do(p) ==
    /\ Busy(p) /\ proc[p].todo # <<>>
    /\ LET step == Head(proc[p].todo)
           m == Target(p)
       IN /\ Possible(p, step)
          /\ Change(p, step, m, Games) /\ Settle(p, step, m)
          /\ proc' = [proc EXCEPT ![p].done = @ \cup {step},
                        ![p].todo = IF step = "read" THEN Reconciled(mode) ELSE Tail(@),
                        ![p].want = IF step = "read" THEN mode ELSE @,
                        ![p].visible = IF step = "restore" THEN Visible(m) ELSE @,
                        ![p].met = @ \/ LeftBehind(step)]
    /\ UNCHANGED <<holder, runs, faults, events, torn>>

\* A step fails, after part of its work: a switch rolls back, and a rollback goes on.
Fail(p) ==
    /\ Busy(p) /\ proc[p].todo # <<>>
    /\ LET step == Head(proc[p].todo)
           m == Target(p)
       IN /\ IF Possible(p, step)
             THEN /\ faults < MaxFaults /\ faults' = faults + 1
                  /\ \E part \in SUBSET Games : Change(p, step, m, part)
                  /\ UNCHANGED <<recorded, mode>>
                  /\ quiet' \in {quiet, IF step = "quiesce" THEN m = "offline" ELSE quiet}
                  /\ stranded' = IF quiet' = quiet THEN stranded ELSE "commit" \notin proc[p].done /\ ~proc[p].back
                  /\ es' \in {es, IF step = "es" THEN m # "connected" ELSE es}
             ELSE UNCHANGED <<mode, shown, world, faults, stranded>>
          /\ proc' =
               IF proc[p].kind = "refresh" THEN [proc EXCEPT ![p].todo = <<>>, ![p].err = TRUE]
               ELSE IF proc[p].back
               THEN [proc EXCEPT ![p].err = TRUE, ![p].todo = IF step \in {"commit", "quiesce"} THEN Tail(@) ELSE <<>>]
               ELSE [proc EXCEPT ![p].back = TRUE, ![p].todo = Backward(proc[p].done, proc[p].done \cup {step}, proc[p].prev)]
    /\ UNCHANGED <<holder, runs, events, torn>>

\* The answer: it succeeded, it remains in the previous mode, or the rollback is incomplete.
End(p) ==
    /\ Busy(p) /\ proc[p].todo = <<>>
    /\ LET answer == IF proc[p].err THEN "incomplete" ELSE IF proc[p].back THEN "failed" ELSE "ok"
       IN /\ proc' = [proc EXCEPT ![p] = [Idle EXCEPT !.answer = answer]]
          /\ torn' = (proc[p].met \/ answer = "incomplete" \/ (torn /\ ~(answer = "ok" /\ proc[p].kind = "switch")))
    /\ holder' = Released(p)
    /\ UNCHANGED <<mode, shown, world, runs, faults, events, stranded>>

Crash(p) ==
    /\ Busy(p) /\ faults < MaxFaults /\ faults' = faults + 1
    /\ proc' = [proc EXCEPT ![p] = Idle] /\ torn' = TRUE
    /\ holder' = Released(p)
    /\ UNCHANGED <<mode, shown, world, runs, events, stranded>>

\* The source comes and goes; games are cached and evicted; the manager is started anew and
\* reads the mode file.
World ==
    /\ events < MaxEvents /\ events' = events + 1
    /\ \/ source' = ~source /\ UNCHANGED <<cached, torn, quiet, stranded>>
       \/ /\ Free /\ mode # "offline" /\ UNCHANGED <<source, torn, quiet, stranded>>
          /\ \E g \in catalog : cached' = IF g \in cached THEN cached \ {g} ELSE cached \cup {g}
       \/ quiet' = (mode = "offline") /\ stranded' = FALSE /\ UNCHANGED <<source, cached, torn>>
    /\ UNCHANGED <<mode, holder, links, recorded, proxies, es, catalog, proc, runs, faults>>

Next ==
    \/ \E p \in Procs : \/ \E m \in Modes : Switch(p, m)
                        \/ SwitchUnheard(p) \/ Refresh(p) \/ Do(p) \/ Fail(p) \/ End(p) \/ Crash(p)
    \/ World
Spec == Init /\ [][Next]_vars

-----------------------------------------------------------------------------
(* Properties. *)

TypeOK ==
    /\ mode \in Modes /\ holder \in {None} \cup {p \in Procs : proc[p].kind = "switch"}
    /\ links \subseteq Games /\ recorded \subseteq Games /\ proxies \subseteq Games
    /\ es \in BOOLEAN /\ quiet \in BOOLEAN /\ source \in BOOLEAN /\ torn \in BOOLEAN
    /\ stranded \in BOOLEAN
    /\ catalog \subseteq Games /\ cached \subseteq Games
    /\ \A p \in Procs : proc[p].want \in Modes \cup {None} /\ proc[p].answer \in {None, "same", "ok", "failed", "incomplete"}

Presented(m) ==
    /\ es = (m # "connected")
    /\ IF m = "connected" THEN catalog \subseteq links /\ proxies = {}
       ELSE proxies = Visible(m) /\ links \cap recorded = {}
Matches(m) == Presented(m) /\ quiet = (m = "offline")

\* What is shown is what the mode file says whenever nothing runs: after a switch
\* that succeeded, after one that failed at any step and was rolled back, and after
\* a refresh; unless the rollback failed too, a process died, or two met.  So are the downloads,
\* but for one case: the manager that was asked to stop for Offline and did not answer
\* in time may have stopped, and nobody tells it to go on.
Forgotten == stranded /\ quiet /\ mode # "offline"
ShownAsStored == Free /\ ~torn => Presented(mode) /\ (quiet = (mode = "offline") \/ Forgotten)

\* A switch that says it succeeded leaves the mode asked for, one that says it
\* failed leaves the previous one, even when it started from a torn presentation.
AnswerTrueStep ==
    \A p \in Procs : holder = p /\ holder' = None /\ ~torn' =>
      /\ proc'[p].answer = "ok" => mode = proc[p].want /\ Matches(mode)
      /\ proc'[p].answer = "failed" => mode = proc[p].prev
AnswerTrue == [][AnswerTrueStep]_vars

\* No game is launched through the source while the mode is Offline.
OfflineOnlyCached == Free /\ mode = "offline" => links = {}
=============================================================================
