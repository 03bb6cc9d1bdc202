--------------------------- MODULE AutoSync_proofs ---------------------------
(***************************************************************************)
(* Proofs about AutoSync, for any games, number of writes and launches.    *)
(*                                                                         *)
(* A save that differs from its baseline is remembered because it is       *)
(* pending, or because the session that changed it still has to be heard;  *)
(* a pass that holds a plan may be overtaken by the emulator alone, and    *)
(* then the session is open.  A conflict is met once: of the two contents  *)
(* that make it, the one that is given up never comes back.                *)
(***************************************************************************)
EXTENDS AutoSync, TLAPS

-----------------------------------------------------------------------------
(* The inductive invariant.                                                *)

Early   == {"retire", "settle", "detect"}            \* of a gameStop
Passing == {"acquire", "read", "enter", "verify", "apply", "after", "fail"}
Pcs     == {"idle", "leave", "held", "spawned"} \cup Early \cup Passing

Pair  == Content \X Content
Plans == UNION {[S -> Pair] : S \in SUBSET Games}
Runs  == [pc : Pcs, pend : SUBSET Games, plan : Plans, before : SUBSET Ids, new : SUBSET Ids,
          tries : Nat, seen : Content]

Types ==
    /\ local \in [Games -> Content] /\ remote \in [Games -> Content] /\ base \in [Games -> Content]
    /\ clock \in Content
    /\ dirty \subseteq Games /\ marker \subseteq Games /\ escaped \subseteq Games /\ raced \subseteq Games
    /\ conf \in [Games -> {<<>>} \cup Pair]
    /\ queue \subseteq Ids /\ silent \subseteq Ids /\ shown \subseteq Ids
    /\ front \in {"menu", "starting", "playing", "stopping"} /\ game \in Games \cup {NoGame}
    /\ worker \in Process \cup {Nobody} /\ op \in Process \cup {Nobody}
    /\ popup \in {"off", "load", "show"}
    /\ run \in [Process -> Runs]

HookPc == run["hook"].pc
Stopping == front = "stopping"

\* One process at a time plans and applies.
LockSound == \A p \in Process : run[p].pc \in {"verify", "apply"} => op = p

\* Where the hook is when the frontend is somewhere, and which sessions are marked.
FrontSound ==
    /\ game = NoGame <=> front = "menu"
    /\ front \in {"menu", "playing"} => HookPc = "idle"
    /\ front = "starting" => HookPc \in {"enter", "verify", "apply", "after", "fail", "leave", "held"}
    /\ Stopping => HookPc \in Early \cup Passing \cup {"leave"}
    /\ \A p \in {"tick", "drain"} : run[p].pc \in Passing \cup {"idle", "spawned"}
    /\ front \in {"starting", "playing"} => game \in marker
    /\ Stopping /\ HookPc \in Passing \ {"fail"} => marker = {}
    /\ popup = "show" => ask \in shown
    /\ run["hook"].new = {}

\* The session that changed the save of a game still has to be heard, or it is one
\* of the two known losses.
Open(g) == \/ g \in marker \cup escaped
           \/ front = "playing" /\ game = g
           \/ Stopping /\ game = g /\ HookPc \in Early

\* A local change is pending, in conflict, or of an open session; and what the hook
\* compares is the save as it is, unless a pass has made it the baseline.
ChangeSound ==
    /\ \A g \in Changed : g \in dirty \cup Conflicted \/ Open(g)
    /\ HookPc = "detect" => local[game] \in {run["hook"].seen, base[game]}

\* What a pass about to promote has planned differs from the save by what an open
\* session has written.
StaleSound == \A p \in Process : At(p, "apply") => \A g \in Planned(p) :
    run[p].plan[g][1] # local[g] => g \in Changed /\ Open(g)

\* The two contents of a conflict, as they are or one of them gone for good.
Now(g, c)  == local[g] = c[1] /\ remote[g] = c[2]
Gone(g, c) == c[1] \notin {local[g], remote[g]} \/ c[2] \notin {local[g], remote[g]}

FreshSound ==
    /\ \A g \in Games : local[g] <= clock /\ remote[g] <= clock /\ base[g] <= clock
    /\ \A g \in Conflicted : conf[g][1] <= clock /\ conf[g][2] <= clock
    /\ \A p \in Process : At(p, "apply") =>
         \A g \in Planned(p) : run[p].plan[g][1] <= clock /\ run[p].plan[g][2] <= clock
    /\ \A i \in run["hook"].before : i[2] <= clock /\ i[3] <= clock

ConfSound == \A g \in Conflicted :
    /\ conf[g][1] # conf[g][2] /\ base[g] \notin {conf[g][1], conf[g][2]}
    /\ Now(g, conf[g]) \/ Gone(g, conf[g])

PlanSound == \A p \in Process : At(p, "apply") => \A g \in Planned(p) :
    /\ run[p].plan[g][1] # run[p].plan[g][2] => Now(g, run[p].plan[g]) \/ Gone(g, run[p].plan[g])
    /\ g \in Conflicted /\ conf[g] # run[p].plan[g] => Gone(g, conf[g])

\* What the hook had met before its pass is met no more once it is settled.
Id(g, c) == <<g, c[1], c[2]>>
Before == run["hook"].before
BeforeSound == Stopping =>
    /\ HookPc \in {"enter", "verify", "apply", "after"} =>
         \A g \in Games, c \in Pair : Id(g, c) \in Before => conf[g] = c \/ Gone(g, c)
    /\ HookPc = "apply" =>
         \A g \in Planned("hook") : Id(g, run["hook"].plan[g]) \in Before => conf[g] = run["hook"].plan[g]

\* Who has heard of a conflict.
Heard == queue \cup silent
PromptSound ==
    /\ HookPc \notin {"after", "fail"} => Active \subseteq Heard
    /\ Stopping /\ HookPc = "after" => Active \cap Before \subseteq Heard
    /\ front = "starting" /\ HookPc = "after" =>
         \A i \in Active : i \in Heard \/ (i[1] = game /\ game \in Planned("hook"))
    /\ front = "starting" => Planned("hook") \subseteq {game}

\* A gameStop settles everything that is pending in one pass.
DrainSound ==
    /\ Stopping /\ HookPc \in {"verify", "apply"} => dirty \subseteq Planned("hook")
    /\ Stopping /\ HookPc = "after" => dirty = {}

RaceSound == \A p \in {"tick", "drain"} :
    At(p, "apply") /\ front \in {"starting", "playing"} /\ game \in Planned(p) => game \in raced

IInv == /\ Types /\ LockSound /\ FrontSound /\ ChangeSound /\ StaleSound /\ FreshSound
        /\ ConfSound /\ PlanSound /\ BeforeSound /\ PromptSound /\ DrainSound /\ RaceSound

-----------------------------------------------------------------------------
(* Type correctness.                                                       *)

LEMMA Bounds == /\ NoGame \notin Games /\ MaxWrites \in Nat /\ Retries \in Nat /\ Observations \in Nat
                /\ Nobody \notin Process /\ 0 \in Content /\ Content \subseteq Nat
BY AutoSyncAssumption DEF Nobody, Process, Content

USE Bounds

USE DEF saves, state, frontend, locks, prompts, history

LEMMA PlanIs == ASSUME NEW f \in Plans
                PROVE  DOMAIN f \subseteq Games /\ \A g \in DOMAIN f : f[g] \in Pair
BY DEF Plans

LEMMA NoPlan == <<>> \in Plans /\ DOMAIN <<>> = {}
<1>1. DOMAIN <<>> = {}
  OBVIOUS
<1>2. <<>> \in [{} -> Pair]
  OBVIOUS
<1>3. {} \in SUBSET Games
  OBVIOUS
<1>4. QED
  BY <1>1, <1>2, <1>3 DEF Plans

LEMMA PairIs == ASSUME NEW c \in Pair
                PROVE  c # <<>> /\ c = <<c[1], c[2]>> /\ c[1] \in Content /\ c[2] \in Content
<1>1. c = <<c[1], c[2]>> /\ c[1] \in Content /\ c[2] \in Content
  BY DEF Pair
<1>2. <<c[1], c[2]>> # <<>>
  OBVIOUS
<1>3. QED
  BY <1>1, <1>2

LEMMA PairEq == ASSUME NEW c \in Pair, NEW d \in Pair, c[1] = d[1], c[2] = d[2]
                PROVE  c = d
BY DEF Pair

(* The conflicts that are recorded, by their games.                        *)
LEMMA ActiveIs ==
    ASSUME conf \in [Games -> {<<>>} \cup Pair]
    PROVE  /\ Active = {Id(g, conf[g]) : g \in Conflicted} /\ Active \subseteq Ids
           /\ \A g \in Conflicted : g \in Games /\ conf[g] \in Pair
           /\ \A i \in Active : i[1] \in Conflicted /\ i = Id(i[1], conf[i[1]])
           /\ \A g \in Games, c \in Pair : Id(g, c) \in Active <=> conf[g] = c
<1>1. \A g \in Conflicted : g \in Games /\ conf[g] \in Pair
  BY DEF Conflicted
<1>2. Active = {Id(g, conf[g]) : g \in Conflicted}
  BY DEF Active, Id
<1>3. \A i \in Active : i[1] \in Conflicted /\ i = Id(i[1], conf[i[1]])
  BY <1>2 DEF Id
<1>4. Active \subseteq Ids
  BY <1>1, <1>3 DEF Id, Ids, Pair
<1>5. ASSUME NEW g \in Games, NEW c \in Pair PROVE Id(g, c) \in Active <=> conf[g] = c
  <2>1. ASSUME conf[g] = c PROVE Id(g, c) \in Active
    BY <1>2, <2>1, PairIs DEF Conflicted
  <2>2. ASSUME Id(g, c) \in Active PROVE conf[g] = c
    <3>1. g \in Conflicted /\ Id(g, c) = Id(g, conf[g])
      BY <1>3, <2>2 DEF Id
    <3>2. QED
      BY <1>1, <3>1, PairEq DEF Id
  <2>3. QED
    BY <2>1, <2>2
<1>6. QED
  BY <1>1, <1>2, <1>3, <1>4, <1>5

(* A process that starts again.                                            *)
LEMMA IdleIs ==
    /\ Idle \in Runs /\ Idle.pc = "idle"
    /\ \A x \in Pcs : /\ [Idle EXCEPT !.pc = x] \in Runs /\ [Idle EXCEPT !.pc = x].pc = x
                      /\ [Idle EXCEPT !.pc = x].plan = <<>> /\ [Idle EXCEPT !.pc = x].before = {}
                      /\ [Idle EXCEPT !.pc = x].new = {}
    /\ Idle.plan = <<>> /\ Idle.before = {} /\ Idle.new = {}
<1>1. Idle = [pc |-> "idle", pend |-> {}, plan |-> <<>>, before |-> {}, new |-> {}, tries |-> 0,
              seen |-> 0]
  BY DEF Idle
<1>2. "idle" \in Pcs /\ <<>> \in Plans
  BY NoPlan DEF Pcs
<1>3. Idle \in Runs
  BY <1>1, <1>2 DEF Runs
<1>4. QED
  BY <1>1, <1>3 DEF Runs

(* A process that goes on.                                                 *)
LEMMA GotoIs ==
    ASSUME Types, NEW p \in Process, NEW x \in Pcs, Goto(p, x)
    PROVE  /\ run' \in [Process -> Runs] /\ \A q \in Process : q # p => run'[q] = run[q]
           /\ run'[p].pc = x /\ run'[p].plan = run[p].plan /\ run'[p].before = run[p].before
           /\ run'[p].new = run[p].new /\ run'[p].seen = run[p].seen
<1>1. run \in [Process -> Runs]
  BY DEF Types
<1>2. run' = [run EXCEPT ![p] = [run[p] EXCEPT !.pc = x]]
  BY DEF Goto
<1>3. run[p] \in Runs
  BY <1>1
<1>4. QED
  BY <1>1, <1>2, <1>3 DEF Runs

(* A process that starts at another place.                                 *)
LEMMA RestartIs ==
    ASSUME Types, NEW p \in Process, NEW x \in Pcs, run' = [run EXCEPT ![p] = [Idle EXCEPT !.pc = x]]
    PROVE  /\ run' \in [Process -> Runs] /\ \A q \in Process : q # p => run'[q] = run[q]
           /\ run'[p].pc = x /\ run'[p].plan = <<>> /\ run'[p].before = {} /\ run'[p].new = {}
<1>1. run \in [Process -> Runs]
  BY DEF Types
<1>2. run'[p] = [Idle EXCEPT !.pc = x]
  BY <1>1
<1>3. QED
  BY <1>1, <1>2, IdleIs

LEMMA EndIs ==
    ASSUME Types, NEW p \in Process, run' = [run EXCEPT ![p] = After(p)]
    PROVE  /\ run' \in [Process -> Runs] /\ \A q \in Process : q # p => run'[q] = run[q]
           /\ run'[p].pc = IF p = "hook" THEN "leave" ELSE "idle"
           /\ run'[p].plan = <<>> /\ run'[p].before = {} /\ run'[p].new = {}
<1>1. run \in [Process -> Runs] /\ "leave" \in Pcs
  BY DEF Types, Pcs
<1>2. run'[p] = After(p)
  BY <1>1
<1>3. QED
  BY <1>1, <1>2, IdleIs DEF After

LEMMA InitInv == Init => IInv
<1> SUFFICES ASSUME Init PROVE IInv
  OBVIOUS
<1> USE DEF Init
<1>1. /\ run \in [Process -> Runs] /\ \A p \in Process : run[p] = Idle
      /\ "hook" \in Process /\ "tick" \in Process /\ "drain" \in Process
  BY IdleIs DEF Process
<1>2. \A p \in Process : run[p].pc = "idle" /\ run[p].plan = <<>> /\ run[p].before = {}
                         /\ run[p].new = {}
  BY <1>1, IdleIs
<1>3. Conflicted = {} /\ Changed = {} /\ Active = {}
  BY DEF Conflicted, Changed, Active
<1>4. Types
  BY <1>1 DEF Types
<1>5. LockSound /\ FrontSound /\ ChangeSound
  BY <1>1, <1>2, <1>3 DEF LockSound, FrontSound, ChangeSound, HookPc, Stopping
<1>6. StaleSound /\ FreshSound /\ ConfSound /\ PlanSound
  BY <1>1, <1>2, <1>3 DEF StaleSound, FreshSound, ConfSound, PlanSound, At
<1>7. BeforeSound /\ PromptSound /\ DrainSound /\ RaceSound
  BY <1>1, <1>2, <1>3, NoPlan DEF BeforeSound, PromptSound, DrainSound, RaceSound, At, HookPc, Stopping,
     Planned
<1>8. QED
  BY <1>4, <1>5, <1>6, <1>7 DEF IInv

LEMMA HookIs == "hook" \in Process /\ "tick" \in Process /\ "drain" \in Process
                /\ \A p \in Process : p = "hook" \/ p \in {"tick", "drain"}
BY DEF Process

LEMMA PcsAre == /\ "idle" \in Pcs /\ "leave" \in Pcs /\ "held" \in Pcs /\ "spawned" \in Pcs
                /\ "retire" \in Pcs /\ "settle" \in Pcs /\ "detect" \in Pcs /\ "acquire" \in Pcs
                /\ "read" \in Pcs /\ "enter" \in Pcs /\ "verify" \in Pcs /\ "apply" \in Pcs
                /\ "after" \in Pcs /\ "fail" \in Pcs
BY DEF Pcs, Early, Passing

(* The frontend, the emulators and the peers.                              *)
LEMMA FrontTypes ==
    ASSUME Types, FrontSound,
           \/ Play \/ EmulatorWrites \/ Exit \/ Return \/ FrontendDies \/ PowerLoss
           \/ \E g \in Games : Launch(g) \/ PeerWrites(g)
    PROVE  Types'
<1>0. run \in [Process -> Runs]
  BY DEF Types
<1>1. ASSUME NEW g \in Games, Launch(g) PROVE Types'
  <2>1. run' \in [Process -> Runs]
    <3>1. PICK pc \in {"enter", "leave"} : run' = [run EXCEPT !["hook"] = [Idle EXCEPT !.pc = pc]]
      BY <1>1 DEF Launch
    <3>2. QED
      BY <3>1, HookIs, PcsAre, RestartIs
  <2>2. raced' \subseteq Games
    BY <1>1 DEF Launch, Types
  <2>3. QED
    BY <1>1, <2>1, <2>2 DEF Launch, Types
<1>2. CASE Play \/ Return
  <2>1. run' \in [Process -> Runs]
    BY <1>0, <1>2, IdleIs DEF Play, Return
  <2>2. QED
    BY <1>2, <2>1 DEF Play, Return, Types
<1>3. CASE EmulatorWrites
  <2>1. clock' \in Content /\ clock + 1 \in Content
    BY <1>3 DEF EmulatorWrites, Types, Content
  <2>2. QED
    BY <1>3, <2>1 DEF EmulatorWrites, Types
<1>4. ASSUME NEW g \in Games, PeerWrites(g) PROVE Types'
  <2>1. clock' \in Content /\ clock + 1 \in Content
    BY <1>4 DEF PeerWrites, Types, Content
  <2>2. QED
    BY <1>4, <2>1 DEF PeerWrites, Types
<1>5. CASE Exit
  <2>1. run' \in [Process -> Runs]
    BY <1>5, HookIs, PcsAre, RestartIs DEF Exit
  <2>2. QED
    BY <1>5, <2>1 DEF Exit, Types
<1>6. CASE FrontendDies
  BY <1>6 DEF FrontendDies, Types
<1>7. CASE PowerLoss
  <2>1. run' \in [Process -> Runs]
    BY <1>7, IdleIs DEF PowerLoss
  <2>2. escaped' \subseteq Games /\ silent' \subseteq Ids
    BY <1>7, ActiveIs DEF PowerLoss, Types, Changed
  <2>3. QED
    BY <1>7, <2>1, <2>2 DEF PowerLoss, Types
<1>8. QED
  BY <1>1, <1>2, <1>3, <1>4, <1>5, <1>6, <1>7

(* The gameStop hook, the end of a gameStart, and the popup.               *)
LEMMA HookTypes ==
    ASSUME Types, FrontSound,
           \/ RetireMarker \/ Settle \/ Detect \/ ConcludeStart \/ Released \/ Tick \/ Drain
           \/ Load \/ Later \/ Answer \/ ResolveByHand \/ Close
    PROVE  Types'
<1>0. run \in [Process -> Runs] /\ run["hook"] \in Runs
  BY HookIs DEF Types
<1>g. HookPc \in {"settle", "retire", "detect"} => game \in Games
  BY DEF FrontSound, Types
<1>s. game \in Games => local[game] \in Content
  BY DEF Types
<1>1. CASE RetireMarker
  <2>1. run'["hook"] \in Runs
    BY <1>0, <1>1, <1>g, <1>s, HookIs, PcsAre DEF RetireMarker, At, HookPc, Runs
  <2>2. run' \in [Process -> Runs]
    BY <1>0, <1>1, <2>1, HookIs DEF RetireMarker
  <2>3. QED
    BY <1>1, <2>2 DEF RetireMarker, Types
<1>2. CASE Settle
  <2>1. run' \in [Process -> Runs]
    <3>1. CASE Goto("hook", "detect") \/ Goto("hook", "leave")
      BY <3>1, HookIs, PcsAre, GotoIs
    <3>2. CASE ~(Goto("hook", "detect") \/ Goto("hook", "leave"))
      <4>1. /\ run' = [run EXCEPT !["hook"].tries = @ + 1, !["hook"].seen = local[game]]
            /\ HookPc = "settle"
        BY <1>2, <3>2 DEF Settle, At, HookPc
      <4>2. run' = [run EXCEPT !["hook"] = [run["hook"] EXCEPT !.tries = @ + 1, !.seen = local[game]]]
        BY <1>0, <4>1, HookIs
      <4>3. [run["hook"] EXCEPT !.tries = @ + 1, !.seen = local[game]] \in Runs
        <5>1. run["hook"].tries + 1 \in Nat /\ local[game] \in Content
          BY <1>0, <1>g, <1>s, <4>1 DEF Runs
        <5>2. QED
          BY <1>0, <5>1 DEF Runs
      <4>4. QED
        BY <1>0, <4>2, <4>3
    <3>3. QED
      BY <3>1, <3>2
  <2>2. escaped' \subseteq Games
    BY <1>2 DEF Settle, Types, Changed
  <2>3. QED
    BY <1>2, <2>1, <2>2 DEF Settle, Types
<1>3. CASE Detect
  <2>1. run' \in [Process -> Runs]
    <3>1. PICK x \in {"leave", "acquire"} : run' = [run EXCEPT !["hook"] = [Idle EXCEPT !.pc = x]]
      BY <1>3 DEF Detect
    <3>2. QED
      BY <3>1, HookIs, PcsAre, RestartIs
  <2>2. dirty' \subseteq Games /\ escaped' \subseteq Games
    BY <1>3, <1>g DEF Detect, At, HookPc, Types
  <2>3. QED
    BY <1>3, <2>1, <2>2 DEF Detect, Types
<1>4. CASE ConcludeStart
  <2>1. run' \in [Process -> Runs]
    <3>1. Goto("hook", "leave") \/ Goto("hook", "held")
      BY <1>4 DEF ConcludeStart
    <3>2. QED
      BY <3>1, HookIs, PcsAre, GotoIs
  <2>2. queue' \subseteq Ids
    BY <1>4, ActiveIs DEF ConcludeStart, Types
  <2>3. popup' \in {"off", "load", "show"}
    BY <1>4 DEF ConcludeStart, Types
  <2>4. QED
    BY <1>4, <2>1, <2>2, <2>3 DEF ConcludeStart, Types
<1>5. CASE Released
  <2>1. run' \in [Process -> Runs]
    BY <1>5, HookIs, PcsAre, GotoIs DEF Released
  <2>2. QED
    BY <1>5, <2>1 DEF Released, Types
<1>6. CASE Tick
  <2>1. run' \in [Process -> Runs]
    BY <1>6, HookIs, PcsAre, RestartIs DEF Tick
  <2>2. QED
    BY <1>6, <2>1 DEF Tick, Types
<1>7. CASE Drain
  <2>1. run' \in [Process -> Runs]
    BY <1>0, <1>7, HookIs, PcsAre, IdleIs DEF Drain
  <2>2. QED
    BY <1>7, <2>1 DEF Drain, Types
<1>8. CASE Load
  <2>1. queue' \subseteq Ids /\ shown' \subseteq Ids /\ popup' \in {"off", "load", "show"}
    BY <1>8 DEF Load, Types
  <2>2. QED
    BY <1>8, <2>1 DEF Load, Types
<1>a. Advance => shown' \subseteq Ids /\ popup' \in {"off", "load", "show"}
  BY DEF Advance, Types
<1>r. ASSUME NEW i \in Active, Resolve(i)
      PROVE  /\ local' \in [Games -> Content] /\ remote' \in [Games -> Content]
             /\ base' \in [Games -> Content] /\ conf' \in [Games -> {<<>>} \cup Pair]
             /\ dirty' \subseteq Games /\ escaped' \subseteq Games /\ queue' \subseteq Ids
             /\ UNCHANGED <<clock, frontend, run, locks, raced, silent>>
  BY <1>r, ActiveIs DEF Resolve, Settled, Types
<1>9. CASE Later
  <2>1. silent' \subseteq Ids /\ queue' \subseteq Ids
    BY <1>9 DEF Later, Answerable, Types
  <2>2. QED
    BY <1>9, <1>a, <2>1 DEF Later, Types
<1>10. CASE Answer
  <2>1. ask \in Active
    BY <1>10 DEF Answer, Answerable
  <2>2. QED
    BY <1>10, <1>a, <1>r, <2>1 DEF Answer, Types
<1>11. CASE ResolveByHand
  BY <1>11, <1>r DEF ResolveByHand, Types
<1>12. CASE Close
  BY <1>12 DEF Close, Types
<1>13. QED
  BY <1>1, <1>2, <1>3, <1>4, <1>5, <1>6, <1>7, <1>8, <1>9, <1>10, <1>11, <1>12

-----------------------------------------------------------------------------
(* What each step of a pass makes of the process that takes it.            *)

\* Nothing but the process p has moved, and it is now at one of these places.
Moved(p, S) == /\ run' \in [Process -> Runs] /\ \A q \in Process : q # p => run'[q] = run[q]
               /\ run'[p].pc \in S
\* It has forgotten its plan, or it goes on with it.
Blank(p) == run'[p].plan = <<>> /\ run'[p].before = {} /\ run'[p].new = {}
Same(p)  == run'[p].plan = run[p].plan /\ run'[p].before = run[p].before /\ run'[p].new = run[p].new
Ended(p) == Moved(p, {IF p = "hook" THEN "leave" ELSE "idle"}) /\ Blank(p)

LEMMA EndedIs == ASSUME Types, NEW p \in Process, run' = [run EXCEPT ![p] = After(p)]
                 PROVE  Ended(p)
BY EndIs DEF Ended, Moved, Blank

LEMMA MovedIs == ASSUME Types, NEW p \in Process, NEW x \in Pcs, Goto(p, x)
                 PROVE  Moved(p, {x}) /\ Same(p)
BY GotoIs DEF Moved, Same

LEMMA AcquireIs ==
    ASSUME Types, NEW p \in Process, Acquire(p)
    PROVE  \/ marker # {} /\ Ended(p) /\ worker' = worker
           \/ marker = {} /\ Moved(p, {"read"}) /\ Same(p) /\ worker' = p
BY PcsAre, EndedIs, MovedIs DEF Acquire

LEMMA BusyIs ==
    ASSUME Types, NEW p \in Process, Busy(p)
    PROVE  /\ run' \in [Process -> Runs]
           /\ run'[p].pc = IF p = "hook" THEN "leave" ELSE "idle"
           /\ \A q \in Process : q # p => run'[q] = run[q] \/ (run'[q].pc = "spawned" /\ Blank(q))
           /\ Blank(p) /\ (p # "hook" => run'["hook"] = run["hook"])
<1>1. run \in [Process -> Runs] /\ [Idle EXCEPT !.pc = "spawned"] \in Runs /\ After(p) \in Runs
  BY PcsAre, IdleIs DEF Types, After
<1>2. \A q \in Process :
        run'[q] = IF q = p THEN After(p)
                  ELSE IF p = "hook" /\ q = "drain" /\ At("drain", "idle")
                       THEN [Idle EXCEPT !.pc = "spawned"] ELSE run[q]
  BY DEF Busy
<1>3. run' \in [Process -> Runs]
  BY <1>1, <1>2 DEF Busy
<1>4. /\ After(p).pc = IF p = "hook" THEN "leave" ELSE "idle"
      /\ After(p).plan = <<>> /\ After(p).before = {} /\ After(p).new = {}
      /\ [Idle EXCEPT !.pc = "spawned"].pc = "spawned" /\ [Idle EXCEPT !.pc = "spawned"].plan = <<>>
      /\ [Idle EXCEPT !.pc = "spawned"].before = {} /\ [Idle EXCEPT !.pc = "spawned"].new = {}
  BY PcsAre, IdleIs DEF After
<1>5. Blank(p) /\ run'[p].pc = IF p = "hook" THEN "leave" ELSE "idle"
  BY <1>2, <1>4 DEF Blank
<1>6. \A q \in Process : q # p => run'[q] = run[q] \/ (run'[q].pc = "spawned" /\ Blank(q))
  BY <1>2, <1>4 DEF Blank
<1>7. p # "hook" => run'["hook"] = run["hook"]
  BY <1>2, HookIs
<1>8. QED
  BY <1>3, <1>5, <1>6, <1>7

LEMMA PassIs ==
    ASSUME Types, NEW p \in Process, Pass(p)
    PROVE  \/ Moved(p, {"enter"}) /\ run'[p].plan = run[p].plan /\ run'[p].before = Active
              /\ run'[p].new = run[p].new /\ UNCHANGED locks
           \/ game \in dirty /\ Ended(p) /\ worker' = Nobody /\ UNCHANGED op
<1>1. CASE run' = [run EXCEPT ![p] = [@ EXCEPT !.pc = "enter", !.pend = dirty, !.before = Active]]
           /\ UNCHANGED locks
  <2>1. run[p] \in Runs /\ run \in [Process -> Runs] /\ Active \subseteq Ids /\ dirty \subseteq Games
    BY ActiveIs DEF Types
  <2>2. run'[p] = [run[p] EXCEPT !.pc = "enter", !.pend = dirty, !.before = Active]
    BY <1>1, <2>1
  <2>3. run'[p] \in Runs
    BY <2>1, <2>2, PcsAre DEF Runs
  <2>4. /\ run'[p].pc = "enter" /\ run'[p].plan = run[p].plan /\ run'[p].before = Active
        /\ run'[p].new = run[p].new
    BY <2>1, <2>2 DEF Runs
  <2>5. QED
    BY <1>1, <2>1, <2>3, <2>4 DEF Moved
<1>2. CASE game \in dirty /\ run' = [run EXCEPT ![p] = After(p)] /\ worker' = Nobody /\ UNCHANGED op
  BY <1>2, EndedIs
<1>3. QED
  BY <1>1, <1>2 DEF Pass

LEMMA EnterIs ==
    ASSUME Types, NEW p \in Process, Enter(p)
    PROVE  /\ Selected(p) \subseteq Games /\ op = Nobody
           /\ run'[p].before = run[p].before /\ run'[p].new = run[p].new
           /\ \/ /\ Selected(p) \ Excluded(p) = {} /\ run'[p].plan = run[p].plan /\ op' = Nobody
                 /\ Moved(p, {IF Selected(p) = {} THEN "after" ELSE "fail"})
              \/ /\ Moved(p, {"verify"}) /\ op' = p
                 /\ DOMAIN run'[p].plan = Selected(p) \ Excluded(p)
                 /\ \A g \in DOMAIN run'[p].plan : run'[p].plan[g] = <<local[g], remote[g]>>
<1>1. Selected(p) \subseteq Games /\ op = Nobody
  BY DEF Selected, Enter, Types, Conflicted, Pull
<1> DEFINE todo == Selected(p) \ Excluded(p)
<1>2. CASE todo = {}
  <2>1. Goto(p, IF Selected(p) = {} THEN "after" ELSE "fail") /\ UNCHANGED op
    BY <1>2 DEF Enter
  <2>2. Moved(p, {IF Selected(p) = {} THEN "after" ELSE "fail"}) /\ Same(p)
    BY <2>1, PcsAre, MovedIs
  <2>3. QED
    BY <1>1, <1>2, <2>1, <2>2 DEF Same
<1>3. CASE todo # {}
  <2>1. /\ op' = p
        /\ run' = [run EXCEPT ![p] = [@ EXCEPT !.pc = "verify",
                        !.plan = [g \in todo |-> <<local[g], remote[g]>>]]]
    BY <1>3 DEF Enter
  <2> DEFINE f == [g \in todo |-> <<local[g], remote[g]>>]
  <2>2. f \in Plans
    <3>1. todo \in SUBSET Games
      BY <1>1
    <3>2. f \in [todo -> Pair]
      BY <3>1 DEF Types, Pair
    <3>3. QED
      BY <3>1, <3>2 DEF Plans
  <2>3. run[p] \in Runs /\ run \in [Process -> Runs]
    BY DEF Types
  <2>4. run'[p] = [run[p] EXCEPT !.pc = "verify", !.plan = f]
    BY <2>1, <2>3
  <2> HIDE DEF f
  <2>5. run'[p] \in Runs /\ run'[p].pc = "verify" /\ run'[p].plan = f
        /\ run'[p].before = run[p].before /\ run'[p].new = run[p].new
    BY <2>2, <2>3, <2>4, PcsAre DEF Runs
  <2>6. Moved(p, {"verify"})
    BY <2>1, <2>3, <2>5 DEF Moved
  <2>7. DOMAIN f = todo /\ \A g \in todo : f[g] = <<local[g], remote[g]>>
    BY DEF f
  <2>8. QED
    BY <1>1, <2>1, <2>5, <2>6, <2>7
<1>4. QED
  BY <1>2, <1>3

LEMMA RestageIs ==
    ASSUME Types, NEW p \in Process, Restage(p)
    PROVE  /\ ~Intact(p) /\ op' = Nobody
           /\ Moved(p, IF p = "hook" /\ Starting THEN {"fail"} ELSE {"enter", "fail"})
           /\ run'[p].plan = <<>> /\ run'[p].before = run[p].before /\ run'[p].new = run[p].new
<1>1. run[p] \in Runs /\ run \in [Process -> Runs]
  BY DEF Types
<1>2. /\ ~Intact(p) /\ op' = Nobody
      /\ \/ /\ ~(p = "hook" /\ Starting)
            /\ run' = [run EXCEPT ![p] = [run[p] EXCEPT !.pc = "enter", !.plan = <<>>, !.tries = @ + 1]]
         \/ run' = [run EXCEPT ![p] = [run[p] EXCEPT !.pc = "fail", !.plan = <<>>]]
  BY <1>1 DEF Restage
<1>3. CASE /\ ~(p = "hook" /\ Starting)
           /\ run' = [run EXCEPT ![p] = [run[p] EXCEPT !.pc = "enter", !.plan = <<>>, !.tries = @ + 1]]
  <2>1. run'[p] = [run[p] EXCEPT !.pc = "enter", !.plan = <<>>, !.tries = @ + 1]
    BY <1>1, <1>3
  <2>2. run[p].tries + 1 \in Nat
    BY <1>1 DEF Runs
  <2>3. run'[p] \in Runs /\ run'[p].pc = "enter" /\ run'[p].plan = <<>>
        /\ run'[p].before = run[p].before /\ run'[p].new = run[p].new
    BY <1>1, <2>1, <2>2, PcsAre, NoPlan DEF Runs
  <2>4. QED
    BY <1>1, <1>2, <1>3, <2>3 DEF Moved
<1>4. CASE run' = [run EXCEPT ![p] = [run[p] EXCEPT !.pc = "fail", !.plan = <<>>]]
  <2>1. run'[p] = [run[p] EXCEPT !.pc = "fail", !.plan = <<>>]
    BY <1>1, <1>4
  <2>2. run'[p] \in Runs /\ run'[p].pc = "fail" /\ run'[p].plan = <<>>
        /\ run'[p].before = run[p].before /\ run'[p].new = run[p].new
    BY <1>1, <2>1, PcsAre, NoPlan DEF Runs
  <2>3. QED
    BY <1>1, <1>2, <1>4, <2>2 DEF Moved
<1>5. QED
  BY <1>2, <1>3, <1>4

LEMMA VerifyIs ==
    ASSUME Types, NEW p \in Process, Verify(p)
    PROVE  \/ /\ op' = Nobody
              /\ Moved(p, IF p = "hook" /\ Starting THEN {"fail"} ELSE {"enter", "fail"})
              /\ run'[p].plan = <<>> /\ run'[p].before = run[p].before /\ run'[p].new = run[p].new
           \/ /\ Intact(p) /\ Planned(p) \cap Excluded(p) = {} /\ op' = op
              /\ Moved(p, {"apply"}) /\ Same(p)
<1>1. CASE Restage(p)
  BY <1>1, RestageIs
<1>2. CASE /\ Planned(p) \cap Excluded(p) # {} /\ op' = Nobody
           /\ run' = [run EXCEPT ![p] = [@ EXCEPT !.pc = "fail", !.plan = <<>>]]
  <2>1. run[p] \in Runs /\ run \in [Process -> Runs]
    BY DEF Types
  <2>2. run'[p] = [run[p] EXCEPT !.pc = "fail", !.plan = <<>>]
    BY <1>2, <2>1
  <2>3. run'[p] \in Runs /\ run'[p].pc = "fail" /\ run'[p].plan = <<>>
        /\ run'[p].before = run[p].before /\ run'[p].new = run[p].new
    BY <2>1, <2>2, PcsAre, NoPlan DEF Runs
  <2>4. QED
    BY <1>2, <2>1, <2>3 DEF Moved
<1>3. CASE Intact(p) /\ Planned(p) \cap Excluded(p) = {} /\ Goto(p, "apply") /\ UNCHANGED op
  BY <1>3, PcsAre, MovedIs
<1>4. QED
  BY <1>1, <1>2, <1>3 DEF Verify

LEMMA FailIs ==
    ASSUME Types, NEW p \in Process, Fail(p)
    PROVE  Ended(p)
BY EndedIs DEF Fail

NewOf(p) == IF p = "hook" THEN run[p].new \cup (Active \ Before) ELSE {}
LEMMA ConcludeIs ==
    ASSUME Types, NEW p \in Process, Conclude(p)
    PROVE  /\ At(p, "after") /\ ~(p = "hook" /\ Starting)
           /\ \/ p = "hook" /\ dirty # {} /\ Moved(p, {"fail"}) /\ Same(p) /\ UNCHANGED <<worker, prompts>>
              \/ /\ dirty # {} /\ Moved(p, {"read"}) /\ UNCHANGED <<worker, prompts>>
                 /\ run'[p].plan = <<>> /\ run'[p].before = {} /\ run'[p].new = NewOf(p)
              \/ /\ Ended(p) /\ worker' = Nobody /\ queue' = queue \cup (NewOf(p) \cap Active)
                 /\ UNCHANGED <<shown, ask>> /\ (popup' = popup \/ popup' = "load")
<1>0. run[p] \in Runs /\ run \in [Process -> Runs]
  BY DEF Types
<1> DEFINE stuck == dirty = run[p].pend /\ dirty # {}
<1>1. At(p, "after") /\ ~(p = "hook" /\ Starting)
  BY DEF Conclude
<1>n. NewOf(p) = (IF p = "hook" THEN run[p].new \cup (Active \ run[p].before) ELSE {})
  BY DEF NewOf, Before
<1>2. CASE p = "hook" /\ stuck
  <2>1. Goto(p, "fail") /\ UNCHANGED <<worker, prompts>>
    BY <1>2 DEF Conclude
  <2>2. QED
    BY <1>1, <1>2, <2>1, PcsAre, MovedIs
<1>3. CASE dirty # {} /\ ~stuck
  <2>1. /\ run' = [run EXCEPT ![p] = [Idle EXCEPT !.pc = "read", !.new = NewOf(p)]]
        /\ UNCHANGED <<worker, prompts>>
    BY <1>3, <1>n DEF Conclude
  <2>2. NewOf(p) \subseteq Ids
    <3>1. run[p].new \subseteq Ids
      BY <1>0 DEF Runs
    <3>2. Active \subseteq Ids
      BY ActiveIs DEF Types
    <3>3. QED
      BY <3>1, <3>2 DEF NewOf
  <2>3. run'[p] = [Idle EXCEPT !.pc = "read", !.new = NewOf(p)]
    BY <1>0, <2>1
  <2>4. run'[p] \in Runs /\ run'[p].pc = "read" /\ run'[p].plan = <<>> /\ run'[p].before = {}
        /\ run'[p].new = NewOf(p)
    <3>1. Idle \in Runs /\ Idle.plan = <<>> /\ Idle.before = {} /\ "read" \in Pcs
      BY PcsAre, IdleIs
    <3> DEFINE i == Idle
    <3>2. i \in Runs /\ run'[p] = [i EXCEPT !.pc = "read", !.new = NewOf(p)]
      BY <2>3, <3>1
    <3> HIDE DEF i
    <3>3. run'[p] \in Runs /\ run'[p].pc = "read" /\ run'[p].plan = i.plan /\ run'[p].before = i.before
          /\ run'[p].new = NewOf(p)
      BY <2>2, <3>1, <3>2 DEF Runs
    <3>4. QED
      BY <3>1, <3>3 DEF i
  <2>5. QED
    BY <1>0, <1>1, <1>3, <2>1, <2>4 DEF Moved
<1>4. CASE ~(p = "hook" /\ stuck) /\ ~(dirty # {} /\ ~stuck)
  <2>1. /\ worker' = Nobody /\ run' = [run EXCEPT ![p] = After(p)]
        /\ queue' = queue \cup (NewOf(p) \cap Active)
        /\ (UNCHANGED popup \/ popup' = "load") /\ UNCHANGED <<shown, ask>>
    BY <1>4, <1>n DEF Conclude
  <2>2. QED
    BY <1>1, <2>1, EndedIs
<1>5. QED
  BY <1>2, <1>3, <1>4

-----------------------------------------------------------------------------
(* What a promotion does to each game.                                     *)

Refused(p) == /\ op' = Nobody /\ Moved(p, {"fail"}) /\ run'[p].plan = <<>>
              /\ run'[p].before = run[p].before /\ run'[p].new = run[p].new
              /\ UNCHANGED <<saves, state, frontend, worker, prompts, faults, history>>

Kept(g)     == local'[g] = local[g] /\ remote'[g] = remote[g]
\* The four decisions, of the game g whose two sides were planned as c.
AsSame(g, c)     == c[1] = c[2] /\ Kept(g) /\ base'[g] = c[1] /\ conf'[g] = <<>>
AsUpload(g, c)   == /\ c[1] # c[2] /\ c[2] = base[g] /\ Now(g, c)
                    /\ local'[g] = c[1] /\ remote'[g] = c[1] /\ base'[g] = c[1] /\ conf'[g] = <<>>
AsDownload(g, c) == /\ c[1] # c[2] /\ c[1] = base[g] /\ c[2] # base[g] /\ Now(g, c)
                    /\ local'[g] = c[2] /\ remote'[g] = c[2] /\ base'[g] = c[2] /\ conf'[g] = <<>>
AsConflict(g, c) == /\ c[1] # c[2] /\ base[g] \notin {c[1], c[2]} /\ Kept(g)
                    /\ base'[g] = base[g] /\ conf'[g] = c
Untouched(g)     == Kept(g) /\ base'[g] = base[g] /\ conf'[g] = conf[g]

Applied(p) ==
    /\ op' = Nobody /\ Moved(p, {"after"}) /\ Same(p)
    /\ \A g \in Games \ Planned(p) : Untouched(g)
    /\ \A g \in Planned(p) : \/ AsSame(g, run[p].plan[g]) \/ AsUpload(g, run[p].plan[g])
                             \/ AsDownload(g, run[p].plan[g]) \/ AsConflict(g, run[p].plan[g])
    /\ dirty' = dirty \ Planned(p)
    /\ silent \subseteq silent' /\ (p = "hook" => silent' = silent)
    /\ p # "hook" => \A g \in Planned(p) : conf'[g] # <<>> => Id(g, conf'[g]) \in silent'
    /\ escaped' = escaped \ {g \in Planned(p) : run[p].plan[g][1] = local[g]}
    /\ UNCHANGED <<clock, frontend, worker, prompts, faults, raced>>

LEMMA ApplyIs ==
    ASSUME Types, NEW p \in Process, Apply(p)
    PROVE  At(p, "apply") /\ Types' /\ (Refused(p) \/ Applied(p))
<1>0. run[p] \in Runs /\ run \in [Process -> Runs]
  BY DEF Types
<1>a. At(p, "apply")
  BY DEF Apply, ApplyUnchecked
<1>1. CASE /\ op' = Nobody /\ run' = [run EXCEPT ![p] = [@ EXCEPT !.pc = "fail", !.plan = <<>>]]
           /\ UNCHANGED <<saves, state, frontend, worker, prompts, faults, history>>
  <2>1. run'[p] = [run[p] EXCEPT !.pc = "fail", !.plan = <<>>]
    BY <1>0, <1>1
  <2>2. run'[p] \in Runs /\ run'[p].pc = "fail" /\ run'[p].plan = <<>>
        /\ run'[p].before = run[p].before /\ run'[p].new = run[p].new
    BY <1>0, <2>1, PcsAre, NoPlan DEF Runs
  <2>3. Refused(p)
    BY <1>0, <1>1, <2>2 DEF Refused, Moved
  <2>4. Types'
    BY <1>1, <2>3 DEF Refused, Moved, Types
  <2>5. QED
    BY <1>a, <2>3, <2>4
<1>2. CASE /\ \A g \in Replaced(p) : run[p].plan[g] = <<local[g], remote[g]>>
           /\ ApplyUnchecked(p)
  <2> DEFINE plan == run[p].plan
             D(g) == IF g \in DOMAIN plan THEN Decision(g, plan[g][1], plan[g][2]) ELSE "none"
  <2>1. /\ op' = Nobody /\ Goto(p, "after")
        /\ remote' = [g \in Games |-> IF D(g) = "upload" THEN plan[g][1] ELSE remote[g]]
        /\ local' = [g \in Games |-> IF D(g) = "download" THEN plan[g][2] ELSE local[g]]
        /\ base' = [g \in Games |-> CASE D(g) \in {"same", "upload"} -> plan[g][1]
                                      [] D(g) = "download" -> plan[g][2] [] OTHER -> base[g]]
        /\ conf' = [g \in Games |-> CASE D(g) = "conflict" -> plan[g]
                                      [] D(g) = "none" -> conf[g] [] OTHER -> <<>>]
        /\ dirty' = dirty \ DOMAIN plan
        /\ silent' = IF p = "hook" THEN silent
                     ELSE silent \cup {<<g, plan[g][1], plan[g][2]>> : g \in {h \in DOMAIN plan : D(h) = "conflict"}}
        /\ escaped' = escaped \ {g \in DOMAIN plan : plan[g][1] = local[g]}
        /\ UNCHANGED <<clock, frontend, worker, prompts, faults, raced>>
    BY <1>2 DEF ApplyUnchecked
  <2>2. Moved(p, {"after"}) /\ Same(p)
    BY <2>1, PcsAre, MovedIs
  <2>3. /\ DOMAIN plan \subseteq Games /\ Planned(p) = DOMAIN plan
        /\ \A g \in DOMAIN plan : plan[g] \in Pair /\ plan[g][1] \in Content /\ plan[g][2] \in Content
    <3>1. plan \in Plans
      BY <1>0 DEF Runs
    <3>2. QED
      BY <3>1, PlanIs, PairIs DEF Planned
  <2>4. \A g \in Games : D(g) \in {"none", "same", "upload", "download", "conflict"}
    BY DEF Decision
  <2>5. \A g \in Games \ Planned(p) : Untouched(g)
    <3>1. TAKE g \in Games \ Planned(p)
    <3>2. D(g) = "none"
      BY <2>3
    <3>3. QED
      BY <2>1, <3>2 DEF Untouched, Kept
  <2>6. ASSUME NEW g \in Planned(p)
        PROVE  /\ \/ AsSame(g, plan[g]) \/ AsUpload(g, plan[g])
                  \/ AsDownload(g, plan[g]) \/ AsConflict(g, plan[g])
               /\ conf'[g] # <<>> => D(g) = "conflict"
    <3>0. g \in Games /\ g \in DOMAIN plan
      BY <2>3
    <3>1. D(g) = Decision(g, plan[g][1], plan[g][2])
      BY <3>0
    <3>r. D(g) \in {"upload", "download"} => Now(g, plan[g])
      <4>1. SUFFICES ASSUME D(g) \in {"upload", "download"} PROVE Now(g, plan[g])
        OBVIOUS
      <4>2. g \in Replaced(p)
        BY <3>1, <4>1 DEF Replaced
      <4>3. plan[g] = <<local[g], remote[g]>>
        BY <1>2, <4>2
      <4>4. QED
        BY <4>3 DEF Now
    <3>2. CASE D(g) = "same"
      <4>1. plan[g][1] = plan[g][2]
        BY <3>1, <3>2 DEF Decision
      <4>2. Kept(g) /\ base'[g] = plan[g][1] /\ conf'[g] = <<>>
        BY <2>1, <3>0, <3>2 DEF Kept
      <4>3. QED
        BY <4>1, <4>2 DEF AsSame
    <3>3. CASE D(g) = "upload"
      <4>1. plan[g][1] # plan[g][2] /\ plan[g][2] = base[g]
        BY <3>1, <3>3 DEF Decision
      <4>2. remote'[g] = plan[g][1] /\ local'[g] = local[g] /\ base'[g] = plan[g][1] /\ conf'[g] = <<>>
        BY <2>1, <3>0, <3>3
      <4>3. QED
        BY <3>3, <3>r, <4>1, <4>2 DEF AsUpload, Now
    <3>4. CASE D(g) = "download"
      <4>1. plan[g][1] # plan[g][2] /\ plan[g][1] = base[g] /\ plan[g][2] # base[g]
        BY <3>1, <3>4 DEF Decision
      <4>2. local'[g] = plan[g][2] /\ remote'[g] = remote[g] /\ base'[g] = plan[g][2] /\ conf'[g] = <<>>
        BY <2>1, <3>0, <3>4
      <4>3. QED
        BY <3>4, <3>r, <4>1, <4>2 DEF AsDownload, Now
    <3>5. CASE D(g) = "conflict"
      <4>1. plan[g][1] # plan[g][2] /\ base[g] \notin {plan[g][1], plan[g][2]}
        BY <3>1, <3>5 DEF Decision
      <4>2. Kept(g) /\ base'[g] = base[g] /\ conf'[g] = plan[g]
        BY <2>1, <3>0, <3>5 DEF Kept
      <4>3. QED
        BY <3>5, <4>1, <4>2 DEF AsConflict
    <3>6. QED
      BY <3>1, <3>2, <3>3, <3>4, <3>5 DEF Decision
  <2>7. silent \subseteq silent' /\ (p = "hook" => silent' = silent)
    BY <2>1
  <2>8. p # "hook" => \A g \in Planned(p) : conf'[g] # <<>> => Id(g, conf'[g]) \in silent'
    <3>1. SUFFICES ASSUME p # "hook", NEW g \in Planned(p), conf'[g] # <<>>
                   PROVE  Id(g, conf'[g]) \in silent'
      OBVIOUS
    <3>2. D(g) = "conflict" /\ g \in Games /\ g \in DOMAIN plan
      BY <2>3, <2>6, <3>1
    <3>3. conf'[g] = plan[g]
      BY <2>1, <3>2
    <3>4. <<g, plan[g][1], plan[g][2]>> \in silent'
      BY <2>1, <3>1, <3>2
    <3>5. QED
      BY <3>3, <3>4 DEF Id
  <2>9. Applied(p)
    <3>1. escaped' = escaped \ {g \in Planned(p) : run[p].plan[g][1] = local[g]} /\ dirty' = dirty \ Planned(p)
      BY <2>1, <2>3
    <3>2. op' = Nobody /\ UNCHANGED <<clock, frontend, worker, prompts, faults, raced>>
      BY <2>1
    <3>3. QED
      BY <2>2, <2>5, <2>6, <2>7, <2>8, <3>1, <3>2 DEF Applied
  <2>10. Types'
    <3>1. /\ remote' \in [Games -> Content] /\ local' \in [Games -> Content]
      BY <2>1, <2>3 DEF Types
    <3>2. base' \in [Games -> Content]
      <4>1. \A g \in Games : base'[g] \in Content
        BY <2>3, <2>5, <2>6 DEF Types, Untouched, AsSame, AsUpload, AsDownload, AsConflict
      <4>2. QED
        BY <2>1, <4>1
    <3>3. conf' \in [Games -> {<<>>} \cup Pair]
      <4>1. \A g \in Games : conf'[g] \in {<<>>} \cup Pair
        BY <2>3, <2>5, <2>6 DEF Types, Untouched, AsSame, AsUpload, AsDownload, AsConflict
      <4>2. QED
        BY <2>1, <4>1
    <3>4. silent' \subseteq Ids
      BY <2>1, <2>3 DEF Types, Ids
    <3>5. dirty' \subseteq Games /\ escaped' \subseteq Games
      BY <2>1 DEF Types
    <3>6. QED
      BY <2>1, <2>2, <3>1, <3>2, <3>3, <3>4, <3>5 DEF Types, Moved
  <2>11. QED
    BY <1>a, <2>9, <2>10
<1>3. QED
  BY <1>1, <1>2 DEF Apply

LEMMA PassTypes ==
    ASSUME Types, NEW p \in Process, Work(p)
    PROVE  Types'
<1>n. Nobody \in Process \cup {Nobody} /\ p \in Process \cup {Nobody}
  OBVIOUS
<1>1. CASE Acquire(p)
  BY <1>1, AcquireIs DEF Acquire, Types, Moved, Ended
<1>2. CASE Busy(p)
  BY <1>2, BusyIs DEF Busy, Types
<1>3. CASE Pass(p)
  BY <1>3, PassIs DEF Pass, Types, Moved, Ended
<1>4. CASE Enter(p)
  BY <1>4, EnterIs DEF Enter, Types, Moved
<1>5. CASE Verify(p)
  BY <1>5, VerifyIs DEF Verify, Types, Moved
<1>6. CASE Apply(p)
  BY <1>6, ApplyIs
<1>7. CASE Conclude(p)
  <2>1. queue' \subseteq Ids /\ shown' \subseteq Ids /\ popup' \in {"off", "load", "show"}
        /\ worker' \in Process \cup {Nobody} /\ run' \in [Process -> Runs]
    <3>1. Active \subseteq Ids
      BY ActiveIs DEF Types
    <3>2. QED
      BY <1>7, <3>1, ConcludeIs DEF Types, Moved, Ended
  <2>2. QED
    BY <1>7, <2>1 DEF Conclude, Types
<1>8. CASE Fail(p)
  <2>1. silent' \subseteq Ids
    BY <1>8, ActiveIs DEF Fail, Types
  <2>2. QED
    BY <1>8, <2>1, FailIs DEF Fail, Types, Moved, Ended
<1>9. QED
  BY <1>1, <1>2, <1>3, <1>4, <1>5, <1>6, <1>7, <1>8 DEF Work

-----------------------------------------------------------------------------
(* What the other steps make of the processes.                             *)

LEMMA LaunchIs == ASSUME Types, NEW g \in Games, Launch(g)
                  PROVE  Moved("hook", {"enter", "leave"}) /\ Blank("hook")
<1>1. PICK x \in {"enter", "leave"} : run' = [run EXCEPT !["hook"] = [Idle EXCEPT !.pc = x]]
  BY DEF Launch
<1>2. x \in Pcs
  BY PcsAre
<1>3. Moved("hook", {x}) /\ Blank("hook")
  BY <1>1, <1>2, HookIs, RestartIs DEF Moved, Blank
<1>4. QED
  BY <1>3 DEF Moved

LEMMA BackIs == ASSUME Types, Play \/ Return
                PROVE  Moved("hook", {"idle"}) /\ Blank("hook")
<1>1. run' = [run EXCEPT !["hook"] = Idle] /\ run \in [Process -> Runs]
  BY DEF Play, Return, Types
<1>2. QED
  BY <1>1, HookIs, IdleIs DEF Moved, Blank

LEMMA ExitIs == ASSUME Types, Exit
                PROVE  Moved("hook", {"retire"}) /\ Blank("hook")
BY HookIs, PcsAre, RestartIs DEF Exit, Moved, Blank

LEMMA RetireIs == ASSUME Types, RetireMarker, game \in Games
                  PROVE  Moved("hook", {"settle"}) /\ Same("hook") /\ run'["hook"].seen = local[game]
<1>1. run \in [Process -> Runs] /\ run["hook"] \in Runs /\ local[game] \in Content
  BY HookIs DEF Types
<1>2. run' = [run EXCEPT !["hook"] = [run["hook"] EXCEPT !.pc = "settle", !.tries = 1, !.seen = local[game]]]
  BY <1>1, HookIs DEF RetireMarker
<1>3. run'["hook"] = [run["hook"] EXCEPT !.pc = "settle", !.tries = 1, !.seen = local[game]]
  BY <1>1, <1>2, HookIs
<1> DEFINE r == run["hook"]
           c == local[game]
<1>r. r \in Runs /\ c \in Content /\ "settle" \in Pcs
      /\ run'["hook"] = [r EXCEPT !.pc = "settle", !.tries = 1, !.seen = c]
  BY <1>1, <1>3, PcsAre
<1> HIDE DEF r, c
<1>n. [r EXCEPT !.pc = "settle", !.tries = 1, !.seen = c] \in Runs
  BY <1>r DEF Runs
<1>s. /\ run'["hook"] \in Runs /\ run'["hook"].pc = "settle" /\ run'["hook"].seen = c
      /\ run'["hook"].plan = r.plan /\ run'["hook"].before = r.before /\ run'["hook"].new = r.new
  BY <1>r, <1>n DEF Runs
<1>4. /\ run'["hook"] \in Runs /\ run'["hook"].pc = "settle" /\ run'["hook"].seen = local[game]
      /\ run'["hook"].plan = run["hook"].plan /\ run'["hook"].before = run["hook"].before
      /\ run'["hook"].new = run["hook"].new
  BY <1>s DEF r, c
<1>5. \A q \in Process : q # "hook" => run'[q] = run[q]
  BY <1>1, <1>2
<1>6. run' \in [Process -> Runs]
  BY <1>1, <1>2, <1>4
<1>7. QED
  BY <1>4, <1>5, <1>6 DEF Moved, Same

LEMMA SettleIs ==
    ASSUME Types, Settle, game \in Games
    PROVE  /\ Moved("hook", {"settle", "detect", "leave"}) /\ Same("hook")
           /\ run'["hook"].pc = "detect" => local[game] = run'["hook"].seen
<1>1. run \in [Process -> Runs] /\ run["hook"] \in Runs /\ local[game] \in Content
  BY HookIs DEF Types
<1>2. CASE local[game] = run["hook"].seen /\ Goto("hook", "detect")
  BY <1>2, HookIs, PcsAre, GotoIs DEF Moved, Same
<1>3. CASE Goto("hook", "leave")
  BY <1>3, HookIs, PcsAre, GotoIs DEF Moved, Same
<1>4. CASE run' = [run EXCEPT !["hook"].tries = @ + 1, !["hook"].seen = local[game]] /\ At("hook", "settle")
  <2>1. run'["hook"] = [run["hook"] EXCEPT !.tries = @ + 1, !.seen = local[game]]
        /\ \A q \in Process : q # "hook" => run'[q] = run[q]
    BY <1>1, <1>4, HookIs
  <2>2. run["hook"].tries + 1 \in Nat
    BY <1>1 DEF Runs
  <2> DEFINE r == run["hook"]
             c == local[game]
  <2>r. /\ r \in Runs /\ r.pc = "settle" /\ c \in Content /\ r.tries + 1 \in Nat
        /\ run'["hook"] = [r EXCEPT !.tries = r.tries + 1, !.seen = c]
    BY <1>1, <1>4, <2>1, <2>2 DEF At
  <2> HIDE DEF r, c
  <2>s. /\ run'["hook"] \in Runs /\ run'["hook"].pc = "settle"
        /\ run'["hook"].plan = r.plan /\ run'["hook"].before = r.before /\ run'["hook"].new = r.new
    BY <2>r DEF Runs
  <2>3. /\ run'["hook"] \in Runs /\ run'["hook"].pc = "settle"
        /\ run'["hook"].plan = run["hook"].plan /\ run'["hook"].before = run["hook"].before
        /\ run'["hook"].new = run["hook"].new
    BY <2>s DEF r
  <2>4. run' \in [Process -> Runs]
    BY <1>1, <1>4, <2>1, <2>3
  <2>5. QED
    BY <2>1, <2>3, <2>4 DEF Moved, Same
<1>5. QED
  BY <1>2, <1>3, <1>4 DEF Settle

LEMMA DetectIs ==
    ASSUME Types, Detect
    PROVE  /\ Blank("hook")
           /\ \/ marker # {} /\ Moved("hook", {"leave"})
              \/ marker = {} /\ Moved("hook", {"acquire"})
<1>1. run' = [run EXCEPT !["hook"] = [Idle EXCEPT !.pc = IF marker # {} THEN "leave" ELSE "acquire"]]
  BY DEF Detect
<1>2. QED
  BY <1>1, HookIs, PcsAre, RestartIs DEF Moved, Blank

LEMMA StartedIs == ASSUME Types, ConcludeStart \/ Released
                   PROVE  Moved("hook", {"leave", "held"}) /\ Same("hook")
<1>1. Goto("hook", "leave") \/ Goto("hook", "held")
  BY DEF ConcludeStart, Released
<1>2. CASE Goto("hook", "leave")
  BY <1>2, HookIs, PcsAre, GotoIs DEF Moved, Same
<1>3. CASE Goto("hook", "held")
  BY <1>3, HookIs, PcsAre, GotoIs DEF Moved, Same
<1>4. QED
  BY <1>1, <1>2, <1>3

LEMMA TickIs == ASSUME Types, Tick
                PROVE  Moved("tick", {"acquire"}) /\ Blank("tick")
BY HookIs, PcsAre, RestartIs DEF Tick, Moved, Blank

LEMMA DrainIs == ASSUME Types, Drain
                 PROVE  Moved("drain", {"idle", "acquire"}) /\ Blank("drain")
<1>1. run \in [Process -> Runs]
  BY DEF Types
<1>2. CASE run' = [run EXCEPT !["drain"] = Idle]
  BY <1>1, <1>2, HookIs, IdleIs DEF Moved, Blank
<1>3. CASE run' = [run EXCEPT !["drain"] = [Idle EXCEPT !.pc = "acquire"]]
  BY <1>3, HookIs, PcsAre, RestartIs DEF Moved, Blank
<1>4. QED
  BY <1>2, <1>3 DEF Drain

LEMMA LossIs == ASSUME Types, PowerLoss
                PROVE  /\ run' \in [Process -> Runs]
                       /\ \A p \in Process : run'[p].pc = "idle" /\ Blank(p)
BY IdleIs DEF PowerLoss, Blank

-----------------------------------------------------------------------------
(* What holds of the contents while the saves stay as they are.            *)

\* A process about to promote was so already, or has just looked at its plan.
Watched == \A p \in Process : run'[p].pc = "apply" =>
               run'[p].plan = run[p].plan /\ (At(p, "apply") \/ Intact(p))
\* The sessions that are open stay open.
StaysOpen == \A g \in Changed : Open(g) => Open(g)'

LEMMA PlansAre == ASSUME Types, NEW p \in Process
                  PROVE  /\ Planned(p) \subseteq Games
                         /\ \A g \in Planned(p) : run[p].plan[g] \in Pair
                                                  /\ run[p].plan[g][1] \in Content /\ run[p].plan[g][2] \in Content
<1>1. run[p].plan \in Plans
  BY DEF Types, Runs
<1>2. QED
  BY <1>1, PlanIs, PairIs DEF Planned

LEMMA DataKept ==
    ASSUME IInv, Types', UNCHANGED <<local, remote, base, conf, clock>>, Watched,
           (\E p \in Process : run'[p].pc = "apply") => StaysOpen,
           run'["hook"].before \subseteq Before \cup Active
    PROVE  (StaleSound /\ FreshSound /\ ConfSound /\ PlanSound)'
<1>0. Types /\ StaleSound /\ FreshSound /\ ConfSound /\ PlanSound
  BY DEF IInv
<1>1. StaleSound'
  <2>1. SUFFICES ASSUME NEW p \in Process, run'[p].pc = "apply", NEW g \in DOMAIN run'[p].plan,
                        run'[p].plan[g][1] # local'[g]
                 PROVE  g \in Changed' /\ Open(g)'
    BY DEF StaleSound, At, Planned
  <2>2. g \in Planned(p) /\ run[p].plan[g][1] # local[g]
    BY <2>1 DEF Watched, Planned
  <2>3. ~Intact(p)
    BY <2>2 DEF Intact
  <2>4. g \in Changed /\ Open(g)
    BY <1>0, <2>1, <2>2, <2>3 DEF Watched, StaleSound
  <2>5. QED
    BY <2>1, <2>4 DEF StaysOpen, Changed
<1>2. FreshSound'
  <2>1. ASSUME NEW p \in Process, run'[p].pc = "apply", NEW g \in DOMAIN run'[p].plan
        PROVE  run'[p].plan[g][1] <= clock' /\ run'[p].plan[g][2] <= clock'
    <3>1. g \in Planned(p) /\ run'[p].plan[g] = run[p].plan[g] /\ (At(p, "apply") \/ Intact(p))
      BY <2>1 DEF Watched, Planned
    <3>2. g \in Games
      BY <1>0, <3>1, PlansAre
    <3>3. CASE At(p, "apply")
      BY <1>0, <3>1, <3>3 DEF FreshSound
    <3>4. CASE Intact(p)
      BY <1>0, <3>1, <3>2, <3>4 DEF FreshSound, Intact
    <3>5. QED
      BY <3>1, <3>3, <3>4
  <2>2. ASSUME NEW i \in run'["hook"].before PROVE i[2] <= clock' /\ i[3] <= clock'
    <3>1. CASE i \in Before
      BY <1>0, <3>1 DEF FreshSound, Before
    <3>2. CASE i \in Active
      <4>1. i[1] \in Conflicted /\ i = Id(i[1], conf[i[1]])
        BY <1>0, <3>2, ActiveIs DEF Types
      <4>2. i[2] = conf[i[1]][1] /\ i[3] = conf[i[1]][2]
        BY <4>1 DEF Id
      <4>3. QED
        BY <1>0, <4>1, <4>2 DEF FreshSound
    <3>3. QED
      BY <2>2, <3>1, <3>2
  <2>3. QED
    BY <1>0, <2>1, <2>2 DEF FreshSound, At, Planned, Conflicted
<1>3. ConfSound'
  BY <1>0 DEF ConfSound, Conflicted, Now, Gone
<1>4. PlanSound'
  <2>1. SUFFICES ASSUME NEW p \in Process, run'[p].pc = "apply", NEW g \in DOMAIN run'[p].plan
                 PROVE  /\ run'[p].plan[g][1] # run'[p].plan[g][2] =>
                             Now(g, run[p].plan[g])' \/ Gone(g, run[p].plan[g])'
                        /\ g \in Conflicted' /\ conf'[g] # run'[p].plan[g] => Gone(g, conf[g])'
    BY DEF PlanSound, At, Planned
  <2>2. g \in Planned(p) /\ run'[p].plan[g] = run[p].plan[g] /\ (At(p, "apply") \/ Intact(p))
    BY <2>1 DEF Watched, Planned
  <2> DEFINE c == run[p].plan[g]
  <2>3. /\ c[1] # c[2] => Now(g, c) \/ Gone(g, c)
        /\ g \in Conflicted /\ conf[g] # c => Gone(g, conf[g])
    <3>1. CASE At(p, "apply")
      BY <1>0, <2>2, <3>1 DEF PlanSound
    <3>2. CASE Intact(p)
      <4>1. c = <<local[g], remote[g]>>
        BY <2>2, <3>2 DEF Intact
      <4>2. Now(g, c) /\ c[1] = local[g] /\ c[2] = remote[g]
        BY <4>1 DEF Now
      <4>3. ASSUME g \in Conflicted, conf[g] # c PROVE Gone(g, conf[g])
        <5>1. conf[g] \in Pair /\ c \in Pair
          BY <1>0, <2>2, <4>3, ActiveIs, PlansAre DEF Types
        <5>2. ~Now(g, conf[g])
          BY <4>2, <4>3, <5>1, PairEq DEF Now
        <5>3. QED
          BY <1>0, <4>3, <5>2 DEF ConfSound
      <4>4. QED
        BY <4>2, <4>3
    <3>3. QED
      BY <2>2, <3>1, <3>2
  <2>4. Conflicted' = Conflicted
    BY DEF Conflicted
  <2>5. QED
    BY <2>2, <2>3, <2>4 DEF Now, Gone
<1>5. QED
  BY <1>1, <1>2, <1>3, <1>4

LEMMA ChangeKept ==
    ASSUME ChangeSound, UNCHANGED <<local, base, conf>>, dirty \subseteq dirty', StaysOpen,
           run'["hook"].pc = "detect" =>
               \/ HookPc = "detect" /\ game' = game /\ run'["hook"].seen = run["hook"].seen
               \/ local[game'] = run'["hook"].seen
    PROVE  ChangeSound'
<1>1. Changed' = Changed /\ Conflicted' = Conflicted
  BY DEF Changed, Conflicted
<1>2. \A g \in Changed : g \in dirty' \cup Conflicted' \/ Open(g)'
  BY <1>1 DEF ChangeSound, StaysOpen
<1>3. HookPc' = "detect" => local'[game'] \in {run'["hook"].seen, base'[game']}
  BY DEF ChangeSound, HookPc
<1>4. QED
  BY <1>1, <1>2, <1>3 DEF ChangeSound, HookPc

-----------------------------------------------------------------------------
(* Steps that leave the saves, the state, the frontend and the hook alone. *)

Outside(pc) == pc \in Passing \cup {"idle", "spawned"}

LEMMA RaceKept ==
    ASSUME RaceSound, FrontSound, Watched, raced \subseteq raced',
           front' \in {"starting", "playing"} => front \in {"starting", "playing"} /\ game' = game,
           \A q \in {"tick", "drain"} :
               run'[q].pc = "apply" => At(q, "apply") \/ Planned(q) \cap marker = {}
    PROVE  RaceSound'
<1>1. SUFFICES ASSUME NEW q \in {"tick", "drain"}, run'[q].pc = "apply",
                      front' \in {"starting", "playing"}, game' \in DOMAIN run'[q].plan
               PROVE  game' \in raced'
  BY DEF RaceSound, At, Planned
<1>2. q \in Process /\ game \in Planned(q) /\ game' = game /\ front \in {"starting", "playing"}
  BY <1>1, HookIs DEF Watched, Planned
<1>3. game \in marker
  BY <1>2 DEF FrontSound
<1>4. At(q, "apply")
  BY <1>1, <1>2, <1>3
<1>5. QED
  BY <1>2, <1>4 DEF RaceSound

LEMMA OthersKept ==
    ASSUME IInv, Types',
           UNCHANGED <<local, remote, base, conf, clock, dirty, marker, front, game, escaped, raced>>,
           run'["hook"] = run["hook"], Watched, LockSound',
           \A q \in {"tick", "drain"} :
               /\ Outside(run'[q].pc)
               /\ run'[q].pc = "apply" => At(q, "apply") \/ Planned(q) \cap marker = {},
           Active \cap Heard \subseteq Heard',
           popup' = "show" => ask' \in shown'
    PROVE  IInv'
<1>0. /\ Types /\ FrontSound /\ ChangeSound /\ BeforeSound /\ PromptSound /\ DrainSound /\ RaceSound
  BY DEF IInv
<1>1. StaysOpen
  BY DEF StaysOpen, Open, Stopping, HookPc
<1>2. (StaleSound /\ FreshSound /\ ConfSound /\ PlanSound)'
  <2>1. run'["hook"].before \subseteq Before \cup Active
    BY DEF Before
  <2>2. QED
    BY <1>1, <2>1, DataKept
<1>3. ChangeSound'
  BY <1>0, <1>1, ChangeKept DEF HookPc
<1>4. FrontSound'
  BY <1>0 DEF FrontSound, HookPc, Stopping, Outside
<1>5. Active' = Active /\ Planned("hook")' = Planned("hook")
  BY DEF Active, Conflicted, Planned
<1>6. BeforeSound'
  BY <1>0, <1>5 DEF BeforeSound, Stopping, HookPc, Gone, Before, Planned
<1>7. PromptSound'
  BY <1>0, <1>5 DEF PromptSound, Stopping, HookPc, Before
<1>8. DrainSound'
  BY <1>0, <1>5 DEF DrainSound, Stopping, HookPc
<1>9. RaceSound'
  BY <1>0, RaceKept
<1>10. QED
  BY <1>2, <1>3, <1>4, <1>6, <1>7, <1>8, <1>9 DEF IInv

\* A process that moves to a place where nothing is locked; or nobody moves.
LEMMA LockLeft ==
    ASSUME LockSound, NEW p \in Process, NEW S, Moved(p, S), {"verify", "apply"} \cap S = {},
           op' = op \/ (op' = Nobody /\ run[p].pc \in {"verify", "apply"})
    PROVE  LockSound'
<1>1. SUFFICES ASSUME NEW q \in Process, run'[q].pc \in {"verify", "apply"} PROVE op' = q
  BY DEF LockSound
<1>2. q # p /\ run'[q] = run[q]
  BY <1>1 DEF Moved
<1>3. op = q
  BY <1>1, <1>2 DEF LockSound
<1>4. run[p].pc \notin {"verify", "apply"}
  BY <1>2, <1>3 DEF LockSound
<1>5. QED
  BY <1>3, <1>4

LEMMA WatchedLeft ==
    ASSUME NEW p \in Process, NEW S, Moved(p, S), "apply" \notin S
    PROVE  Watched /\ \A q \in {"tick", "drain"} : run'[q].pc = "apply" => At(q, "apply")
<1>1. ASSUME NEW q \in Process, run'[q].pc = "apply" PROVE run'[q].plan = run[q].plan /\ At(q, "apply")
  <2>1. q # p
    BY <1>1 DEF Moved
  <2>2. QED
    BY <1>1, <2>1 DEF Moved, At
<1>2. QED
  BY <1>1, HookIs DEF Watched

LEMMA TickInv ==
    ASSUME IInv, NEW p \in {"tick", "drain"},
           \/ (p = "tick" /\ Tick) \/ (p = "drain" /\ Drain)
           \/ Acquire(p) \/ Busy(p) \/ Pass(p) \/ Enter(p) \/ Verify(p) \/ Conclude(p) \/ Fail(p)
    PROVE  IInv'
<1>0. /\ Types /\ FrontSound /\ LockSound /\ p \in Process /\ p # "hook"
      /\ \A q \in {"tick", "drain"} : Outside(run[q].pc)
  BY HookIs DEF IInv, FrontSound, Outside
<1>t. Types'
  <2>1. CASE Tick \/ Drain
    BY <1>0, <2>1, HookTypes
  <2>2. CASE Work(p)
    BY <1>0, <2>2, PassTypes
  <2>3. QED
    BY <2>1, <2>2 DEF Work
<1> DEFINE Others == /\ UNCHANGED <<local, remote, base, conf, clock, dirty, marker, front, game, escaped, raced>>
                     /\ popup' = "show" => ask' \in shown'
                     /\ Active \cap Heard \subseteq Heard'
           Away == {"idle", "acquire", "read", "enter", "after", "fail"}
\* A step to a place where nothing is locked.
<1>a. ASSUME Others, Moved(p, Away), op' = op \/ (op' = Nobody /\ run[p].pc \in {"verify", "apply"})
      PROVE  IInv'
  <2>1. LockSound'
    BY <1>0, <1>a, LockLeft
  <2>2. Watched /\ \A q \in {"tick", "drain"} : run'[q].pc = "apply" => At(q, "apply")
    BY <1>0, <1>a, WatchedLeft
  <2>3. run'["hook"] = run["hook"]
    BY <1>0, <1>a, HookIs DEF Moved
  <2>4. \A q \in {"tick", "drain"} : Outside(run'[q].pc)
    BY <1>0, <1>a, HookIs DEF Moved, Outside, Passing
  <2>5. QED
    BY <1>a, <1>t, <2>1, <2>2, <2>3, <2>4, OthersKept
<1>p. UNCHANGED <<prompts, silent>> => (popup' = "show" => ask' \in shown') /\ Active \cap Heard \subseteq Heard'
  BY <1>0 DEF FrontSound, Heard
<1>1. CASE Tick /\ p = "tick"
  <2>1. Moved(p, Away)
    BY <1>0, <1>1, TickIs DEF Moved
  <2>2. Others /\ op' = op
    BY <1>1, <1>p DEF Tick
  <2>3. QED
    BY <1>a, <2>1, <2>2
<1>2. CASE Drain /\ p = "drain"
  <2>1. Moved(p, Away)
    BY <1>0, <1>2, DrainIs DEF Moved
  <2>2. Others /\ op' = op
    BY <1>2, <1>p DEF Drain
  <2>3. QED
    BY <1>a, <2>1, <2>2
<1>3. CASE Acquire(p)
  <2>1. Moved(p, Away)
    BY <1>0, <1>3, AcquireIs DEF Moved, Ended
  <2>2. Others /\ op' = op
    BY <1>3, <1>p DEF Acquire
  <2>3. QED
    BY <1>a, <2>1, <2>2
<1>4. CASE Busy(p)
  <2>1. \A q \in Process : q # p => run'[q] = run[q]
    BY <1>0, <1>4 DEF Busy
  <2>2. Moved(p, Away)
    BY <1>0, <1>4, <2>1, BusyIs DEF Moved
  <2>3. Others /\ op' = op
    BY <1>4, <1>p DEF Busy
  <2>4. QED
    BY <1>a, <2>2, <2>3
<1>5. CASE Pass(p)
  <2>1. Moved(p, Away) /\ op' = op
    BY <1>0, <1>5, PassIs DEF Moved, Ended
  <2>2. Others
    BY <1>5, <1>p DEF Pass
  <2>3. QED
    BY <1>a, <2>1, <2>2
<1>6. CASE Enter(p)
  <2>1. Others /\ op = Nobody
    BY <1>6, <1>p DEF Enter
  <2>2. CASE Moved(p, {IF Selected(p) = {} THEN "after" ELSE "fail"}) /\ op' = Nobody
    <3>1. Moved(p, Away)
      BY <2>2 DEF Moved
    <3>2. QED
      BY <1>a, <2>1, <2>2, <3>1
  <2>3. CASE Moved(p, {"verify"}) /\ op' = p
    <3>1. LockSound'
      <4>1. \A q \in Process : q # p => run[q].pc \notin {"verify", "apply"}
        BY <1>0, <2>1, HookIs DEF LockSound
      <4>2. QED
        BY <2>3, <4>1 DEF LockSound, Moved
    <3>2. Watched /\ \A q \in {"tick", "drain"} : run'[q].pc = "apply" => At(q, "apply")
      BY <1>0, <2>3, WatchedLeft
    <3>3. run'["hook"] = run["hook"]
      BY <1>0, <2>3, HookIs DEF Moved
    <3>4. \A q \in {"tick", "drain"} : Outside(run'[q].pc)
      BY <1>0, <2>3, HookIs DEF Moved, Outside, Passing
    <3>5. QED
      BY <1>t, <2>1, <3>1, <3>2, <3>3, <3>4, OthersKept
  <2>4. QED
    BY <1>0, <1>6, <2>2, <2>3, EnterIs
<1>7. CASE Verify(p)
  <2>1. Others /\ run[p].pc = "verify"
    BY <1>7, <1>p DEF Verify, At
  <2>2. CASE op' = Nobody /\ Moved(p, {"enter", "fail"})
    <3>1. Moved(p, Away)
      BY <2>2 DEF Moved
    <3>2. QED
      BY <1>a, <2>1, <2>2, <3>1
  <2>3. CASE Intact(p) /\ Planned(p) \cap Excluded(p) = {} /\ op' = op /\ Moved(p, {"apply"}) /\ Same(p)
    <3>1. LockSound'
      BY <1>0, <2>1, <2>3 DEF LockSound, Moved
    <3>2. Watched
      BY <2>3 DEF Watched, Moved, Same, At
    <3>3. \A q \in {"tick", "drain"} : run'[q].pc = "apply" => At(q, "apply") \/ Planned(q) \cap marker = {}
      <4>1. Excluded(p) = marker
        BY <1>0 DEF Excluded
      <4>2. QED
        BY <2>3, <4>1, HookIs DEF Moved, At
    <3>4. run'["hook"] = run["hook"]
      BY <1>0, <2>3, HookIs DEF Moved
    <3>5. \A q \in {"tick", "drain"} : Outside(run'[q].pc)
      BY <1>0, <2>3, HookIs DEF Moved, Outside, Passing
    <3>6. QED
      BY <1>t, <2>1, <3>1, <3>2, <3>3, <3>4, <3>5, OthersKept
  <2>4. QED
    BY <1>0, <1>7, <2>2, <2>3, VerifyIs
<1>8. CASE Conclude(p)
  <2>1. Moved(p, Away) /\ (popup' = "show" => popup = "show" /\ ask' = ask /\ shown' = shown) /\ queue \subseteq queue'
    BY <1>0, <1>8, ConcludeIs DEF Moved, Ended
  <2>2. op' = op /\ Others
    BY <1>0, <1>8, <2>1 DEF Conclude, FrontSound, Heard
  <2>3. QED
    BY <1>a, <2>1, <2>2
<1>9. CASE Fail(p)
  <2>1. Moved(p, Away)
    BY <1>0, <1>9, FailIs DEF Moved, Ended
  <2>2. op' = op /\ UNCHANGED <<prompts, silent>>
    BY <1>0, <1>9 DEF Fail
  <2>3. Others
    BY <1>9, <1>p, <2>2 DEF Fail
  <2>4. QED
    BY <1>a, <2>1, <2>2, <2>3
<1>10. QED
  BY <1>1, <1>2, <1>3, <1>4, <1>5, <1>6, <1>7, <1>8, <1>9

LEMMA AdvanceIs == ASSUME Advance PROVE popup' = "show" => ask' \in shown'
BY DEF Advance

LEMMA PopupInv ==
    ASSUME IInv, Load \/ Later \/ Close
    PROVE  IInv'
<1>0. Types /\ FrontSound /\ LockSound /\ RaceSound
  BY DEF IInv
<1>t. Types'
  BY <1>0, HookTypes
<1>1. /\ UNCHANGED <<local, remote, base, conf, clock, dirty, marker, front, game, escaped, raced, run, op>>
      /\ popup' = "show" => ask' \in shown'
  BY AdvanceIs DEF Load, Later, Close
<1>2. Active \cap Heard \subseteq Heard'
  BY DEF Load, Later, Close, Heard
<1>3. Watched /\ LockSound'
  BY <1>0, <1>1 DEF Watched, LockSound, At
<1>4. \A q \in {"tick", "drain"} : Outside(run'[q].pc) /\ (run'[q].pc = "apply" => At(q, "apply"))
  BY <1>0, <1>1 DEF FrontSound, Outside, At
<1>5. QED
  BY <1>t, <1>1, <1>2, <1>3, <1>4, OthersKept

-----------------------------------------------------------------------------
(* Writes, of an emulator or of a peer: what they make is new.             *)

LEMMA GoneFor ==
    ASSUME NEW g, NEW c, Gone(g, c),
           \A x \in {local'[g], remote'[g]} : x \in {local[g], remote[g]} \/ x \notin {c[1], c[2]}
    PROVE  Gone(g, c)'
BY DEF Gone

LEMMA WriteInv ==
    ASSUME IInv, EmulatorWrites \/ \E g \in Games : PeerWrites(g)
    PROVE  IInv'
<1>0. /\ Types /\ FrontSound /\ LockSound /\ ChangeSound /\ StaleSound /\ FreshSound /\ ConfSound
      /\ PlanSound /\ BeforeSound /\ PromptSound /\ DrainSound /\ RaceSound
  BY DEF IInv
<1>t. Types'
  BY <1>0, FrontTypes
<1>f. game \in Games <=> front # "menu"
  BY <1>0 DEF FrontSound, Types
<1> DEFINE Writing == front = "playing" \/ (Stopping /\ HookPc \in {"retire", "settle"})
<1> DEFINE Written ==
        /\ UNCHANGED <<state, frontend, run, locks, prompts, faults, history>>
        /\ clock' = clock + 1 /\ clock \in Nat
        /\ \A g \in Games : /\ local'[g] \in {local[g], clock'} /\ remote'[g] \in {remote[g], clock'}
                            /\ local'[g] # local[g] => g = game /\ Writing
<1>1. Written
  <2>1. CASE EmulatorWrites
    BY <1>0, <2>1 DEF EmulatorWrites, Types, Stopping, HookPc
  <2>2. ASSUME NEW h \in Games, PeerWrites(h) PROVE Written
    BY <1>0, <2>2 DEF PeerWrites, Types
  <2>3. QED
    BY <2>1, <2>2
<1>2. \A g \in Games, c \in Pair : Gone(g, c) /\ c[1] <= clock /\ c[2] <= clock => Gone(g, c)'
  <2>1. SUFFICES ASSUME NEW g \in Games, NEW c \in Pair, Gone(g, c), c[1] <= clock, c[2] <= clock
                 PROVE  Gone(g, c)'
    OBVIOUS
  <2>2. clock' \notin {c[1], c[2]}
    BY <1>1, <2>1, PairIs
  <2>3. QED
    BY <1>1, <2>1, <2>2, GoneFor
\* A side that moves takes a content that no pair has.
<1>3. \A g \in Games, c \in Pair :
        Now(g, c) /\ c[1] # c[2] /\ c[1] <= clock /\ c[2] <= clock => Now(g, c)' \/ Gone(g, c)'
  <2>1. SUFFICES ASSUME NEW g \in Games, NEW c \in Pair, Now(g, c), c[1] <= clock, c[2] <= clock,
                        c[1] # c[2], ~Now(g, c)'
                 PROVE  Gone(g, c)'
    OBVIOUS
  <2>2. clock' \notin {c[1], c[2]} /\ c[1] \in Content /\ c[2] \in Content
    BY <1>1, <2>1, PairIs
  <2>3. QED
    BY <1>1, <2>1, <2>2 DEF Now, Gone
<1>c. \A g \in Conflicted : g \in Games /\ conf[g] \in Pair
  BY <1>0, ActiveIs DEF Types
<1>w. ASSUME NEW g \in Games, local'[g] # local[g] PROVE g \in Changed' /\ Open(g)'
  <2>1. g = game /\ Writing /\ local'[g] = clock + 1 /\ base'[g] = base[g] /\ base[g] <= clock
    BY <1>0, <1>1, <1>w DEF FreshSound
  <2>2. base[g] \in Nat
    BY <1>0 DEF Types
  <2>3. g \in Changed'
    BY <1>1, <2>1, <2>2 DEF Changed
  <2>4. Open(g)'
    BY <1>1, <2>1 DEF Open, Stopping, HookPc, Early
  <2>5. QED
    BY <2>3, <2>4
<1>o. \A g \in Games : Open(g) => Open(g)'
  BY <1>1 DEF Open, Stopping, HookPc
<1>4. LockSound' /\ FrontSound'
  BY <1>0, <1>1 DEF LockSound, FrontSound, HookPc, Stopping
<1>5. ChangeSound'
  <2>1. ASSUME NEW g \in Changed' PROVE g \in dirty' \cup Conflicted' \/ Open(g)'
    <3>1. CASE local'[g] = local[g]
      BY <1>0, <1>1, <1>o, <2>1, <3>1 DEF ChangeSound, Changed, Conflicted
    <3>2. CASE local'[g] # local[g]
      BY <1>w, <2>1, <3>2 DEF Changed
    <3>3. QED
      BY <3>1, <3>2
  <2>2. ASSUME HookPc' = "detect" PROVE local'[game'] \in {run'["hook"].seen, base'[game']}
    <3>1. HookPc = "detect" /\ game \in Games /\ game' = game
      BY <1>0, <1>1, <1>f, <2>2 DEF HookPc, FrontSound
    <3>2. ~Writing
      BY <1>0, <3>1 DEF FrontSound
    <3>3. local'[game] = local[game]
      BY <1>1, <3>1, <3>2
    <3>4. QED
      BY <1>0, <1>1, <3>1, <3>3 DEF ChangeSound
  <2>3. QED
    BY <2>1, <2>2 DEF ChangeSound
<1>6. StaleSound'
  <2>1. SUFFICES ASSUME NEW p \in Process, At(p, "apply"), NEW g \in Planned(p),
                        run[p].plan[g][1] # local'[g]
                 PROVE  g \in Changed' /\ Open(g)'
    BY <1>1 DEF StaleSound, At, Planned
  <2>2. g \in Games
    BY <1>0, PlansAre
  <2>3. CASE local'[g] = local[g]
    <3>1. g \in Changed /\ Open(g)
      BY <1>0, <2>1, <2>3 DEF StaleSound
    <3>2. QED
      BY <1>1, <1>o, <2>2, <2>3, <3>1 DEF Changed
  <2>4. QED
    BY <1>w, <2>2, <2>3
<1>7. FreshSound'
  <2>1. \A x \in Content : x <= clock => x <= clock'
    BY <1>1
  <2>2. \A g \in Games : local'[g] <= clock' /\ remote'[g] <= clock' /\ base'[g] <= clock'
    <3>1. \A g \in Games : /\ local[g] \in Content /\ remote[g] \in Content /\ base[g] \in Content
                          /\ local[g] <= clock' /\ remote[g] <= clock' /\ base[g] <= clock'
      BY <1>0, <2>1 DEF FreshSound, Types
    <3>2. clock' <= clock' /\ base' = base
      BY <1>1
    <3>3. QED
      BY <1>1, <3>1, <3>2
  <2>3. \A g \in Conflicted' : conf'[g][1] <= clock' /\ conf'[g][2] <= clock'
    BY <1>0, <1>1, <1>c, <2>1, PairIs DEF FreshSound, Conflicted
  <2>4. \A p \in Process : At(p, "apply")' =>
         \A g \in Planned(p)' : run'[p].plan[g][1] <= clock' /\ run'[p].plan[g][2] <= clock'
    BY <1>0, <1>1, <2>1, PlansAre DEF FreshSound, At, Planned
  <2>5. \A i \in run'["hook"].before : i[2] <= clock' /\ i[3] <= clock'
    <3>1. run'["hook"].before \subseteq Ids
      BY <1>t, HookIs DEF Types, Runs
    <3>2. \A i \in Ids : i[2] \in Content /\ i[3] \in Content
      BY DEF Ids
    <3>3. QED
      BY <1>0, <1>1, <2>1, <3>1, <3>2 DEF FreshSound
  <2>6. QED
    BY <2>2, <2>3, <2>4, <2>5 DEF FreshSound
<1>8. ConfSound'
  <2>1. SUFFICES ASSUME NEW g \in Conflicted
                 PROVE  /\ conf[g][1] # conf[g][2] /\ base[g] \notin {conf[g][1], conf[g][2]}
                        /\ Now(g, conf[g])' \/ Gone(g, conf[g])'
    BY <1>1 DEF ConfSound, Conflicted, Now, Gone
  <2>2. /\ g \in Games /\ conf[g] \in Pair /\ conf'[g] = conf[g]
        /\ conf[g][1] <= clock /\ conf[g][2] <= clock
        /\ conf[g][1] # conf[g][2] /\ base[g] \notin {conf[g][1], conf[g][2]}
        /\ Now(g, conf[g]) \/ Gone(g, conf[g])
    BY <1>0, <1>1, <1>c DEF ConfSound, FreshSound
  <2> DEFINE c == conf[g]
  <2>3. c \in Pair /\ c[1] <= clock /\ c[2] <= clock /\ c[1] # c[2] /\ (Now(g, c) \/ Gone(g, c)) /\ c' = c
    BY <2>2
  <2> HIDE DEF c
  <2>4. Now(g, c)' \/ Gone(g, c)'
    BY <1>2, <1>3, <2>2, <2>3 DEF Now, Gone
  <2>5. QED
    BY <2>2, <2>4 DEF c
<1>9. PlanSound'
  <2>1. SUFFICES ASSUME NEW p \in Process, At(p, "apply"), NEW g \in Planned(p)
                 PROVE  /\ run[p].plan[g][1] # run[p].plan[g][2] =>
                             Now(g, run[p].plan[g])' \/ Gone(g, run[p].plan[g])'
                        /\ g \in Conflicted /\ conf[g] # run[p].plan[g] => Gone(g, conf[g])'
    BY <1>1 DEF PlanSound, At, Planned, Conflicted, Now, Gone
  <2>2. g \in Games /\ run[p].plan[g] \in Pair
    BY <1>0, PlansAre
  <2>3. ASSUME run[p].plan[g][1] # run[p].plan[g][2]
        PROVE  Now(g, run[p].plan[g])' \/ Gone(g, run[p].plan[g])'
    <3> DEFINE c == run[p].plan[g]
    <3>1. c \in Pair /\ c[1] <= clock /\ c[2] <= clock /\ c[1] # c[2] /\ (Now(g, c) \/ Gone(g, c)) /\ c' = c
      BY <1>0, <1>1, <2>1, <2>2, <2>3 DEF PlanSound, FreshSound
    <3> HIDE DEF c
    <3>2. Now(g, c)' \/ Gone(g, c)'
      BY <1>2, <1>3, <2>2, <3>1 DEF Now, Gone
    <3>3. QED
      BY <3>2 DEF c
  <2>4. ASSUME g \in Conflicted, conf[g] # run[p].plan[g] PROVE Gone(g, conf[g])'
    <3> DEFINE c == conf[g]
    <3>1. c \in Pair /\ c[1] <= clock /\ c[2] <= clock /\ Gone(g, c) /\ c' = c
      BY <1>0, <1>1, <1>c, <2>1, <2>4 DEF PlanSound, FreshSound
    <3> HIDE DEF c
    <3>2. Gone(g, c)'
      BY <1>2, <2>2, <3>1 DEF Gone
    <3>3. QED
      BY <3>2 DEF c
  <2>5. QED
    BY <2>3, <2>4
<1>10. BeforeSound'
  <2>1. ASSUME NEW g \in Games, NEW c \in Pair, Id(g, c) \in Before, Gone(g, c) PROVE Gone(g, c)'
    <3>1. c[1] <= clock /\ c[2] <= clock
      BY <1>0, <2>1 DEF FreshSound, Before, Id
    <3>2. QED
      BY <1>2, <2>1, <3>1
  <2>2. QED
    BY <1>0, <1>1, <2>1 DEF BeforeSound, HookPc, Stopping, Before, Planned
<1>11. PromptSound'
  BY <1>0, <1>1 DEF PromptSound, HookPc, Stopping, Before, Planned, Heard, Active, Conflicted
<1>12. DrainSound' /\ RaceSound'
  BY <1>0, <1>1 DEF DrainSound, RaceSound, HookPc, Stopping, Planned, At
<1>13. QED
  BY <1>t, <1>4, <1>5, <1>6, <1>7, <1>8, <1>9, <1>10, <1>11, <1>12 DEF IInv

-----------------------------------------------------------------------------
(* A conflict is resolved: one of its two contents is given up.            *)

LEMMA ResolveIs ==
    ASSUME IInv, NEW i \in Active, Resolve(i)
    PROVE  \E g \in Conflicted :
             /\ g \in Games /\ conf[g] \in Pair /\ i = Id(g, conf[g]) /\ Now(g, conf[g]) /\ op = Nobody
             /\ local'[g] \in {local[g], remote[g]} /\ remote'[g] = local'[g] /\ base'[g] = local'[g]
             /\ conf'[g] = <<>>
             /\ \A h \in Games : h # g => Untouched(h)
             /\ dirty' = dirty \ {g} /\ escaped' = escaped \ {g} /\ queue' = queue \ {i}
             /\ UNCHANGED <<clock, frontend, run, locks, faults, silent, raced>>
<1>0. Types
  BY DEF IInv
<1>1. PICK g \in Conflicted : g = i[1] /\ g \in Games /\ conf[g] \in Pair /\ i = Id(g, conf[g])
  BY <1>0, ActiveIs DEF Types
<1>2. i[2] = conf[g][1] /\ i[3] = conf[g][2]
  BY <1>1 DEF Id
<1>3. Now(g, conf[g])
  BY <1>1, <1>2 DEF Now, Resolve
<1>4. /\ op = Nobody
      /\ \/ remote' = [remote EXCEPT ![g] = local[g]] /\ base' = [base EXCEPT ![g] = local[g]] /\ local' = local
         \/ local' = [local EXCEPT ![g] = remote[g]] /\ base' = [base EXCEPT ![g] = remote[g]] /\ remote' = remote
      /\ conf' = [conf EXCEPT ![g] = <<>>] /\ dirty' = dirty \ {g}
      /\ escaped' = escaped \ {g} /\ queue' = queue \ {i}
      /\ UNCHANGED <<clock, frontend, run, locks, faults, silent, raced>>
  BY <1>1 DEF Resolve, Settled
<1>5. /\ local'[g] \in {local[g], remote[g]} /\ remote'[g] = local'[g] /\ base'[g] = local'[g]
      /\ conf'[g] = <<>>
  <2>0. /\ conf'[g] = <<>> /\ local \in [Games -> Content] /\ remote \in [Games -> Content]
        /\ base \in [Games -> Content]
    BY <1>0, <1>1, <1>4 DEF Types
  <2>1. CASE remote' = [remote EXCEPT ![g] = local[g]] /\ base' = [base EXCEPT ![g] = local[g]] /\ local' = local
    BY <1>1, <2>0, <2>1
  <2>2. CASE local' = [local EXCEPT ![g] = remote[g]] /\ base' = [base EXCEPT ![g] = remote[g]] /\ remote' = remote
    BY <1>1, <2>0, <2>2
  <2>3. QED
    BY <1>4, <2>0, <2>1, <2>2
<1>6. ASSUME NEW h \in Games, h # g PROVE Untouched(h)
  <2>1. conf'[h] = conf[h] /\ base'[h] = base[h]
    BY <1>0, <1>4, <1>6 DEF Types
  <2>2. local'[h] = local[h] /\ remote'[h] = remote[h]
    BY <1>0, <1>4, <1>6 DEF Types
  <2>3. QED
    BY <2>1, <2>2 DEF Untouched, Kept
<1>7. QED
  BY <1>1, <1>3, <1>4, <1>5, <1>6

LEMMA ResolveInv ==
    ASSUME IInv, Answer \/ ResolveByHand
    PROVE  IInv'
<1>0. /\ Types /\ FrontSound /\ LockSound /\ ChangeSound /\ StaleSound /\ FreshSound /\ ConfSound
      /\ PlanSound /\ BeforeSound /\ PromptSound /\ DrainSound /\ RaceSound
  BY DEF IInv
<1>t. Types'
  BY <1>0, HookTypes
<1>1. PICK i \in Active : Resolve(i)
  BY DEF Answer, Answerable, ResolveByHand
<1>p. popup' = "show" => ask' \in shown'
  BY <1>0, AdvanceIs DEF Answer, ResolveByHand, FrontSound
<1>2. PICK g \in Conflicted :
             /\ g \in Games /\ conf[g] \in Pair /\ i = Id(g, conf[g]) /\ Now(g, conf[g]) /\ op = Nobody
             /\ local'[g] \in {local[g], remote[g]} /\ remote'[g] = local'[g] /\ base'[g] = local'[g]
             /\ conf'[g] = <<>>
             /\ \A h \in Games : h # g => Untouched(h)
             /\ dirty' = dirty \ {g} /\ escaped' = escaped \ {g} /\ queue' = queue \ {i}
             /\ UNCHANGED <<clock, frontend, run, locks, faults, silent, raced>>
  BY <1>1, ResolveIs
<1>3. \A p \in Process : run'[p].pc \notin {"verify", "apply"} /\ run[p].pc \notin {"verify", "apply"}
  BY <1>0, <1>2 DEF LockSound
<1>c. \A h \in Conflicted' : h \in Games /\ h # g /\ h \in Conflicted /\ conf'[h] = conf[h]
  <2>1. SUFFICES ASSUME NEW h \in Games, conf'[h] # <<>>
                 PROVE  h # g /\ h \in Conflicted /\ conf'[h] = conf[h]
    BY DEF Conflicted
  <2>2. h # g
    BY <1>2, <2>1
  <2>3. QED
    BY <1>2, <2>1, <2>2 DEF Conflicted, Untouched
<1>a. Active' = Active \ {i}
  <2>1. \A j \in Active' : j[1] \in Conflicted' /\ j = Id(j[1], conf'[j[1]])
    BY <1>t, ActiveIs DEF Types, Active, Conflicted, Id
  <2>2. \A j \in Active : j[1] \in Conflicted /\ j = Id(j[1], conf[j[1]])
    BY <1>0, ActiveIs DEF Types
  <2>3. i[1] = g
    BY <1>2 DEF Id
  <2>4. ASSUME NEW j \in Active' PROVE j \in Active /\ j # i
    <3>1. j[1] # g /\ j[1] \in Conflicted /\ j = Id(j[1], conf[j[1]])
      BY <1>c, <2>1
    <3>2. QED
      BY <2>3, <3>1 DEF Active, Id
  <2>5. ASSUME NEW j \in Active, j # i PROVE j \in Active'
    <3>1. j[1] \in Games /\ j[1] \in Conflicted /\ j = Id(j[1], conf[j[1]])
      BY <2>2 DEF Conflicted
    <3>2. j[1] # g
      BY <1>2, <2>5, <3>1
    <3>3. conf'[j[1]] = conf[j[1]] /\ j[1] \in Conflicted'
      BY <1>2, <3>1, <3>2 DEF Untouched, Conflicted
    <3>4. QED
      BY <3>1, <3>3 DEF Active, Id
  <2>6. QED
    BY <2>4, <2>5
<1>4. LockSound'
  BY <1>3 DEF LockSound
<1>5. FrontSound'
  BY <1>0, <1>2, <1>p DEF FrontSound, HookPc, Stopping
<1>6. ChangeSound'
  <2>1. ASSUME NEW h \in Changed' PROVE h \in dirty' \cup Conflicted' \/ Open(h)'
    <3>1. h \in Games /\ h # g
      BY <1>2, <2>1 DEF Changed
    <3>2. h \in Changed /\ (h \in Conflicted => h \in Conflicted')
      BY <1>2, <2>1, <3>1 DEF Changed, Untouched, Kept, Conflicted
    <3>3. Open(h) => Open(h)'
      BY <1>2, <3>1 DEF Open, Stopping, HookPc
    <3>4. QED
      BY <1>0, <1>2, <3>1, <3>2, <3>3 DEF ChangeSound
  <2>2. ASSUME HookPc' = "detect" PROVE local'[game'] \in {run'["hook"].seen, base'[game']}
    <3>1. HookPc = "detect" /\ game' = game /\ run' = run /\ game \in Games
      BY <1>0, <1>2, <2>2 DEF HookPc, FrontSound, Types
    <3>2. CASE game = g
      BY <1>2, <3>1, <3>2
    <3>3. CASE game # g
      BY <1>0, <1>2, <3>1, <3>3 DEF ChangeSound, Untouched, Kept
    <3>4. QED
      BY <3>2, <3>3
  <2>3. QED
    BY <2>1, <2>2 DEF ChangeSound
<1>7. StaleSound' /\ PlanSound' /\ RaceSound'
  BY <1>3, HookIs DEF StaleSound, PlanSound, RaceSound, At
<1>8. FreshSound'
  <2>1. ASSUME NEW h \in Games PROVE local'[h] <= clock' /\ remote'[h] <= clock' /\ base'[h] <= clock'
    <3>1. CASE h = g
      BY <1>0, <1>2, <3>1 DEF FreshSound
    <3>2. CASE h # g
      BY <1>0, <1>2, <3>2 DEF FreshSound, Untouched, Kept
    <3>3. QED
      BY <3>1, <3>2
  <2>2. \A h \in Conflicted' : conf'[h][1] <= clock' /\ conf'[h][2] <= clock'
    BY <1>0, <1>2, <1>c DEF FreshSound
  <2>3. \A j \in run'["hook"].before : j[2] <= clock' /\ j[3] <= clock'
    BY <1>0, <1>2 DEF FreshSound
  <2>4. QED
    BY <1>3, <2>1, <2>2, <2>3 DEF FreshSound, At
<1>9. ConfSound'
  <2>1. SUFFICES ASSUME NEW h \in Conflicted'
                 PROVE  /\ conf[h][1] # conf[h][2] /\ base[h] \notin {conf[h][1], conf[h][2]}
                        /\ Now(h, conf[h]) \/ Gone(h, conf[h])
                        /\ conf'[h] = conf[h] /\ Untouched(h)
    BY DEF ConfSound, Untouched, Kept, Now, Gone
  <2>2. QED
    BY <1>0, <1>2, <1>c DEF ConfSound
<1>10. BeforeSound'
  <2>1. SUFFICES ASSUME Stopping, HookPc \in {"enter", "after"}, NEW h \in Games, NEW c \in Pair,
                        Id(h, c) \in Before
                 PROVE  conf'[h] = c \/ Gone(h, c)'
    BY <1>2, <1>3, HookIs DEF BeforeSound, Stopping, HookPc, Before
  <2>2. conf[h] = c \/ Gone(h, c)
    BY <1>0, <2>1 DEF BeforeSound
  <2>3. CASE h # g
    BY <1>2, <2>2, <2>3 DEF Untouched, Kept, Gone
  <2>4. CASE h = g /\ Gone(h, c)
    BY <1>2, <2>4 DEF Gone
  <2>5. CASE h = g /\ conf[h] = c
    <3>1. c[1] # c[2] /\ c[1] = local[h] /\ c[2] = remote[h]
      BY <1>0, <1>2, <2>5 DEF ConfSound, Now
    <3>2. QED
      BY <1>2, <2>5, <3>1 DEF Gone
  <2>6. QED
    BY <2>2, <2>3, <2>4, <2>5
<1>11. PromptSound'
  <2>1. Heard \ {i} \subseteq Heard' /\ Planned("hook")' = Planned("hook") /\ Before' = Before
    BY <1>2 DEF Heard, Planned, Before
  <2>2. QED
    BY <1>0, <1>2, <1>a, <2>1 DEF PromptSound, HookPc, Stopping
<1>12. DrainSound'
  BY <1>0, <1>2, <1>3, HookIs DEF DrainSound, HookPc, Stopping
<1>13. QED
  BY <1>t, <1>4, <1>5, <1>6, <1>7, <1>8, <1>9, <1>10, <1>11, <1>12 DEF IInv

-----------------------------------------------------------------------------
(* A promotion: what was planned is moved and becomes the baseline.        *)

LEMMA AppliedInv ==
    ASSUME IInv, Types', NEW p \in Process, At(p, "apply"), Applied(p)
    PROVE  IInv'
<1>0. /\ Types /\ FrontSound /\ LockSound /\ ChangeSound /\ StaleSound /\ FreshSound /\ ConfSound
      /\ PlanSound /\ BeforeSound /\ PromptSound /\ DrainSound /\ RaceSound
  BY DEF IInv
<1> DEFINE plan == run[p].plan
<1>t. Types'
  OBVIOUS
<1>1. /\ op' = Nobody /\ Moved(p, {"after"}) /\ Same(p) /\ dirty' = dirty \ Planned(p)
      /\ silent \subseteq silent' /\ (p = "hook" => silent' = silent)
      /\ p # "hook" => \A g \in Planned(p) : conf'[g] # <<>> => Id(g, conf'[g]) \in silent'
      /\ escaped' = escaped \ {g \in Planned(p) : plan[g][1] = local[g]}
      /\ UNCHANGED <<clock, frontend, worker, prompts, faults, raced>>
  BY DEF Applied
<1>2. \A g \in Games : g \notin Planned(p) => Untouched(g)
  BY DEF Applied
<1>3. \A g \in Planned(p) : \/ AsSame(g, plan[g]) \/ AsUpload(g, plan[g])
                            \/ AsDownload(g, plan[g]) \/ AsConflict(g, plan[g])
  BY DEF Applied
<1>4. /\ Planned(p) \subseteq Games
      /\ \A g \in Planned(p) : plan[g] \in Pair /\ plan[g][1] \in Content /\ plan[g][2] \in Content
  BY <1>0, PlansAre
<1>5. \A q \in Process : /\ q # p => run[q].pc \notin {"verify", "apply"} /\ run'[q] = run[q]
                         /\ run'[q].pc \notin {"verify", "apply"}
  BY <1>0, <1>1 DEF LockSound, Moved, At
<1>h. /\ p # "hook" => run'["hook"] = run["hook"]
      /\ p = "hook" => /\ HookPc = "apply" /\ HookPc' = "after" /\ Before' = Before
                       /\ run'["hook"].new = run["hook"].new /\ front \in {"starting", "stopping"}
                       /\ Planned("hook")' = Planned("hook")
  <2>1. p = "hook" => HookPc = "apply" /\ HookPc' = "after" /\ Before' = Before
                      /\ run'["hook"].new = run["hook"].new /\ Planned("hook")' = Planned("hook")
    BY <1>1 DEF Moved, Same, HookPc, Before, Planned, At
  <2>2. p = "hook" => front \in {"starting", "stopping"}
    BY <1>0, <2>1 DEF FrontSound, Types
  <2>3. QED
    BY <1>5, <2>1, <2>2, HookIs
<1>u. ASSUME NEW g \in Games, g \notin Planned(p)
      PROVE  local'[g] = local[g] /\ remote'[g] = remote[g] /\ base'[g] = base[g] /\ conf'[g] = conf[g]
  BY <1>2, <1>u DEF Untouched, Kept
\* No side takes a content that neither side had.
<1>s. \A g \in Games : local'[g] \in {local[g], remote[g]} /\ remote'[g] \in {local[g], remote[g]}
  <2>1. SUFFICES ASSUME NEW g \in Planned(p)
                 PROVE  local'[g] \in {local[g], remote[g]} /\ remote'[g] \in {local[g], remote[g]}
    BY <1>u
  <2>2. QED
    BY <1>3, <2>1 DEF AsSame, AsUpload, AsDownload, AsConflict, Kept, Now
<1>g. \A g \in Games, c \in Pair : Gone(g, c) => Gone(g, c)'
  BY <1>s DEF Gone
\* A conflict that is not kept has lost one of its contents for good.
<1>c. \A g \in Conflicted, c \in Pair : conf[g] = c => conf'[g] = c \/ Gone(g, c)'
  <2>1. SUFFICES ASSUME NEW g \in Conflicted, NEW c \in Pair, conf[g] = c, conf'[g] # conf[g]
                 PROVE  Gone(g, c)'
    OBVIOUS
  <2>2. g \in Planned(p) /\ g \in Games /\ conf[g] \in Pair /\ conf'[g] \in {plan[g], <<>>}
    <3>1. g \in Games /\ conf[g] \in Pair
      BY <1>0, ActiveIs DEF Types
    <3>2. g \in Planned(p)
      BY <1>u, <2>1, <3>1
    <3>3. QED
      BY <1>3, <3>1, <3>2 DEF AsSame, AsUpload, AsDownload, AsConflict
  <2>3. conf[g] # plan[g] \/ base[g] \in {plan[g][1], plan[g][2]} \/ plan[g][1] = plan[g][2]
    BY <1>3, <2>1, <2>2 DEF AsSame, AsUpload, AsDownload, AsConflict
  <2>4. conf[g] # plan[g]
    BY <1>0, <2>3 DEF ConfSound
  <2>5. Gone(g, conf[g])
    BY <1>0, <2>2, <2>4 DEF PlanSound
  <2>6. QED
    BY <1>g, <2>1, <2>2, <2>5
<1>n. \A g \in Conflicted' : /\ g \in Games
                             /\ g \in Planned(p) => AsConflict(g, plan[g])
                             /\ g \notin Planned(p) => g \in Conflicted /\ Untouched(g)
  <2>1. SUFFICES ASSUME NEW g \in Games, conf'[g] # <<>>
                 PROVE  /\ g \in Planned(p) => AsConflict(g, plan[g])
                        /\ g \notin Planned(p) => g \in Conflicted /\ Untouched(g)
    BY DEF Conflicted
  <2>2. ASSUME g \in Planned(p) PROVE AsConflict(g, plan[g])
    BY <1>3, <2>1, <2>2 DEF AsSame, AsUpload, AsDownload
  <2>3. ASSUME g \notin Planned(p) PROVE g \in Conflicted /\ Untouched(g)
    BY <1>2, <2>1, <2>3 DEF Untouched, Conflicted
  <2>4. QED
    BY <2>2, <2>3
<1>6. LockSound'
  BY <1>5 DEF LockSound
<1>7. FrontSound'
  <2>1. CASE p = "hook"
    BY <1>0, <1>1, <1>h, <1>5, <2>1, HookIs DEF FrontSound, Stopping, Passing, Early, HookPc
  <2>2. CASE p # "hook"
    <3>1. \A q \in {"tick", "drain"} : run'[q].pc \in Passing \cup {"idle", "spawned"}
      BY <1>0, <1>1, <1>5, <2>2, HookIs DEF FrontSound, Moved, Passing
    <3>2. QED
      BY <1>0, <1>1, <1>h, <2>2, <3>1 DEF FrontSound, Stopping, HookPc
  <2>3. QED
    BY <2>1, <2>2
<1>o. \A g \in Games : Open(g) /\ ~(g \in Planned(p) /\ plan[g][1] = local[g]) => Open(g)'
  <2>1. p = "hook" => HookPc \notin Early
    BY <1>h DEF Early
  <2>2. QED
    BY <1>1, <1>h, <2>1 DEF Open, Stopping, HookPc
<1>8. ChangeSound'
  <2>1. ASSUME NEW g \in Changed' PROVE g \in dirty' \cup Conflicted' \/ Open(g)'
    <3>1. g \in Games /\ local'[g] # base'[g]
      BY <2>1 DEF Changed
    <3>2. CASE g \notin Planned(p)
      <4>1. g \in Changed /\ (g \in Conflicted => g \in Conflicted')
        BY <1>u, <3>1, <3>2 DEF Changed, Conflicted
      <4>2. QED
        BY <1>0, <1>1, <1>o, <3>1, <3>2, <4>1 DEF ChangeSound
    <3>3. CASE g \in Planned(p) /\ AsSame(g, plan[g])
      <4>1. plan[g][1] # local[g]
        BY <3>1, <3>3 DEF AsSame, Kept
      <4>2. Open(g)
        BY <1>0, <3>3, <4>1 DEF StaleSound
      <4>3. QED
        BY <1>o, <3>1, <4>1, <4>2
    <3>4. CASE g \in Planned(p) /\ AsConflict(g, plan[g])
      <4>1. conf'[g] # <<>>
        BY <1>4, <3>4, PairIs DEF AsConflict
      <4>2. QED
        BY <3>1, <4>1 DEF Conflicted
    <3>5. CASE g \in Planned(p) /\ (AsUpload(g, plan[g]) \/ AsDownload(g, plan[g]))
      BY <3>1, <3>5 DEF AsUpload, AsDownload
    <3>6. QED
      BY <1>3, <3>2, <3>3, <3>4, <3>5
  <2>2. ASSUME HookPc' = "detect" PROVE local'[game'] \in {run'["hook"].seen, base'[game']}
    <3>1. p # "hook"
      BY <1>h, <2>2
    <3>2. HookPc = "detect" /\ run'["hook"] = run["hook"] /\ game' = game
      BY <1>1, <1>h, <2>2, <3>1 DEF HookPc
    <3>3. game \in Games /\ local[game] \in {run["hook"].seen, base[game]}
      BY <1>0, <3>2 DEF FrontSound, ChangeSound, Types
    <3>4. CASE game \notin Planned(p)
      BY <1>u, <3>2, <3>3, <3>4
    <3>5. CASE game \in Planned(p) /\ AsSame(game, plan[game])
      <4>1. plan[game][1] # local[game] => local[game] # base[game]
        BY <1>0, <3>5 DEF StaleSound, Changed
      <4>2. QED
        BY <3>2, <3>3, <3>5, <4>1 DEF AsSame, Kept
    <3>6. CASE game \in Planned(p) /\ ~AsSame(game, plan[game])
      BY <1>3, <3>2, <3>3, <3>6 DEF AsUpload, AsDownload, AsConflict, Kept
    <3>7. QED
      BY <3>4, <3>5, <3>6
  <2>3. QED
    BY <2>1, <2>2 DEF ChangeSound
<1>9. StaleSound' /\ PlanSound' /\ RaceSound'
  BY <1>5, HookIs DEF StaleSound, PlanSound, RaceSound, At
<1>10. FreshSound'
  <2>0. clock' = clock /\ \A g \in Planned(p) : plan[g][1] <= clock /\ plan[g][2] <= clock
    BY <1>0, <1>1 DEF FreshSound
  <2>1. \A g \in Games : local'[g] <= clock' /\ remote'[g] <= clock'
    BY <1>0, <1>s, <2>0 DEF FreshSound
  <2>2. ASSUME NEW g \in Games PROVE base'[g] <= clock'
    <3>1. CASE g \notin Planned(p)
      BY <1>0, <1>u, <2>0, <3>1 DEF FreshSound
    <3>2. CASE g \in Planned(p)
      BY <1>0, <1>3, <2>0, <3>2 DEF FreshSound, AsSame, AsUpload, AsDownload, AsConflict
    <3>3. QED
      BY <3>1, <3>2
  <2>3. ASSUME NEW g \in Conflicted' PROVE conf'[g][1] <= clock' /\ conf'[g][2] <= clock'
    BY <1>0, <1>n, <2>0, <2>3 DEF FreshSound, AsConflict, Untouched
  <2>4. Before' = Before
    BY <1>h DEF Before
  <2>5. QED
    BY <1>0, <1>5, <2>0, <2>1, <2>2, <2>3, <2>4 DEF FreshSound, At, Before
<1>11. ConfSound'
  <2>1. SUFFICES ASSUME NEW g \in Conflicted'
                 PROVE  /\ conf'[g][1] # conf'[g][2] /\ base'[g] \notin {conf'[g][1], conf'[g][2]}
                        /\ Now(g, conf[g])' \/ Gone(g, conf[g])'
    BY DEF ConfSound
  <2>2. CASE g \in Planned(p)
    <3>1. AsConflict(g, plan[g]) /\ (Now(g, plan[g]) \/ Gone(g, plan[g]))
      BY <1>0, <1>n, <2>2 DEF PlanSound, AsConflict
    <3>2. QED
      BY <3>1 DEF AsConflict, Kept, Now, Gone
  <2>3. CASE g \notin Planned(p)
    BY <1>0, <1>n, <2>3 DEF ConfSound, Untouched, Kept, Now, Gone
  <2>4. QED
    BY <2>2, <2>3
<1>12. BeforeSound'
  <2>1. SUFFICES ASSUME Stopping', HookPc' \in {"enter", "after"}, NEW g \in Games, NEW c \in Pair,
                        Id(g, c) \in Before'
                 PROVE  conf'[g] = c \/ Gone(g, c)'
    BY <1>5, HookIs DEF BeforeSound, HookPc
  <2>2. Stopping /\ HookPc \in {"enter", "apply", "after"} /\ Id(g, c) \in Before
    BY <1>1, <1>h, <2>1 DEF Stopping, HookPc, Before
  <2>3. conf[g] = c \/ Gone(g, c)
    BY <1>0, <2>2 DEF BeforeSound
  <2>4. CASE Gone(g, c)
    BY <1>g, <2>4
  <2>5. CASE conf[g] = c
    <3>1. g \in Conflicted
      BY <2>5, PairIs DEF Conflicted
    <3>2. QED
      BY <1>c, <2>5, <3>1
  <2>6. QED
    BY <2>3, <2>4, <2>5
<1>13. PromptSound'
  <2>1. Heard \subseteq Heard'
    BY <1>1 DEF Heard
  <2>2. \A i \in Active' : \/ i \in Active
                           \/ i[1] \in Planned(p) /\ i = Id(i[1], plan[i[1]]) /\ (p # "hook" => i \in Heard')
    <3>1. SUFFICES ASSUME NEW i \in Active', i \notin Active
                   PROVE  i[1] \in Planned(p) /\ i = Id(i[1], plan[i[1]]) /\ (p # "hook" => i \in Heard')
      OBVIOUS
    <3>2. i[1] \in Conflicted' /\ i = Id(i[1], conf'[i[1]])
      BY <1>t, ActiveIs DEF Types, Active, Conflicted, Id
    <3> DEFINE g == i[1]
    <3>3. g \in Games /\ conf'[g] # <<>> /\ i = Id(g, conf'[g])
      BY <3>2 DEF Conflicted
    <3>4. g \in Planned(p)
      <4>1. SUFFICES ASSUME g \notin Planned(p) PROVE FALSE
        OBVIOUS
      <4>2. conf'[g] = conf[g]
        BY <1>u, <3>3, <4>1
      <4>3. Id(g, conf[g]) \in Active
        BY <3>3, <4>2 DEF Active, Conflicted, Id
      <4>4. QED
        BY <3>1, <3>3, <4>2, <4>3
    <3>5. conf'[g] = plan[g]
      BY <1>n, <3>2, <3>4 DEF AsConflict
    <3>6. QED
      BY <1>1, <3>3, <3>4, <3>5 DEF Heard
  <2>3. CASE p = "hook"
    <3>1. HookPc = "apply" /\ HookPc' = "after" /\ Active \subseteq Heard /\ Before' = Before
          /\ Planned("hook")' = Planned("hook") /\ front' = front /\ game' = game
      BY <1>0, <1>1, <1>h, <2>3 DEF PromptSound
    <3>2. ASSUME Stopping, NEW i \in Active', i \in Before PROVE i \in Heard'
      <4>1. CASE i \in Active
        BY <2>1, <3>1, <4>1
      <4>2. CASE i[1] \in Planned("hook") /\ i = Id(i[1], plan[i[1]])
        <5>1. conf[i[1]] = plan[i[1]] /\ i[1] \in Games /\ plan[i[1]] \in Pair
          BY <1>0, <1>4, <2>3, <3>1, <3>2, <4>2 DEF BeforeSound
        <5>2. i \in Active
          BY <1>0, <4>2, <5>1, ActiveIs DEF Types
        <5>3. QED
          BY <2>1, <3>1, <5>2
      <4>3. QED
        BY <2>2, <2>3, <4>1, <4>2
    <3>3. ASSUME front = "starting", NEW i \in Active'
          PROVE  i \in Heard' \/ (i[1] = game /\ game \in Planned("hook"))
      <4>1. Planned("hook") \subseteq {game}
        BY <1>0, <3>3 DEF PromptSound
      <4>2. QED
        BY <2>1, <2>2, <2>3, <3>1, <4>1
    <3>4. front = "starting" => Planned("hook") \subseteq {game}
      BY <1>0 DEF PromptSound
    <3>5. QED
      BY <3>1, <3>2, <3>3, <3>4 DEF PromptSound, Stopping, HookPc, Before
  <2>4. CASE p # "hook"
    <3>1. \A i \in Active' : i \in Active \/ i \in Heard'
      BY <2>2, <2>4
    <3>2. HookPc' = HookPc /\ Before' = Before /\ Planned("hook")' = Planned("hook")
          /\ front' = front /\ game' = game
      BY <1>1, <1>h, <2>4 DEF HookPc, Before, Planned
    <3>3. QED
      BY <1>0, <2>1, <3>1, <3>2 DEF PromptSound, Stopping
  <2>5. QED
    BY <2>3, <2>4
<1>14. DrainSound'
  <2>1. CASE p = "hook"
    BY <1>0, <1>1, <1>h, <2>1 DEF DrainSound, Stopping
  <2>2. CASE p # "hook"
    BY <1>0, <1>1, <1>h, <1>5, <2>2, HookIs DEF DrainSound, Stopping, HookPc
  <2>3. QED
    BY <2>1, <2>2
<1>15. QED
  BY <1>6, <1>7, <1>8, <1>9, <1>10, <1>11, <1>12, <1>13, <1>14 DEF IInv

-----------------------------------------------------------------------------
(* Steps of the hook and of the frontend.                                  *)

\* A session that is not open any more leaves no change behind; what the hook is
\* about to compare is the save as it is.
Observed == run'["hook"].pc = "detect" =>
               \/ HookPc = "detect" /\ game' = game /\ run'["hook"].seen = run["hook"].seen
               \/ local[game'] = run'["hook"].seen

LEMMA StepInv ==
    ASSUME IInv, Types', UNCHANGED <<local, remote, base, conf, clock, dirty>>, raced \subseteq raced',
           Watched, StaysOpen, Observed, run'["hook"].before \subseteq Before \cup Active,
           front' \in {"starting", "playing"} => front \in {"starting", "playing"} /\ game' = game,
           \A q \in {"tick", "drain"} : run'[q].pc = "apply" => At(q, "apply"),
           LockSound', FrontSound', (BeforeSound /\ PromptSound /\ DrainSound)'
    PROVE  IInv'
<1>0. ChangeSound /\ RaceSound /\ FrontSound
  BY DEF IInv
<1>1. (StaleSound /\ FreshSound /\ ConfSound /\ PlanSound)'
  BY DataKept
<1>2. ChangeSound'
  BY <1>0, ChangeKept DEF Observed
<1>3. RaceSound'
  BY <1>0, RaceKept
<1>4. QED
  BY <1>1, <1>2, <1>3 DEF IInv

\* The hook has no pass to look after.
LEMMA HookOut ==
    ASSUME run'["hook"].pc \notin {"after", "fail"},
           front' = "stopping" => run'["hook"].pc \notin {"enter", "verify", "apply"},
           Active' \subseteq Heard', front' = "starting" => DOMAIN run'["hook"].plan \subseteq {game'}
    PROVE  (BeforeSound /\ PromptSound /\ DrainSound)'
<1>1. BeforeSound' /\ DrainSound'
  BY DEF BeforeSound, DrainSound, Stopping, HookPc
<1>2. PromptSound'
  BY DEF PromptSound, Stopping, HookPc, Planned
<1>3. QED
  BY <1>1, <1>2

LEMMA FrontInv ==
    ASSUME IInv, Play \/ Exit \/ Return \/ FrontendDies \/ RetireMarker \/ Settle
    PROVE  IInv'
<1>0. /\ Types /\ FrontSound /\ LockSound /\ PromptSound
  BY DEF IInv
<1>t. Types'
  BY <1>0, FrontTypes, HookTypes
<1>f. game \in Games <=> front # "menu"
  BY <1>0 DEF FrontSound, Types
<1>s. HookPc \in Early => Stopping
  BY <1>0 DEF FrontSound, Types, Stopping, Early
<1>d. UNCHANGED <<local, remote, base, conf, clock, dirty, op, raced, silent, prompts>>
  BY DEF Play, Exit, Return, FrontendDies, RetireMarker, Settle
\* The hook is at none of the places that matter to a pass.
<1>a. ASSUME Moved("hook", {"idle", "retire", "settle", "detect", "leave"}),
             Blank("hook") \/ (Same("hook") /\ front' # "starting"),
             StaysOpen, Observed, FrontSound', HookPc \notin {"after", "fail"},
             front' \in {"starting", "playing"} => front \in {"starting", "playing"} /\ game' = game
      PROVE  IInv'
  <2>1. LockSound'
    BY <1>0, <1>a, <1>d, HookIs, LockLeft
  <2>2. Watched /\ \A q \in {"tick", "drain"} : run'[q].pc = "apply" => At(q, "apply")
    BY <1>a, HookIs, WatchedLeft
  <2>3. Active' \subseteq Heard'
    BY <1>0, <1>a, <1>d DEF PromptSound, Active, Conflicted, Heard
  <2>4. run'["hook"].before \subseteq Before \cup Active
    BY <1>a DEF Blank, Same, Before
  <2>5. front' = "starting" => DOMAIN run'["hook"].plan \subseteq {game'}
    BY <1>a, NoPlan DEF Blank
  <2>6. run'["hook"].pc \notin {"after", "fail", "enter", "verify", "apply"}
    BY <1>a DEF Moved
  <2>7. (BeforeSound /\ PromptSound /\ DrainSound)'
    BY <2>3, <2>5, <2>6, HookOut
  <2>8. QED
    BY <1>a, <1>d, <1>t, <2>1, <2>2, <2>4, <2>7, StepInv
<1>p. (popup = "show" => ask \in shown) /\ UNCHANGED prompts
      /\ \A q \in {"tick", "drain"} : run[q].pc \in Passing \cup {"idle", "spawned"}
  BY <1>0, <1>d DEF FrontSound
<1>m. ASSUME NEW S, Moved("hook", S) PROVE \A q \in {"tick", "drain"} : run'[q] = run[q]
  BY <1>m, HookIs DEF Moved
<1>1. CASE Play
  <2>1. Moved("hook", {"idle"}) /\ Blank("hook")
    BY <1>0, <1>1, BackIs
  <2>2. Moved("hook", {"idle", "retire", "settle", "detect", "leave"})
    BY <2>1 DEF Moved
  <2>3. /\ front = "starting" /\ HookPc = "leave" /\ front' = "playing" /\ game' = game /\ marker' = marker
        /\ escaped' = escaped /\ HookPc' = "idle" /\ run'["hook"].new = {}
    BY <1>1, <2>1 DEF Play, Starting, At, HookPc, Moved, Blank
  <2>4. StaysOpen
    BY <2>3 DEF StaysOpen, Open, Stopping
  <2>5. FrontSound'
    BY <1>0, <1>p, <1>m, <2>1, <2>3 DEF FrontSound, Stopping, HookPc
  <2>6. Observed
    BY <2>3 DEF Observed, HookPc
  <2>7. QED
    BY <1>a, <2>1, <2>2, <2>3, <2>4, <2>5, <2>6
<1>2. CASE Exit
  <2>1. Moved("hook", {"retire"}) /\ Blank("hook")
    BY <1>0, <1>2, ExitIs
  <2>2. Moved("hook", {"idle", "retire", "settle", "detect", "leave"})
    BY <2>1 DEF Moved
  <2>3. /\ front = "playing" /\ HookPc = "idle" /\ front' = "stopping" /\ game' = game /\ marker' = marker
        /\ escaped' = escaped /\ HookPc' = "retire" /\ run'["hook"].new = {}
    BY <1>0, <1>2, <2>1 DEF Exit, FrontSound, HookPc, Moved, Blank
  <2>4. StaysOpen
    BY <2>3 DEF StaysOpen, Open, Stopping, Early
  <2>5. FrontSound'
    BY <1>0, <1>p, <1>m, <2>1, <2>3 DEF FrontSound, Stopping, HookPc, Early, Passing
  <2>6. Observed
    BY <2>3 DEF Observed, HookPc
  <2>7. QED
    BY <1>a, <2>1, <2>2, <2>3, <2>4, <2>5, <2>6
<1>3. CASE Return
  <2>1. Moved("hook", {"idle"}) /\ Blank("hook")
    BY <1>0, <1>3, BackIs
  <2>2. Moved("hook", {"idle", "retire", "settle", "detect", "leave"})
    BY <2>1 DEF Moved
  <2>3. /\ front = "stopping" /\ HookPc = "leave" /\ front' = "menu" /\ game' = NoGame /\ marker' = marker
        /\ escaped' = escaped /\ HookPc' = "idle" /\ run'["hook"].new = {}
    BY <1>3, <2>1 DEF Return, At, HookPc, Moved, Blank
  <2>4. StaysOpen
    BY <2>3 DEF StaysOpen, Open, Stopping, Early
  <2>5. FrontSound'
    BY <1>0, <1>p, <1>m, <2>1, <2>3 DEF FrontSound, Stopping, HookPc
  <2>6. Observed
    BY <2>3 DEF Observed, HookPc
  <2>7. QED
    BY <1>a, <2>1, <2>2, <2>3, <2>4, <2>5, <2>6
<1>4. CASE FrontendDies
  <2>1. /\ front = "playing" /\ front' = "menu" /\ game' = NoGame /\ marker' = marker /\ run' = run
        /\ escaped' = escaped /\ HookPc = "idle" /\ game \in marker
    BY <1>0, <1>4 DEF FrontendDies, FrontSound
  <2>2. Moved("hook", {"idle", "retire", "settle", "detect", "leave"}) /\ Same("hook")
    BY <1>0, <2>1 DEF Moved, Same, Types, HookPc
  <2>4. StaysOpen
    BY <2>1 DEF StaysOpen, Open, Stopping
  <2>5. FrontSound'
    BY <1>0, <1>p, <2>1 DEF FrontSound, Stopping, HookPc
  <2>6. Observed
    BY <2>1 DEF Observed, HookPc
  <2>7. QED
    BY <1>a, <2>1, <2>2, <2>4, <2>5, <2>6
<1>5. CASE RetireMarker
  <2>1. HookPc = "retire" /\ Stopping /\ game \in Games
    BY <1>f, <1>s, <1>5 DEF RetireMarker, At, HookPc, Early, Stopping
  <2>2. Moved("hook", {"settle"}) /\ Same("hook")
    BY <1>0, <1>5, <2>1, RetireIs
  <2>3. /\ front' = "stopping" /\ game' = game /\ marker' = marker \ {game} /\ front = "stopping"
        /\ escaped' = escaped /\ HookPc' = "settle" /\ run'["hook"].new = {}
    BY <1>0, <1>5, <2>1, <2>2 DEF RetireMarker, HookPc, Moved, Same, Stopping, FrontSound
  <2>4. Moved("hook", {"idle", "retire", "settle", "detect", "leave"})
    BY <2>2 DEF Moved
  <2>5. StaysOpen
    BY <2>3 DEF StaysOpen, Open, Stopping, Early
  <2>6. FrontSound'
    BY <1>0, <1>p, <1>m, <2>2, <2>3 DEF FrontSound, Stopping, HookPc, Early, Passing
  <2>7. Observed
    BY <2>3 DEF Observed, HookPc
  <2>8. QED
    BY <1>a, <2>1, <2>2, <2>3, <2>4, <2>5, <2>6, <2>7
<1>6. CASE Settle
  <2>1. HookPc = "settle" /\ Stopping /\ game \in Games
    BY <1>f, <1>s, <1>6 DEF Settle, At, HookPc, Early, Stopping
  <2>2. /\ Moved("hook", {"settle", "detect", "leave"}) /\ Same("hook")
        /\ run'["hook"].pc = "detect" => local[game] = run'["hook"].seen
    BY <1>0, <1>6, <2>1, SettleIs
  <2>3. /\ front' = "stopping" /\ game' = game /\ marker' = marker /\ front = "stopping"
        /\ HookPc' \in {"settle", "detect", "leave"} /\ run'["hook"].new = {}
        /\ escaped \subseteq escaped'
    BY <1>0, <1>6, <2>1, <2>2 DEF Settle, HookPc, Moved, Same, Stopping, FrontSound
  <2>4. Moved("hook", {"idle", "retire", "settle", "detect", "leave"})
    BY <2>2 DEF Moved
  <2>5. StaysOpen
    <3>1. HookPc' = "leave" => escaped' = escaped \cup ({game} \cap Changed)
      <4>1. Goto("hook", "detect") => HookPc' = "detect"
        BY <1>0, HookIs, PcsAre, GotoIs DEF HookPc
      <4>2. run' = [run EXCEPT !["hook"].tries = @ + 1, !["hook"].seen = local[game]] => HookPc' = HookPc
        BY <1>0, HookIs DEF HookPc, Types, Runs
      <4>3. QED
        BY <1>6, <2>1, <4>1, <4>2 DEF Settle
    <3>2. QED
      BY <2>3, <3>1 DEF StaysOpen, Open, Stopping, Early
  <2>6. FrontSound'
    BY <1>0, <1>p, <1>m, <2>2, <2>3 DEF FrontSound, Stopping, HookPc, Early, Passing
  <2>7. Observed
    BY <2>2, <2>3 DEF Observed, HookPc
  <2>8. QED
    BY <1>a, <2>1, <2>2, <2>3, <2>4, <2>5, <2>6, <2>7
<1>7. QED
  BY <1>1, <1>2, <1>3, <1>4, <1>5, <1>6

LEMMA StartInv ==
    ASSUME IInv, ConcludeStart \/ Released
    PROVE  IInv'
<1>0. /\ Types /\ FrontSound /\ LockSound /\ PromptSound
  BY DEF IInv
<1>t. Types'
  BY <1>0, HookTypes
<1>1. Moved("hook", {"leave", "held"}) /\ Same("hook")
  BY <1>0, StartedIs
<1>2. /\ UNCHANGED <<local, remote, base, conf, clock, dirty, op, raced, silent, escaped, marker, front, game>>
      /\ shown' = shown /\ ask' = ask /\ (popup' = popup \/ popup' = "load")
  BY DEF ConcludeStart, Released
<1>3. front = "starting" /\ HookPc \in {"after", "held"} /\ (HookPc = "after" => ConcludeStart)
  <2>1. ASSUME ConcludeStart PROVE front = "starting" /\ HookPc = "after"
    BY <2>1 DEF ConcludeStart, Starting, At, HookPc
  <2>2. ASSUME Released PROVE front = "starting" /\ HookPc = "held"
    BY <1>0, <2>2 DEF Released, At, HookPc, FrontSound, Types, Stopping, Early, Passing
  <2>3. QED
    BY <2>1, <2>2
<1>4. LockSound'
  BY <1>0, <1>1, <1>2, HookIs, LockLeft
<1>5. Watched /\ \A q \in {"tick", "drain"} : run'[q].pc = "apply" => At(q, "apply")
  BY <1>1, HookIs, WatchedLeft
<1>6. StaysOpen
  BY <1>2, <1>3 DEF StaysOpen, Open, Stopping
<1>7. Observed
  BY <1>1 DEF Observed, Moved
<1>8. FrontSound'
  BY <1>0, <1>1, <1>2, <1>3, HookIs DEF FrontSound, Stopping, HookPc, Moved, Same
<1>9. Active' \subseteq Heard'
  <2>1. Active' = Active
    BY <1>2 DEF Active, Conflicted
  <2>2. CASE HookPc = "held"
    <3>1. Active \subseteq Heard
      BY <1>0, <2>2 DEF PromptSound
    <3>2. queue \subseteq queue'
      BY DEF ConcludeStart, Released
    <3>3. QED
      BY <1>2, <2>1, <3>1, <3>2 DEF Heard
  <2>3. CASE HookPc = "after"
    <3>1. \A i \in Active : i \in Heard \/ (i[1] = game /\ game \in Planned("hook"))
      BY <1>0, <1>3, <2>3 DEF PromptSound
    <3>2. queue' = queue \cup {i \in Active : i[1] = game /\ game \in Planned("hook")}
      BY <1>3, <2>3 DEF ConcludeStart
    <3>3. QED
      BY <1>2, <2>1, <3>1, <3>2 DEF Heard
  <2>4. QED
    BY <1>3, <2>2, <2>3
<1>10. (BeforeSound /\ PromptSound /\ DrainSound)'
  <2>1. run'["hook"].pc \notin {"after", "fail", "enter", "verify", "apply"}
    BY <1>1 DEF Moved
  <2>2. front' = "starting" => DOMAIN run'["hook"].plan \subseteq {game'}
    BY <1>0, <1>1, <1>2 DEF PromptSound, Same, Planned
  <2>3. QED
    BY <1>9, <2>1, <2>2, HookOut
<1>11. run'["hook"].before \subseteq Before \cup Active
  BY <1>1 DEF Same, Before
<1>12. QED
  BY <1>t, <1>2, <1>4, <1>5, <1>6, <1>7, <1>8, <1>10, <1>11, StepInv

LEMMA LaunchInv ==
    ASSUME IInv, NEW g \in Games, Launch(g)
    PROVE  IInv'
<1>0. /\ Types /\ FrontSound /\ LockSound /\ PromptSound /\ ChangeSound /\ RaceSound
  BY DEF IInv
<1>t. Types'
  BY <1>0, FrontTypes
<1>1. Moved("hook", {"enter", "leave"}) /\ Blank("hook")
  BY <1>0, LaunchIs
<1>2. /\ UNCHANGED <<local, remote, base, conf, clock, dirty, op, silent, escaped, prompts>>
      /\ front = "menu" /\ HookPc = "idle" /\ front' = "starting" /\ game' = g /\ marker' = marker \cup {g}
      /\ raced' = IF \E p \in Process : At(p, "apply") /\ g \in DOMAIN run[p].plan THEN raced \cup {g} ELSE raced
  BY DEF Launch, At, HookPc
<1>3. LockSound'
  BY <1>0, <1>1, <1>2, HookIs, LockLeft
<1>4. Watched /\ \A q \in {"tick", "drain"} : run'[q].pc = "apply" => At(q, "apply")
  BY <1>1, HookIs, WatchedLeft
<1>5. StaysOpen
  BY <1>2 DEF StaysOpen, Open, Stopping
<1>6. Observed
  BY <1>1 DEF Observed, Moved
<1>7. run'["hook"].before \subseteq Before \cup Active
  BY <1>1 DEF Blank
<1>8. (StaleSound /\ FreshSound /\ ConfSound /\ PlanSound)'
  BY <1>t, <1>2, <1>4, <1>5, <1>7, DataKept
<1>9. ChangeSound'
  BY <1>0, <1>2, <1>5, <1>6, ChangeKept DEF Observed
<1>10. FrontSound'
  BY <1>0, <1>1, <1>2, HookIs DEF FrontSound, Stopping, HookPc, Moved, Blank
<1>11. (BeforeSound /\ PromptSound /\ DrainSound)'
  <2>1. run'["hook"].pc \notin {"after", "fail"} /\ front' # "stopping"
    BY <1>1, <1>2 DEF Moved
  <2>2. Active' \subseteq Heard'
    BY <1>0, <1>2 DEF PromptSound, Active, Conflicted, Heard
  <2>3. DOMAIN run'["hook"].plan \subseteq {game'}
    BY <1>1, NoPlan DEF Blank
  <2>4. QED
    BY <2>1, <2>2, <2>3, HookOut
<1>12. RaceSound'
  <2>1. SUFFICES ASSUME NEW q \in {"tick", "drain"}, run'[q].pc = "apply", game' \in DOMAIN run'[q].plan
                 PROVE  game' \in raced'
    BY DEF RaceSound, At, Planned
  <2>2. q \in Process /\ run'[q] = run[q]
    BY <1>1, <2>1, HookIs DEF Moved
  <2>3. QED
    BY <1>2, <2>1, <2>2 DEF At
<1>13. QED
  BY <1>t, <1>3, <1>8, <1>9, <1>10, <1>11, <1>12 DEF IInv

LEMMA DetectInv ==
    ASSUME IInv, Detect
    PROVE  IInv'
<1>0. /\ Types /\ FrontSound /\ LockSound /\ PromptSound /\ ChangeSound
  BY DEF IInv
<1>t. Types'
  BY <1>0, HookTypes
<1>1. /\ Blank("hook")
      /\ \/ marker # {} /\ Moved("hook", {"leave"})
         \/ marker = {} /\ Moved("hook", {"acquire"})
  BY <1>0, DetectIs
<1>2. /\ UNCHANGED <<local, remote, base, conf, clock, op, raced, silent, marker, front, game, prompts>>
      /\ op = Nobody /\ HookPc = "detect" /\ escaped' = escaped \ {game}
      /\ dirty' = IF run["hook"].seen # base[game] THEN dirty \cup {game} ELSE dirty
  BY DEF Detect, At, HookPc
<1>3. Stopping /\ game \in Games
  BY <1>0, <1>2 DEF FrontSound, Types, Stopping
<1>4. Moved("hook", {"leave", "acquire"}) /\ Moved("hook", {HookPc'})
  BY <1>1 DEF Moved, HookPc
<1>5. LockSound' /\ \A p \in Process : run'[p].pc # "apply"
  <2>1. LockSound'
    BY <1>0, <1>2, <1>4, HookIs, LockLeft
  <2>2. QED
    BY <1>0, <1>2, <2>1 DEF LockSound
<1>6. Watched /\ \A q \in {"tick", "drain"} : run'[q].pc = "apply" => At(q, "apply")
  BY <1>4, HookIs, WatchedLeft
<1>7. run'["hook"].before \subseteq Before \cup Active
  BY <1>1 DEF Blank
<1>8. (StaleSound /\ FreshSound /\ ConfSound /\ PlanSound)'
  BY <1>t, <1>2, <1>5, <1>6, <1>7, DataKept
<1>9. ChangeSound'
  <2>1. HookPc' # "detect"
    BY <1>4 DEF Moved, HookPc
  <2>2. ASSUME NEW g \in Changed' PROVE g \in dirty' \cup Conflicted' \/ Open(g)'
    <3>1. g \in Changed /\ Conflicted' = Conflicted /\ dirty \subseteq dirty'
      BY <1>2, <2>2 DEF Changed, Conflicted
    <3>2. CASE g = game
      <4>1. local[game] = run["hook"].seen
        BY <1>0, <1>2, <3>1, <3>2 DEF ChangeSound, Changed
      <4>2. QED
        BY <1>2, <3>1, <3>2, <4>1 DEF Changed
    <3>3. CASE g # game
      <4>1. Open(g) => Open(g)'
        BY <1>2, <3>3 DEF Open, Stopping
      <4>2. QED
        BY <1>0, <3>1, <4>1 DEF ChangeSound
    <3>4. QED
      BY <3>2, <3>3
  <2>3. QED
    BY <2>1, <2>2 DEF ChangeSound
<1>10. FrontSound'
  BY <1>0, <1>1, <1>2, <1>3, HookIs DEF FrontSound, Stopping, HookPc, Moved, Blank, Passing
<1>11. (BeforeSound /\ PromptSound /\ DrainSound)'
  <2>1. run'["hook"].pc \notin {"after", "fail", "enter", "verify", "apply"} /\ front' # "starting"
    BY <1>2, <1>3, <1>4 DEF Moved, Stopping
  <2>2. Active' \subseteq Heard'
    BY <1>0, <1>2 DEF PromptSound, Active, Conflicted, Heard
  <2>3. QED
    BY <2>1, <2>2, HookOut
<1>12. RaceSound'
  BY <1>5, HookIs DEF RaceSound, At
<1>13. QED
  BY <1>t, <1>5, <1>8, <1>9, <1>10, <1>11, <1>12 DEF IInv

LEMMA LossInv ==
    ASSUME IInv, PowerLoss
    PROVE  IInv'
<1>0. /\ Types /\ PromptSound /\ ChangeSound
  BY DEF IInv
<1>t. Types'
  BY <1>0, FrontTypes DEF IInv
<1>1. \A p \in Process : run'[p].pc = "idle" /\ Blank(p)
  BY <1>0, LossIs
<1>2. /\ UNCHANGED <<local, remote, base, conf, clock, dirty, queue>> /\ front' = "menu" /\ game' = NoGame
      /\ popup' = "off" /\ silent' = silent \cup (Active \ queue) /\ escaped' = escaped \cup (Changed \ dirty)
  BY DEF PowerLoss
<1>3. LockSound'
  BY <1>1 DEF LockSound
<1>4. Watched
  BY <1>1 DEF Watched
<1>5. (StaleSound /\ FreshSound /\ ConfSound /\ PlanSound)'
  BY <1>t, <1>1, <1>2, <1>4, HookIs, DataKept DEF Blank
<1>6. ChangeSound'
  BY <1>1, <1>2, HookIs DEF ChangeSound, Changed, Open, HookPc
<1>7. FrontSound'
  BY <1>1, <1>2, HookIs DEF FrontSound, Stopping, HookPc, Blank
<1>8. (BeforeSound /\ PromptSound /\ DrainSound)'
  <2>1. Active' \subseteq Heard'
    BY <1>2 DEF Active, Conflicted, Heard
  <2>2. QED
    BY <1>1, <1>2, <2>1, HookIs, HookOut
<1>9. RaceSound'
  BY <1>1, HookIs DEF RaceSound, At
<1>10. QED
  BY <1>t, <1>3, <1>5, <1>6, <1>7, <1>8, <1>9 DEF IInv

-----------------------------------------------------------------------------
(* The passes of the hook.                                                 *)

\* What a step of the hook within a pass leaves alone.
WithinPass == /\ UNCHANGED <<local, remote, base, conf, clock, dirty, marker, front, game, escaped, raced>>
              /\ popup' = "show" => ask' \in shown'

LEMMA HookPassKept ==
    ASSUME IInv, Types', WithinPass, Watched, LockSound', FrontSound', HookPc \notin Early,
           run'["hook"].pc # "detect", run'["hook"].before \subseteq Before \cup Active,
           \A q \in {"tick", "drain"} : run'[q].pc = "apply" => At(q, "apply"),
           (BeforeSound /\ PromptSound /\ DrainSound)'
    PROVE  IInv'
<1>1. StaysOpen
  BY DEF WithinPass, StaysOpen, Open, Stopping
<1>2. Observed
  BY DEF Observed
<1>3. QED
  BY <1>1, <1>2, StepInv DEF WithinPass

\* The hook returns.
LEMMA HookEnds ==
    ASSUME IInv, Acquire("hook") \/ Busy("hook") \/ Pass("hook") \/ Conclude("hook") \/ Fail("hook"),
           run'["hook"].pc = "leave"
    PROVE  IInv'
<1>0. /\ Types /\ FrontSound /\ LockSound /\ PromptSound
  BY DEF IInv
<1>t. Types'
  BY <1>0, HookIs, PassTypes DEF Work
<1>1. /\ Blank("hook") /\ HookPc \in {"acquire", "read", "after", "fail"} /\ op' = op
      /\ \A q \in {"tick", "drain"} : run'[q] = run[q] \/ run'[q].pc = "spawned"
  <2>1. CASE Acquire("hook")
    BY <1>0, <2>1, HookIs, AcquireIs DEF Acquire, Moved, Ended, At, HookPc
  <2>2. CASE Busy("hook")
    BY <1>0, <2>2, HookIs, BusyIs DEF Busy, At, HookPc
  <2>3. CASE Pass("hook")
    BY <1>0, <2>3, HookIs, PassIs DEF Pass, Moved, Ended, At, HookPc
  <2>4. CASE Conclude("hook")
    <3>1. op' = op
      BY <2>4 DEF Conclude
    <3>2. Ended("hook") /\ HookPc = "after"
      BY <1>0, <2>4, HookIs, ConcludeIs DEF Moved, At, HookPc
    <3>3. QED
      BY <3>1, <3>2, HookIs DEF Ended, Moved, HookPc
  <2>5. CASE Fail("hook")
    BY <1>0, <2>5, HookIs, FailIs DEF Fail, Moved, Ended, At, HookPc
  <2>6. QED
    BY <2>1, <2>2, <2>3, <2>4, <2>5
<1>2. WithinPass
  <2>1. CASE Conclude("hook")
    <3>1. UNCHANGED <<local, remote, base, conf, clock, dirty, marker, front, game, escaped, raced>>
      BY <2>1 DEF Conclude
    <3>2. shown' = shown /\ ask' = ask /\ (popup' = popup \/ popup' = "load")
      BY <1>0, <2>1, HookIs, ConcludeIs
    <3>3. QED
      BY <1>0, <3>1, <3>2 DEF WithinPass, FrontSound
  <2>2. QED
    BY <1>0, <2>1 DEF Acquire, Busy, Pass, Fail, WithinPass, FrontSound
<1>3. Active' = Active
  BY <1>2 DEF WithinPass, Active, Conflicted
<1>4. Active \subseteq Heard'
  <2>1. CASE Acquire("hook") \/ Busy("hook") \/ Pass("hook")
    <3>1. HookPc \notin {"after", "fail"} /\ UNCHANGED <<queue, silent>>
      BY <2>1 DEF Acquire, Busy, Pass, At, HookPc
    <3>2. QED
      BY <1>0, <3>1 DEF PromptSound, Heard
  <2>2. CASE Fail("hook")
    BY <2>2 DEF Fail, Heard
  <2>3. CASE Conclude("hook")
    <3>1. /\ silent' = silent /\ front # "starting" /\ HookPc = "after"
      BY <2>3 DEF Conclude, Starting, At, HookPc
    <3>2. Stopping
      BY <1>0, <3>1 DEF FrontSound, Types, Stopping
    <3>3. queue' = queue \cup (NewOf("hook") \cap Active)
      BY <1>0, <2>3, HookIs, ConcludeIs DEF Moved
    <3>4. Active \ Before \subseteq NewOf("hook")
      BY DEF NewOf
    <3>5. Active \cap Before \subseteq Heard
      BY <1>0, <3>1, <3>2 DEF PromptSound
    <3>6. QED
      BY <3>1, <3>3, <3>4, <3>5 DEF Heard
  <2>4. QED
    BY <2>1, <2>2, <2>3
<1>5. (BeforeSound /\ PromptSound /\ DrainSound)'
  <2>1. DOMAIN run'["hook"].plan = {}
    BY <1>1, NoPlan DEF Blank
  <2>2. QED
    BY <1>3, <1>4, <2>1, HookOut
<1>6. \A p \in Process : run'[p] = run[p] \/ run'[p].pc \in {"leave", "spawned"}
  BY <1>1, HookIs
<1>7. LockSound' /\ Watched /\ \A q \in {"tick", "drain"} : run'[q].pc = "apply" => At(q, "apply")
  BY <1>0, <1>1, <1>6, HookIs DEF LockSound, Watched, At
<1>8. FrontSound'
  BY <1>0, <1>1, <1>2 DEF FrontSound, WithinPass, Stopping, HookPc, Blank, Passing
<1>9. run'["hook"].before \subseteq Before \cup Active
  BY <1>1 DEF Blank
<1>10. QED
  BY <1>t, <1>1, <1>2, <1>5, <1>7, <1>8, <1>9, HookPassKept DEF Early

\* The hook goes on.
LEMMA HookPassInv ==
    ASSUME IInv, Work("hook"), run'["hook"].pc # "leave"
    PROVE  IInv'
<1>0. /\ Types /\ FrontSound /\ LockSound /\ PromptSound /\ BeforeSound /\ DrainSound /\ ConfSound
  BY DEF IInv
<1>t. Types'
  BY <1>0, HookIs, PassTypes
<1>p. /\ popup = "show" => ask \in shown
      /\ \A q \in {"tick", "drain"} : run[q].pc \in Passing \cup {"idle", "spawned"}
  BY <1>0 DEF FrontSound
<1>m. ASSUME NEW S, Moved("hook", S) PROVE (\A q \in {"tick", "drain"} : run'[q] = run[q]) /\ HookPc' \in S
  BY <1>m, HookIs DEF Moved, HookPc
<1>s. HookPc \in Passing => /\ Stopping \/ front = "starting"
                            /\ HookPc \in {"acquire", "read"} => Stopping
                            /\ Stopping /\ HookPc # "fail" => marker = {}
  BY <1>0 DEF FrontSound, Types, Stopping, Passing
\* Before a pass has ended, whatever is in conflict has been heard of.
<1>a. UNCHANGED <<conf, queue, silent>> => Active' = Active /\ Heard' = Heard
  BY DEF Active, Conflicted, Heard
<1>1. CASE Acquire("hook")
  <2>1. /\ HookPc = "acquire" /\ WithinPass /\ op' = op /\ UNCHANGED <<conf, queue, silent, marker, front, game>>
    BY <1>p, <1>1 DEF Acquire, WithinPass, At, HookPc
  <2>2. Moved("hook", {"read"}) /\ Same("hook") /\ HookPc' = "read" /\ marker = {}
    BY <1>0, <1>1, HookIs, AcquireIs DEF Ended, Moved, HookPc
  <2>3. LockSound'
    BY <1>0, <2>1, <2>2, HookIs, LockLeft
  <2>4. Watched /\ \A q \in {"tick", "drain"} : run'[q].pc = "apply" => At(q, "apply")
    BY <2>2, HookIs, WatchedLeft
  <2>5. FrontSound'
    BY <1>0, <1>m, <1>s, <2>1, <2>2 DEF FrontSound, WithinPass, Stopping, HookPc, Same, Passing
  <2>6. (BeforeSound /\ PromptSound /\ DrainSound)'
    BY <1>0, <1>a, <1>s, <2>1, <2>2, HookOut DEF PromptSound, HookPc, Stopping, Passing
  <2>7. QED
    BY <1>t, <2>1, <2>2, <2>3, <2>4, <2>5, <2>6, HookPassKept DEF HookPc, Early, Same, Before
<1>2. CASE Pass("hook")
  <2>1. /\ HookPc = "read" /\ WithinPass /\ UNCHANGED <<conf, queue, silent, marker, front, game>>
    BY <1>p, <1>2 DEF Pass, WithinPass, At, HookPc
  <2>2. Moved("hook", {"enter"}) /\ HookPc' = "enter" /\ Before' = Active /\ op' = op
        /\ run'["hook"].plan = run["hook"].plan /\ run'["hook"].new = run["hook"].new
    BY <1>0, <1>2, HookIs, PassIs DEF Ended, Moved, HookPc, Before
  <2>3. LockSound'
    BY <1>0, <2>1, <2>2, HookIs, LockLeft
  <2>4. Watched /\ \A q \in {"tick", "drain"} : run'[q].pc = "apply" => At(q, "apply")
    BY <2>2, HookIs, WatchedLeft
  <2>5. FrontSound'
    BY <1>0, <1>m, <1>s, <2>1, <2>2 DEF FrontSound, WithinPass, Stopping, HookPc, Passing
  <2>6. BeforeSound'
    <3>1. \A g \in Games, c \in Pair : Id(g, c) \in Active => conf[g] = c
      BY <1>0, ActiveIs DEF Types
    <3>2. QED
      BY <2>1, <2>2, <3>1 DEF BeforeSound
  <2>7. PromptSound' /\ DrainSound'
    BY <1>0, <1>a, <1>s, <2>1, <2>2 DEF PromptSound, DrainSound, Stopping, Passing
  <2>8. QED
    BY <1>t, <2>1, <2>2, <2>3, <2>4, <2>5, <2>6, <2>7, HookPassKept DEF HookPc, Early, Before
<1>3. CASE Enter("hook")
  <2>1. /\ HookPc = "enter" /\ WithinPass /\ op = Nobody
        /\ UNCHANGED <<local, remote, conf, queue, silent, marker, front, game, dirty>>
    BY <1>p, <1>3 DEF Enter, WithinPass, At, HookPc
  <2> DEFINE todo == Selected("hook") \ Excluded("hook")
  <2>2. /\ Before' = Before /\ run'["hook"].new = run["hook"].new
        /\ \/ todo = {} /\ op' = Nobody /\ Moved("hook", {IF Selected("hook") = {} THEN "after" ELSE "fail"})
              /\ run'["hook"].plan = run["hook"].plan
           \/ Moved("hook", {"verify"}) /\ op' = "hook" /\ DOMAIN run'["hook"].plan = todo
    BY <1>0, <1>3, HookIs, EnterIs DEF Before
  <2> HIDE DEF todo
  <2>3. HookPc' \in {"verify", "after", "fail"} /\ Moved("hook", {HookPc'}) /\ Moved("hook", {"verify", "after", "fail"})
    BY <2>2 DEF Moved, HookPc
  <2>4. LockSound'
    <3>1. \A q \in Process : run[q].pc \notin {"verify", "apply"}
      BY <1>0, <2>1 DEF LockSound
    <3>2. HookPc' = "verify" => op' = "hook"
      BY <2>2 DEF Moved, HookPc
    <3>3. QED
      BY <2>3, <3>1, <3>2 DEF LockSound, Moved, HookPc
  <2>5. Watched /\ \A q \in {"tick", "drain"} : run'[q].pc = "apply" => At(q, "apply")
    BY <2>3, HookIs, WatchedLeft
  <2>6. FrontSound'
    BY <1>0, <1>m, <1>s, <2>1, <2>2, <2>3 DEF FrontSound, WithinPass, Stopping, HookPc, Passing
  <2>7. BeforeSound'
    BY <1>0, <2>1, <2>2, <2>3 DEF BeforeSound, Stopping, Gone
  <2>8. front = "starting" => todo \subseteq {game}
    BY DEF todo, Selected, Starting
  <2>9. PromptSound'
    <3>1. Active \subseteq Heard
      BY <1>0, <2>1 DEF PromptSound
    <3>2. front = "starting" => DOMAIN run'["hook"].plan \subseteq {game}
      BY <1>0, <2>2, <2>8 DEF PromptSound, Planned
    <3>3. QED
      BY <1>a, <2>1, <3>1, <3>2 DEF PromptSound, Stopping, Planned
  <2>10. DrainSound'
    <3>1. SUFFICES ASSUME Stopping PROVE /\ HookPc' = "verify" => dirty \subseteq DOMAIN run'["hook"].plan
                                         /\ HookPc' = "after" => dirty = {}
      BY <2>1, <2>3 DEF DrainSound, Stopping, Planned
    <3>2. Excluded("hook") = {} /\ dirty \subseteq Selected("hook")
      BY <1>s, <2>1, <3>1 DEF Excluded, Selected, Stopping, Starting, Passing
    <3>3. dirty \subseteq todo /\ (todo = {} => dirty = {})
      BY <3>2 DEF todo
    <3>4. QED
      BY <2>2, <3>3 DEF Moved, HookPc
  <2>11. QED
    BY <1>t, <2>1, <2>2, <2>3, <2>4, <2>5, <2>6, <2>7, <2>9, <2>10, HookPassKept DEF HookPc, Early, Before
<1>4. CASE Verify("hook")
  <2>1. /\ HookPc = "verify" /\ WithinPass /\ op = "hook"
        /\ UNCHANGED <<local, remote, conf, queue, silent, marker, front, game, dirty>>
    BY <1>0, <1>p, <1>4, HookIs DEF Verify, WithinPass, At, HookPc, LockSound
  <2>2. /\ Before' = Before /\ run'["hook"].new = run["hook"].new
        /\ \/ op' = Nobody /\ Moved("hook", {"enter", "fail"}) /\ run'["hook"].plan = <<>>
           \/ Intact("hook") /\ op' = op /\ Moved("hook", {"apply"}) /\ run'["hook"].plan = run["hook"].plan
    BY <1>0, <1>4, HookIs, VerifyIs DEF Before, Same, Moved
  <2>r. Starting /\ HookPc' # "apply" => HookPc' = "fail"
    BY <1>0, <1>4, HookIs, VerifyIs DEF Moved, HookPc
  <2>3. HookPc' \in {"enter", "fail", "apply"} /\ \A q \in Process : q # "hook" => run'[q] = run[q]
    BY <2>2 DEF Moved, HookPc
  <2>4. LockSound'
    BY <1>0, <2>1, <2>2, <2>3 DEF LockSound, HookPc, Moved
  <2>5. Watched /\ \A q \in {"tick", "drain"} : run'[q].pc = "apply" => At(q, "apply")
    BY <2>2, <2>3, HookIs DEF Watched, Moved, At
  <2>6. FrontSound'
    BY <1>0, <1>s, <2>1, <2>2, <2>3, HookIs DEF FrontSound, WithinPass, Stopping, HookPc, Passing
  <2>7. DOMAIN run'["hook"].plan \subseteq Planned("hook")
        /\ (HookPc' = "apply" => DOMAIN run'["hook"].plan = Planned("hook") /\ Intact("hook")
                                 /\ run'["hook"].plan = run["hook"].plan)
    BY <2>2, NoPlan DEF Planned, Moved, HookPc
  <2>8. BeforeSound'
    <3>1. ASSUME Stopping, NEW g \in Games, NEW c \in Pair, Id(g, c) \in Before
          PROVE  conf'[g] = c \/ Gone(g, c)'
      BY <1>0, <2>1, <3>1 DEF BeforeSound, Gone
    <3>2. ASSUME Stopping, HookPc' = "apply", NEW g \in Planned("hook"), Id(g, run["hook"].plan[g]) \in Before
          PROVE  conf'[g] = run["hook"].plan[g]
      <4> DEFINE c == run["hook"].plan[g]
      <4>1. c = <<local[g], remote[g]>>
        BY <2>7, <3>2 DEF Intact
      <4>2. g \in Games /\ c \in Pair
        BY <1>0, <3>2, HookIs, PlansAre
      <4>3. ~Gone(g, c)
        BY <4>1 DEF Gone
      <4>4. conf[g] = c
        BY <1>0, <2>1, <3>2, <4>2, <4>3 DEF BeforeSound
      <4>5. QED
        BY <2>1, <4>4
    <3>3. QED
      BY <2>1, <2>2, <2>7, <3>1, <3>2 DEF BeforeSound, Stopping, Planned
  <2>9. PromptSound'
    BY <1>0, <1>a, <2>1, <2>2, <2>3, <2>7 DEF PromptSound, Stopping, Planned
  <2>10. DrainSound'
    BY <1>0, <2>1, <2>3, <2>7 DEF DrainSound, Stopping, Planned
  <2>11. QED
    BY <1>t, <2>1, <2>2, <2>3, <2>4, <2>5, <2>6, <2>8, <2>9, <2>10, HookPassKept DEF HookPc, Early, Before
<1>5. CASE Apply("hook")
  <2>1. At("hook", "apply") /\ (Refused("hook") \/ Applied("hook")) /\ HookPc = "apply"
    BY <1>0, <1>5, HookIs, ApplyIs DEF At, HookPc
  <2>2. CASE Applied("hook")
    BY <1>t, <2>1, <2>2, HookIs, AppliedInv
  <2>3. CASE Refused("hook")
    <3>1. /\ op' = Nobody /\ Moved("hook", {"fail"}) /\ run'["hook"].plan = <<>> /\ HookPc' = "fail"
          /\ run'["hook"].before = run["hook"].before /\ run'["hook"].new = run["hook"].new
          /\ WithinPass /\ UNCHANGED <<conf, queue, silent, marker, front, game>>
      BY <1>p, <2>3 DEF Refused, WithinPass, Moved, HookPc
    <3>2. LockSound'
      BY <1>0, <2>1, <3>1, HookIs, LockLeft DEF At
    <3>3. Watched /\ \A q \in {"tick", "drain"} : run'[q].pc = "apply" => At(q, "apply")
      BY <3>1, HookIs, WatchedLeft
    <3>4. FrontSound'
      BY <1>0, <1>m, <1>s, <2>1, <3>1 DEF FrontSound, WithinPass, Stopping, HookPc, Passing
    <3>5. BeforeSound' /\ DrainSound'
      BY <3>1 DEF BeforeSound, DrainSound
    <3>6. PromptSound'
      BY <1>a, <3>1, NoPlan DEF PromptSound, Planned
    <3>7. QED
      BY <1>t, <2>1, <3>1, <3>2, <3>3, <3>4, <3>5, <3>6, HookPassKept DEF HookPc, Early, Before
  <2>4. QED
    BY <2>1, <2>2, <2>3
<1>6. CASE Conclude("hook")
  <2>1. /\ HookPc = "after" /\ Stopping /\ op' = op /\ dirty = {}
    <3>1. HookPc = "after" /\ front # "starting" /\ op' = op
      BY <1>6 DEF Conclude, At, HookPc, Starting
    <3>2. QED
      BY <1>0, <1>s, <3>1 DEF DrainSound, Passing
  <2>2. Ended("hook")
    BY <1>0, <1>6, <2>1, HookIs, ConcludeIs
  <2>3. QED
    BY <2>2 DEF Ended, Moved
<1>7. CASE Busy("hook") \/ Fail("hook")
  BY <1>0, <1>7, HookIs, BusyIs, FailIs DEF Ended, Moved
<1>8. QED
  BY <1>1, <1>2, <1>3, <1>4, <1>5, <1>6, <1>7 DEF Work

-----------------------------------------------------------------------------
(* The invariant holds, and so do the properties.                          *)

LEMMA WorkInv == ASSUME IInv, NEW p \in Process, Work(p)
                 PROVE  IInv'
<1>0. Types /\ FrontSound /\ LockSound
  BY DEF IInv
<1>t. Types'
  BY <1>0, PassTypes
<1>1. CASE p = "hook"
  <2>1. CASE run'["hook"].pc # "leave"
    BY <1>1, <2>1, HookPassInv
  <2>2. CASE run'["hook"].pc = "leave" /\ ~(Enter(p) \/ Verify(p) \/ Apply(p))
    BY <1>1, <2>2, HookEnds DEF Work
  <2>3. CASE Enter(p) \/ Verify(p) \/ Apply(p)
    <3>1. run'["hook"].pc \in {"verify", "after", "fail", "enter", "apply"}
      BY <1>0, <1>1, <2>3, EnterIs, VerifyIs, ApplyIs DEF Moved, Refused, Applied
    <3>2. QED
      BY <1>1, <3>1, HookPassInv
  <2>4. QED
    BY <2>1, <2>2, <2>3
<1>2. CASE p # "hook" /\ Apply(p)
  <2>1. At(p, "apply") /\ (Refused(p) \/ Applied(p))
    BY <1>0, <1>2, ApplyIs
  <2>2. CASE Applied(p)
    BY <1>t, <2>1, <2>2, AppliedInv
  <2>3. CASE Refused(p)
    <3>1. /\ op' = Nobody /\ Moved(p, {"fail"})
          /\ UNCHANGED <<saves, state, frontend, worker, prompts, faults, history>>
      BY <2>3 DEF Refused
    <3>2. LockSound'
      BY <1>0, <2>1, <3>1, LockLeft DEF At
    <3>3. Watched /\ \A q \in {"tick", "drain"} : run'[q].pc = "apply" => At(q, "apply")
      BY <3>1, WatchedLeft
    <3>4. run'["hook"] = run["hook"]
      BY <1>2, <3>1, HookIs DEF Moved
    <3>5. \A q \in {"tick", "drain"} : Outside(run'[q].pc)
      BY <1>0, <1>2, <3>1, HookIs DEF Moved, Outside, Passing, FrontSound
    <3>6. (popup' = "show" => ask' \in shown') /\ Active \cap Heard \subseteq Heard'
      BY <1>0, <3>1 DEF FrontSound, Heard
    <3>7. QED
      BY <1>t, <3>1, <3>2, <3>3, <3>4, <3>5, <3>6, OthersKept
  <2>4. QED
    BY <2>1, <2>2, <2>3
<1>3. CASE p # "hook" /\ ~Apply(p)
  <2>1. p \in {"tick", "drain"}
    BY <1>3, HookIs
  <2>2. QED
    BY <1>3, <2>1, TickInv DEF Work
<1>4. QED
  BY <1>1, <1>2, <1>3

LEMMA NextInv == IInv /\ [Next]_vars => IInv'
<1>1. ASSUME IInv, Next PROVE IInv'
  <2>1. CASE Hook
    <3>1. CASE RetireMarker \/ Settle \/ Play \/ Return
      BY <1>1, <3>1, FrontInv
    <3>2. CASE Detect
      BY <1>1, <3>2, DetectInv
    <3>3. CASE ConcludeStart \/ Released
      BY <1>1, <3>3, StartInv
    <3>4. CASE Work("hook")
      BY <1>1, <3>4, HookIs, WorkInv
    <3>5. QED
      BY <2>1, <3>1, <3>2, <3>3, <3>4 DEF Hook
  <2>2. CASE Work("tick") \/ Work("drain")
    BY <1>1, <2>2, HookIs, WorkInv
  <2>3. CASE Tick \/ Drain
    BY <1>1, <2>3, TickInv
  <2>4. CASE Load \/ Later \/ Close
    BY <1>1, <2>4, PopupInv
  <2>5. CASE Answer \/ ResolveByHand
    BY <1>1, <2>5, ResolveInv
  <2>6. CASE Exit \/ FrontendDies
    BY <1>1, <2>6, FrontInv
  <2>7. CASE PowerLoss
    BY <1>1, <2>7, LossInv
  <2>8. CASE EmulatorWrites \/ \E g \in Games : PeerWrites(g)
    BY <1>1, <2>8, WriteInv
  <2>9. CASE \E g \in Games : Launch(g)
    BY <1>1, <2>9, LaunchInv
  <2>10. QED
    BY <1>1, <2>1, <2>2, <2>3, <2>4, <2>5, <2>6, <2>7, <2>8, <2>9 DEF Next
<1>2. ASSUME IInv, UNCHANGED vars PROVE IInv'
  BY <1>2 DEF vars, IInv, Types, LockSound, FrontSound, ChangeSound, StaleSound, FreshSound, ConfSound,
     PlanSound, BeforeSound, PromptSound, DrainSound, RaceSound, HookPc, Stopping, Open, Now, Gone, Before,
     Heard, Changed, Conflicted, Active, Planned, At
<1>3. QED
  BY <1>1, <1>2

LEMMA Invariant == Spec => []IInv
BY InitInv, NextInv, PTL DEF Spec

\* The durable state of automatic SaveSync (savesync-state.json, the session
\* markers, the prompt queue) stays well formed, a save that differs from its
\* baseline is pending, in conflict or of a session that is still to be heard, and
\* every conflict a hook has met is queued (auto_savesync.py).
THEOREM NeverForgets == Spec => []NothingForgotten
<1>1. IInv => NothingForgotten
  <2>1. SUFFICES ASSUME IInv PROVE NothingForgotten
    OBVIOUS
  <2>2. Types /\ LockSound /\ FrontSound /\ ChangeSound /\ PromptSound
    BY <2>1 DEF IInv
  <2>3. TypeOK
    <3>1. \A g \in Games : conf[g] = <<>> \/ conf[g] \in Content \X Content
      BY <2>2 DEF Types, Pair
    <3>2. \A p \in Process : At(p, "apply") => op = p
      BY <2>2 DEF LockSound, At
    <3>3. QED
      BY <2>2, <3>1, <3>2 DEF TypeOK, Types, FrontSound
  <2>4. Remembered
    BY <2>2 DEF Remembered, Owed, ChangeSound, Open, Stopping
  <2>5. Prompted
    BY <2>2 DEF Prompted, PromptSound, Heard, HookPc
  <2>6. QED
    BY <2>3, <2>4, <2>5 DEF NothingForgotten
<1>2. QED
  BY <1>1, Invariant, PTL

LEMMA SidesStay ==
    ASSUME IInv, [Next]_vars, clock' = clock
    PROVE  \/ UNCHANGED <<local, remote>>
           \/ (\E i \in Active : Resolve(i)) /\ run' = run
           \/ \E p \in Process : At(p, "apply") /\ Applied(p)
<1>0. Types /\ clock + 1 # clock
  BY DEF IInv, Types
<1>1. ASSUME NEW p \in Process, Work(p)
      PROVE  UNCHANGED <<local, remote>> \/ (At(p, "apply") /\ Applied(p))
  <2>1. CASE Apply(p)
    BY <1>0, <2>1, ApplyIs DEF Refused
  <2>2. CASE ~Apply(p)
    BY <1>1, <2>2 DEF Work, Acquire, Busy, Pass, Enter, Verify, Conclude, Fail
  <2>3. QED
    BY <2>1, <2>2
<1>2. CASE Answer \/ ResolveByHand
  <2>1. PICK i \in Active : Resolve(i)
    BY <1>2 DEF Answer, Answerable, ResolveByHand
  <2>2. run' = run
    BY <2>1 DEF Resolve, Settled
  <2>3. QED
    BY <2>1, <2>2
<1>3. CASE EmulatorWrites \/ \E g \in Games : PeerWrites(g)
  BY <1>0, <1>3 DEF EmulatorWrites, PeerWrites
<1>4. CASE RetireMarker \/ Settle \/ Detect \/ ConcludeStart \/ Released \/ Play \/ Return \/ Tick \/ Drain
           \/ Load \/ Later \/ Close \/ Exit \/ FrontendDies \/ PowerLoss \/ \E g \in Games : Launch(g)
  <2>1. CASE RetireMarker \/ Settle \/ Detect \/ ConcludeStart \/ Released \/ Play \/ Return
    BY <2>1 DEF RetireMarker, Settle, Detect, ConcludeStart, Released, Play, Return
  <2>2. CASE Tick \/ Drain \/ Load \/ Later \/ Close
    BY <2>2 DEF Tick, Drain, Load, Later, Close
  <2>3. CASE Exit \/ FrontendDies \/ PowerLoss \/ \E g \in Games : Launch(g)
    BY <2>3 DEF Exit, FrontendDies, PowerLoss, Launch
  <2>4. QED
    BY <1>4, <2>1, <2>2, <2>3
<1>5. CASE UNCHANGED vars
  BY <1>5 DEF vars
<1>6. CASE Next
  BY <1>1, <1>2, <1>3, <1>4, <1>6, HookIs DEF Next, Hook
<1>7. QED
  BY <1>5, <1>6

\* A step that is no write replaces, on either side, a copy that is the common
\* baseline or the copy a player was shown and gave up (resolve_conflict), and a
\* promotion of _run_quick_sync changes the save of a running game only when the
\* game was launched between the last look at the markers and the promotion.
THEOREM PassesAreCareful == Spec => PassesCareful
<1>1. ASSUME IInv, [Next]_vars PROVE NothingUnseenReplaced
  <2> DEFINE Seen(g) ==
        /\ local'[g] # local[g] => local[g] \in {base[g]} \cup (IF conf[g] = <<>> THEN {} ELSE {conf[g][1]})
        /\ remote'[g] # remote[g] => remote[g] \in {base[g]} \cup (IF conf[g] = <<>> THEN {} ELSE {conf[g][2]})
  <2>1. SUFFICES ASSUME clock' = clock, NEW g \in Games PROVE Seen(g)
    BY DEF NothingUnseenReplaced
  <2>2. CASE UNCHANGED <<local, remote>>
    BY <2>2
  <2>3. ASSUME NEW i \in Active, Resolve(i) PROVE Seen(g)
    <3>1. PICK h \in Conflicted : /\ h \in Games /\ Now(h, conf[h])
                                  /\ \A k \in Games : k # h => Untouched(k)
      BY <1>1, <2>3, ResolveIs
    <3>2. CASE g = h
      BY <3>1, <3>2 DEF Now, Conflicted
    <3>3. CASE g # h
      BY <3>1, <3>3 DEF Untouched, Kept
    <3>4. QED
      BY <3>2, <3>3
  <2>4. ASSUME NEW p \in Process, Applied(p) PROVE Seen(g)
    <3>1. CASE g \in Planned(p)
      BY <2>4, <3>1 DEF Applied, AsSame, AsUpload, AsDownload, AsConflict, Kept, Now
    <3>2. CASE g \notin Planned(p)
      BY <2>4, <3>2 DEF Applied, Untouched, Kept
    <3>3. QED
      BY <3>1, <3>2
  <2>5. QED
    BY <1>1, <2>1, <2>2, <2>3, <2>4, SidesStay
<1>2. ASSUME IInv, [Next]_vars PROVE SessionsRespected
  <2>1. SUFFICES ASSUME NEW p \in Process, At(p, "apply"), run'[p].pc = "after", game \in Games,
                        local'[game] # local[game], front = "playing"
                 PROVE  game \in raced
    BY DEF SessionsRespected, PassWhilePlaying
  <2>2. LockSound /\ FrontSound /\ RaceSound /\ Types
    BY <1>2 DEF IInv
  <2>3. p \in {"tick", "drain"} /\ run'[p] # run[p]
    BY <2>1, <2>2, HookIs DEF FrontSound, HookPc, At
  <2>4. clock' = clock
    <3>1. EmulatorWrites \/ (\E g \in Games : PeerWrites(g)) => run' = run
      BY DEF EmulatorWrites, PeerWrites
    <3>2. \A q \in Process : Apply(q) => clock' = clock
      BY <2>2, ApplyIs DEF Refused, Applied
    <3>3. QED
      BY <1>2, <2>3, <3>1, <3>2, HookIs DEF Next, Hook, Work, vars, RetireMarker, Settle, Detect, ConcludeStart,
         Released, Play, Return, Tick, Drain, Load, Later, Close, Exit, FrontendDies, PowerLoss, Launch,
         Acquire, Busy, Pass, Enter, Verify, Conclude, Fail, Answer, ResolveByHand, Resolve, Settled
  <2>5. PICK q \in Process : At(q, "apply") /\ Applied(q)
    BY <1>2, <2>1, <2>3, <2>4, SidesStay
  <2>6. q = p
    BY <2>1, <2>2, <2>5 DEF LockSound, At
  <2>7. game \in Planned(p)
    BY <2>1, <2>5, <2>6 DEF Applied, Untouched, Kept
  <2>8. QED
    BY <2>1, <2>2, <2>3, <2>7 DEF RaceSound
<1>3. IInv /\ [Next]_vars => [NothingUnseenReplaced /\ SessionsRespected]_vars
  BY <1>1, <1>2
<1>4. QED
  BY <1>3, Invariant, PTL DEF Spec, PassesCareful
=============================================================================
