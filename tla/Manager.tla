------------------------------ MODULE Manager ------------------------------
(***************************************************************************)
(* The Library Manager as a supervised process: servers started by requests *)
(* of the interface, the boot service and an update, or by hand, the state *)
(* file that names the one that is ready, the instance lock, the port, and *)
(* a stop that signals the process the file names.                         *)
(*                                                                         *)
(* A server stands for its pid and, when a request spawned it, for its     *)
(* instance id.  The locks are kernel locks: who holds one is a function   *)
(* of where the processes are.                                             *)
(***************************************************************************)
EXTENDS Naturals, FiniteSets

CONSTANTS Servers, Starters, Nobody,
          MaxEvents        \* crashes, restarts of the device, starts by hand, stops, deadlines, reused pids

ManagerAssumption == Nobody \notin Servers /\ MaxEvents \in Nat

VARIABLES
    record,                \* the server that manager-state.json names
    srv,                   \* where each server process is
    byHand,                \* the servers that carry no instance id
    alien,                 \* the pids another process has now
    start,                 \* requests: where they are and the child they wait for
    stop,                  \* the stop: where it is and the pid it read
    events,
    calm, since, orphaned  \* history: no stop, crash, start by hand or deadline yet; who published since a
                           \* stop read the file; the servers that a stop made unknown

procs == <<srv, byHand, alien>>
vars == <<record, procs, start, stop, events, calm, since, orphaned>>

Locked == {s \in Servers : srv[s] \in {"locked", "bound", "ready", "serving", "told", "closing", "closed"}}
Listening == {s \in Servers : srv[s] \in {"bound", "ready", "serving", "told", "closing"}}
Ours(s) == srv[s] # "gone"
OwnedAlive(s) == TRUE  \* mutant: a live pid is taken for the manager
Owned(s) == Ours(s)                              \* its environment, or its command line, says so
PidAlive(s) == s # Nobody /\ (Ours(s) \/ s \in alien)
PortOrPid == Listening # {} \/ PidAlive(record)  \* mutant: the pid in the file counts as well
PortOpen == Listening # {}
Running ==                                       \* manager_status
    record # Nobody /\ PidAlive(record) /\ PortOpen
    /\ (record \in byHand \/ Owned(record))
StartingForever == {c \in Starters : start[c].pc \in {"check", "poll", "failed"}}  \* mutant: a failure keeps the lock
Starting == {c \in Starters : start[c].pc \in {"check", "poll"}}     \* in manager_start_lock
Unused == {s \in Servers : ~Ours(s) /\ s \notin {record, stop.pid}}      \* stand for a pid nobody remembers
Event == events < MaxEvents /\ events' = events + 1
Unrest == calm' = FALSE

Init ==
    /\ \/ record = Nobody /\ alien = {}
       \/ record \in Servers /\ alien \in {{}, {record}}       \* left by a loss of power
    /\ srv = [s \in Servers |-> "gone"]
    /\ byHand = {}
    /\ start = [c \in Starters |-> [pc |-> "off", child |-> Nobody]]
    /\ stop = [pc |-> "off", pid |-> Nobody]
    /\ events = 0 /\ calm = TRUE /\ since = {} /\ orphaned = {}

-----------------------------------------------------------------------------
(* A server process: manager_cmd and serve_manager. *)

Move(s, to) == srv' = [srv EXCEPT ![s] = to]
Spawn(s) == Move(s, "spawned") /\ alien' = alien \ {s} /\ orphaned' = orphaned \ {s}
Quiet == UNCHANGED <<byHand, alien, start, stop, events, calm, since, orphaned>>

Lock(s) ==
    /\ srv[s] = "spawned" /\ Move(s, IF Locked = {} THEN "locked" ELSE "gone")
    /\ UNCHANGED record /\ Quiet
Bind(s) ==
    /\ srv[s] = "locked"
    /\ Move(s, IF PortOpen THEN "closed" ELSE "bound")
    /\ UNCHANGED record /\ Quiet
\* The socket listens and TLS is loaded: the state file is the readiness edge.
Publish(s) ==
    /\ srv[s] = "bound" /\ record' = s /\ Move(s, "ready")
    /\ since' = IF stop.pc = "off" THEN {} ELSE since \cup {s}
    /\ UNCHANGED <<byHand, alien, start, stop, events, calm, orphaned>>
\* start_downloads, then the handler of SIGTERM, then serve_forever.
Serve(s) ==
    /\ srv[s] = "ready" /\ Move(s, "serving")
    /\ UNCHANGED record /\ Quiet
\* The shutdown thread ends serve_forever; the previous handler is put back and
\* the downloads are shut down while the port is still open.
ShutDown(s) ==
    /\ srv[s] = "told" /\ Move(s, "closing")
    /\ UNCHANGED record /\ Quiet
Close(s) ==
    /\ srv[s] = "closing" /\ Move(s, "closed")
    /\ UNCHANGED record /\ Quiet
\* The last act under the instance lock: the file is removed if it names this pid.
Exit(s) ==
    /\ srv[s] = "closed" /\ record' = (IF record = s THEN Nobody ELSE record) /\ Move(s, "gone")
    /\ Quiet

\* The start of the downloads, or the writing of the state file, fails.
Fail(s) ==
    /\ srv[s] \in {"bound", "ready"} /\ Event /\ Unrest
    /\ Move(s, "closing")
    /\ UNCHANGED <<record, byHand, alien, start, stop, since, orphaned>>

-----------------------------------------------------------------------------
(* A request: start_manager. *)

AnswerKeep(c, pc) == start' = [start EXCEPT ![c].pc = pc]  \* mutant: the child is not forgotten
Answer(c, pc) == start' = [start EXCEPT ![c] = [pc |-> pc, child |-> Nobody]]
Request(c) ==
    /\ start[c].pc = "off" /\ start' = [start EXCEPT ![c].pc = "queue"]
    /\ UNCHANGED <<record, procs, stop, events, calm, since, orphaned>>
EnterAnyway(c) == TRUE  \* mutant: two requests at once
MayEnter(c) == Starting = {}
Enter(c) ==
    /\ start[c].pc = "queue" /\ MayEnter(c)
    /\ IF Running THEN Answer(c, "ok") ELSE start' = [start EXCEPT ![c].pc = "check"]
    /\ UNCHANGED <<record, procs, stop, events, calm, since, orphaned>>
\* Nothing runs according to the file.  An open port then belongs to a stranger.
Check(c) ==
    /\ start[c].pc = "check"
    /\ \/ PortOpen /\ Answer(c, "failed") /\ UNCHANGED <<procs, orphaned>>
       \/ /\ ~PortOpen
          /\ \E s \in Unused : Spawn(s) /\ byHand' = byHand \ {s}
                              /\ start' = [start EXCEPT ![c] = [pc |-> "poll", child |-> s]]
    /\ UNCHANGED <<record, stop, events, calm, since>>
Poll(c) ==
    /\ start[c].pc = "poll"
    /\ \/ Running /\ Answer(c, "ok")
       \/ ~Running /\ ~Ours(start[c].child) /\ Answer(c, "failed")
    /\ UNCHANGED <<record, procs, stop, events, calm, since, orphaned>>
\* SIGTERM, to a process that has its handler and to one that has it not.
Terminate(s) == IF srv[s] = "serving" THEN "told" ELSE IF srv[s] = "told" THEN "told" ELSE "gone"
\* Five seconds are over: the child is slow, or serves and is not to be found.
Expire(c) ==
    /\ start[c].pc = "poll" /\ ~Running /\ Ours(start[c].child) /\ Unrest
    /\ Move(start[c].child, Terminate(start[c].child)) /\ Answer(c, "failed")
    /\ UNCHANGED <<record, byHand, alien, stop, since, orphaned>>
Deadline(c) == Event /\ Expire(c)
Unfound(c) == start[c].pc = "poll" /\ srv[start[c].child] = "serving" /\ Expire(c) /\ UNCHANGED events

-----------------------------------------------------------------------------
(* A stop: stop_manager. *)

Stop ==
    /\ stop.pc = "off" /\ Event /\ Unrest /\ since' = {}
    /\ IF ~PidAlive(record) THEN stop' = [pc |-> "unlink", pid |-> record] /\ UNCHANGED srv
       ELSE IF ~Owned(record) THEN stop' = [pc |-> "clear", pid |-> record] /\ UNCHANGED srv
       ELSE stop' = [pc |-> "wait", pid |-> record] /\ Move(record, Terminate(record))
    /\ UNCHANGED <<record, byHand, alien, start, orphaned>>
Waited ==
    /\ stop.pc = "wait" /\ ~Ours(stop.pid) /\ stop' = [stop EXCEPT !.pc = "clear"]
    /\ UNCHANGED <<record, procs, start, events, calm, since, orphaned>>
\* The server is still closing its downloads when the five seconds are over.
Kill ==
    /\ stop.pc = "wait" /\ Ours(stop.pid) /\ Event
    /\ Move(stop.pid, "gone") /\ stop' = [stop EXCEPT !.pc = "clear"]
    /\ UNCHANGED <<record, byHand, alien, start, calm, since, orphaned>>
\* clear_manager_state reads the file, and a step later removes what is there.
NamesAny(pid) == TRUE  \* mutant: the file is removed whoever it names
Names(pid) == record = pid
Clear ==
    /\ stop.pc = "clear" /\ since' = {}
    /\ stop' = IF Names(stop.pid) THEN [stop EXCEPT !.pc = "unlink"] ELSE [pc |-> "off", pid |-> Nobody]
    /\ UNCHANGED <<record, procs, start, events, calm, orphaned>>
Unlink ==
    /\ stop.pc = "unlink" /\ record' = Nobody /\ stop' = [pc |-> "off", pid |-> Nobody]
    /\ orphaned' = orphaned \cup ({record} \cap since) /\ since' = {}
    /\ UNCHANGED <<procs, start, events, calm>>

-----------------------------------------------------------------------------
(* The environment. *)

Crash(s) ==
    /\ Ours(s) /\ Event /\ Unrest /\ Move(s, "gone")
    /\ UNCHANGED <<record, byHand, alien, start, stop, since, orphaned>>
StartByHand(s) ==
    /\ s \in Unused /\ Unused # {s} /\ Event /\ Unrest
    /\ Spawn(s) /\ byHand' = byHand \cup {s}
    /\ UNCHANGED <<record, start, stop, since>>
ReusePid(s) ==
    /\ s = record /\ ~Ours(s) /\ s \notin alien \cup {stop.pid} /\ Event
    /\ alien' = alien \cup {s}
    /\ UNCHANGED <<record, srv, byHand, start, stop, calm, since, orphaned>>
Restart ==
    /\ Event /\ Unrest
    /\ srv' = [s \in Servers |-> "gone"] /\ alien' = {}
    /\ start' = [c \in Starters |-> IF start[c].pc = "off" THEN start[c] ELSE [pc |-> "failed", child |-> Nobody]]
    /\ stop' = [pc |-> "off", pid |-> Nobody]
    /\ UNCHANGED <<record, byHand, since, orphaned>>

-----------------------------------------------------------------------------

ServerStep(s) == Lock(s) \/ Bind(s) \/ Publish(s) \/ Serve(s) \/ ShutDown(s) \/ Close(s) \/ Exit(s)
StartStep(c) == Enter(c) \/ Check(c) \/ Poll(c) \/ Unfound(c)
StopStep == Waited \/ Clear \/ Unlink
Next ==
    \/ \E s \in Servers : ServerStep(s) \/ Fail(s) \/ Crash(s) \/ StartByHand(s) \/ ReusePid(s)
    \/ \E c \in Starters : Request(c) \/ StartStep(c) \/ Deadline(c)
    \/ Stop \/ StopStep \/ Kill \/ Restart
Spec == Init /\ [][Next]_vars
Fairness ==
    /\ \A s \in Servers : WF_vars(ServerStep(s))
    /\ \A c \in Starters : SF_vars(Enter(c)) /\ WF_vars(Check(c)) /\ WF_vars(Poll(c)) /\ WF_vars(Unfound(c))
    /\ WF_vars(StopStep)
FairSpec == Spec /\ Fairness

-----------------------------------------------------------------------------
(* Properties. *)

TypeOK ==
    /\ record \in Servers \cup {Nobody}
    /\ srv \in [Servers -> {"gone", "spawned", "locked", "bound", "ready", "serving", "told", "closing", "closed"}]
    /\ byHand \subseteq Servers /\ alien \subseteq {s \in Servers : srv[s] = "gone"}
    /\ \A c \in Starters : /\ start[c].pc \in {"off", "queue", "check", "poll", "ok", "failed"}
                           /\ start[c].child \in Servers \cup {Nobody}
                           /\ (start[c].pc = "poll") = (start[c].child # Nobody)
    /\ stop \in [pc : {"off", "wait", "clear", "unlink"}, pid : Servers \cup {Nobody}]
    /\ events \in 0..MaxEvents /\ calm \in BOOLEAN /\ since \cup orphaned \subseteq Servers

\* A server that serves can be found and stopped: the state file names it, unless
\* a stop that had read an older file removed its entry.  No start, and no
\* other server that ends or fails meanwhile, takes its entry away.
ServerIsKnown == \A s \in Servers : srv[s] = "serving" => record = s \/ s \in orphaned

\* Requests made at the same time agree: without a stop, a crash, a start by hand
\* or a missed deadline one server is spawned and every request succeeds.
StartsAgree ==
    calm => /\ Cardinality({s \in Servers : Ours(s)}) <= 1
            /\ \A c \in Starters : start[c].pc # "failed"

\* A request that succeeded leaves a server that is there to be used.
SuccessIsServed == calm /\ (\E c \in Starters : start[c].pc = "ok") => \E s \in Servers : srv[s] \in {"ready", "serving"}

\* Every request is answered: a lock that is waited for is given back, and no
\* child is waited for without an end.
StartsEnd == \A c \in Starters : start[c].pc = "queue" ~> start[c].pc \in {"ok", "failed"}

\* The manager can be had back: whatever file, reused pid or half-ended process a
\* crash, a restart or a stop left, a request made afterwards succeeds.
Settled ==
    /\ events = MaxEvents /\ stop.pc = "off" /\ orphaned = {}
    /\ \A s \in Servers : srv[s] \in {"gone", "serving"}
StartRecovers == \A c \in Starters : start[c].pc = "queue" /\ Settled ~> start[c].pc = "ok"

\* "Stop only the process recorded as ROMCloud's manager": a stop takes away no
\* other server's entry, so what serves is known.
NoOrphan == orphaned = {}

\* A server that serves can be found and stopped; requests made together agree on one
\* server, and a request that succeeded leaves one that serves.
ServerHonest == TypeOK /\ ServerIsKnown /\ StartsAgree /\ SuccessIsServed
=============================================================================
