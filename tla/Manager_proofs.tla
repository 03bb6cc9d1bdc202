--------------------------- MODULE Manager_proofs ---------------------------
(***************************************************************************)
(* Proofs about Manager, for any servers, requests and bounds: a server    *)
(* that serves can be found and stopped, and requests that nothing         *)
(* disturbs agree on one server.                                           *)
(*                                                                         *)
(* The instance lock leaves one server that may publish (LockSound), so    *)
(* the state file is taken from one that serves only by a stop that read   *)
(* an older file (StopSound, KnownSound).  CalmSound follows the one       *)
(* server that is spawned while nothing happens but requests.              *)
(***************************************************************************)
EXTENDS Manager, FiniteSetTheorems, TLAPS

-----------------------------------------------------------------------------
(* The inductive invariant.                                                *)

\* Requests, servers and counters have their shape.
Pcs == {"off", "queue", "check", "poll", "ok", "failed"}
StartShape == start \in [Starters -> [pc : Pcs, child : Servers \cup {Nobody}]]
Polled == \A c \in Starters : (start[c].pc = "poll") = (start[c].child # Nobody)
Shape ==
    /\ record \in Servers \cup {Nobody}
    /\ srv \in [Servers -> {"gone", "spawned", "locked", "bound", "ready", "serving", "told",
                           "closing", "closed"}]
    /\ byHand \subseteq Servers /\ alien \subseteq {s \in Servers : srv[s] = "gone"}
    /\ stop \in [pc : {"off", "wait", "clear", "unlink"}, pid : Servers \cup {Nobody}]
    /\ since \cup orphaned \subseteq Servers
Counted == events \in 0..MaxEvents /\ calm \in BOOLEAN

\* One server is past the instance lock, and one request past the start lock.
LockSound ==
    /\ \A s, t \in Locked : s = t
    /\ \A c, d \in Starting : c = d

\* The process a stop has waited for is gone and its pid is not given away; what the file
\* names when it is unlinked is that pid, or was published since.
StopSound ==
    /\ stop.pc \in {"clear", "unlink"} /\ stop.pid # Nobody => srv[stop.pid] = "gone"
    /\ stop.pc = "unlink" => record \in {stop.pid, Nobody} \cup since

\* The file names the server that is ready, and none that is on its way there.
KnownSound ==
    /\ \A s \in Servers : srv[s] \in {"ready", "serving"} => record = s \/ s \in orphaned
    /\ \A s \in Servers : srv[s] \in {"spawned", "locked", "bound"} => record # s

\* As long as nothing but requests happens.
CalmSound ==
    calm =>
        /\ stop.pc = "off" /\ orphaned = {} /\ byHand = {}
        /\ \A s \in Servers : srv[s] \in {"gone", "spawned", "locked", "bound", "ready", "serving"}
        /\ \A s, t \in Servers : Ours(s) /\ Ours(t) => s = t
        /\ \A s \in Servers : srv[s] \in {"spawned", "locked", "bound"} =>
             \E c \in Starters : start[c].pc = "poll" /\ start[c].child = s
        /\ \A c \in Starters :
             /\ start[c].pc # "failed"
             /\ start[c].pc = "check" => \A s \in Servers : ~Ours(s)
             /\ start[c].pc = "poll" => Ours(start[c].child)
             /\ start[c].pc = "ok" => \E s \in Servers : srv[s] \in {"ready", "serving"}

ManagerInv ==
    /\ ManagerAssumption
    /\ Shape /\ StartShape /\ Polled /\ Counted /\ LockSound /\ StopSound /\ KnownSound /\ CalmSound

-----------------------------------------------------------------------------
(* The steps.                                                              *)

Act ==
    \/ \E s \in Servers : Lock(s) \/ Bind(s) \/ Publish(s) \/ Serve(s) \/ ShutDown(s) \/ Close(s)
                          \/ Exit(s) \/ Fail(s) \/ Crash(s) \/ StartByHand(s) \/ ReusePid(s)
    \/ \E c \in Starters : Request(c) \/ Enter(c) \/ Check(c) \/ Poll(c)
                           \/ (Expire(c) /\ (Event \/ UNCHANGED events))
    \/ Stop \/ Waited \/ Clear \/ Unlink \/ Kill \/ Restart

LEMMA NextIs == Next => Act
<1> SUFFICES ASSUME Next PROVE Act
  OBVIOUS
<1>1. ASSUME NEW c \in Starters, Deadline(c) \/ Unfound(c)
      PROVE  Expire(c) /\ (Event \/ UNCHANGED events)
  BY <1>1 DEF Deadline, Unfound
<1>2. ASSUME NEW s \in Servers,
             ServerStep(s) \/ Fail(s) \/ Crash(s) \/ StartByHand(s) \/ ReusePid(s)
      PROVE  Act
  BY <1>2 DEF Act, ServerStep
<1>3. ASSUME NEW c \in Starters, Request(c) \/ StartStep(c) \/ Deadline(c) PROVE Act
  <2>1. CASE Request(c) \/ Enter(c) \/ Check(c) \/ Poll(c)
    BY <2>1 DEF Act
  <2>2. CASE Deadline(c) \/ Unfound(c)
    BY <1>1, <2>2 DEF Act
  <2>3. QED
    BY <1>3, <2>1, <2>2 DEF StartStep
<1>4. ASSUME Stop \/ StopStep \/ Kill \/ Restart PROVE Act
  BY <1>4 DEF Act, StopStep
<1>5. QED
  BY <1>2, <1>3, <1>4 DEF Next

LEMMA ShapeKept ==
    ASSUME ManagerInv, Act
    PROVE  Shape'
<1> USE DEF procs
<1>t. Shape /\ StartShape /\ ManagerAssumption
  BY DEF ManagerInv
<1>1. ASSUME NEW s \in Servers, Lock(s) PROVE Shape'
  BY <1>t, <1>1 DEF Lock, Move, Quiet, Shape, StartShape, ManagerAssumption
<1>2. ASSUME NEW s \in Servers, Bind(s) PROVE Shape'
  BY <1>t, <1>2 DEF Bind, Move, Quiet, Shape, StartShape, ManagerAssumption
<1>3. ASSUME NEW s \in Servers, Publish(s) PROVE Shape'
  BY <1>t, <1>3 DEF Publish, Move, Shape, StartShape, ManagerAssumption
<1>4. ASSUME NEW s \in Servers, Serve(s) PROVE Shape'
  BY <1>t, <1>4 DEF Serve, Move, Quiet, Shape, StartShape, ManagerAssumption
<1>5. ASSUME NEW s \in Servers, ShutDown(s) PROVE Shape'
  BY <1>t, <1>5 DEF ShutDown, Move, Quiet, Shape, StartShape, ManagerAssumption
<1>6. ASSUME NEW s \in Servers, Close(s) PROVE Shape'
  BY <1>t, <1>6 DEF Close, Move, Quiet, Shape, StartShape, ManagerAssumption
<1>7. ASSUME NEW s \in Servers, Exit(s) PROVE Shape'
  BY <1>t, <1>7 DEF Exit, Move, Quiet, Shape, StartShape, ManagerAssumption
<1>8. ASSUME NEW s \in Servers, Fail(s) PROVE Shape'
  BY <1>t, <1>8 DEF Fail, Move, Event, Unrest, Shape, StartShape, ManagerAssumption
<1>9. ASSUME NEW s \in Servers, Crash(s) PROVE Shape'
  BY <1>t, <1>9 DEF Crash, Move, Event, Unrest, Ours, Shape, StartShape, ManagerAssumption
<1>10. ASSUME NEW s \in Servers, StartByHand(s) PROVE Shape'
  BY <1>t, <1>10 DEF StartByHand, Move, Event, Unrest, Unused, Spawn, Ours, Shape, StartShape,
     ManagerAssumption
<1>11. ASSUME NEW s \in Servers, ReusePid(s) PROVE Shape'
  BY <1>t, <1>11 DEF ReusePid, Event, Ours, Shape, StartShape, ManagerAssumption
<1>12. ASSUME NEW c \in Starters, Request(c) PROVE Shape'
  BY <1>t, <1>12 DEF Request, Shape, StartShape, ManagerAssumption
<1>13. ASSUME NEW c \in Starters, Enter(c) PROVE Shape'
  BY <1>t, <1>13 DEF Enter, Answer, MayEnter, Running, Shape, StartShape, ManagerAssumption
<1>14. ASSUME NEW c \in Starters, Check(c) PROVE Shape'
  BY <1>t, <1>14 DEF Check, Answer, Spawn, Unused, Move, Ours, Shape, StartShape,
     ManagerAssumption
<1>15. ASSUME NEW c \in Starters, Poll(c) PROVE Shape'
  BY <1>t, <1>15 DEF Poll, Answer, Ours, Shape, StartShape, ManagerAssumption
<1>16. ASSUME NEW c \in Starters, Expire(c) PROVE Shape'
  BY <1>t, <1>16 DEF Expire, Answer, Unrest, Move, Terminate, Ours, Shape, StartShape,
     ManagerAssumption
<1>17. CASE Stop
  BY <1>t, <1>17 DEF Stop, Event, Unrest, PidAlive, Owned, Ours, Move, Terminate, Shape,
     StartShape, ManagerAssumption
<1>18. CASE Waited
  BY <1>t, <1>18 DEF Waited, Ours, Shape, StartShape, ManagerAssumption
<1>19. CASE Clear
  BY <1>t, <1>19 DEF Clear, Names, Shape, StartShape, ManagerAssumption
<1>20. CASE Unlink
  BY <1>t, <1>20 DEF Unlink, Shape, StartShape, ManagerAssumption
<1>21. CASE Kill
  BY <1>t, <1>21 DEF Kill, Event, Move, Ours, Shape, StartShape, ManagerAssumption
<1>22. CASE Restart
  BY <1>t, <1>22 DEF Restart, Event, Unrest, Shape, StartShape, ManagerAssumption
<1>23. QED
  BY <1>1, <1>2, <1>3, <1>4, <1>5, <1>6, <1>7, <1>8, <1>9, <1>10, <1>11, <1>12, <1>13, <1>14,
     <1>15, <1>16, <1>17, <1>18, <1>19, <1>20, <1>21, <1>22 DEF Act

LEMMA StartKept ==
    ASSUME ManagerInv, Act
    PROVE  (StartShape /\ Polled)'
<1> USE DEF procs
<1>t. Shape /\ StartShape /\ Polled /\ ManagerAssumption
  BY DEF ManagerInv
<1>1. ASSUME NEW s \in Servers, Lock(s) PROVE (StartShape /\ Polled)'
  BY <1>t, <1>1 DEF Lock, Move, Quiet, Shape, StartShape, Polled, Pcs, ManagerAssumption
<1>2. ASSUME NEW s \in Servers, Bind(s) PROVE (StartShape /\ Polled)'
  BY <1>t, <1>2 DEF Bind, Move, Quiet, Shape, StartShape, Polled, Pcs, ManagerAssumption
<1>3. ASSUME NEW s \in Servers, Publish(s) PROVE (StartShape /\ Polled)'
  BY <1>t, <1>3 DEF Publish, Move, Shape, StartShape, Polled, Pcs, ManagerAssumption
<1>4. ASSUME NEW s \in Servers, Serve(s) PROVE (StartShape /\ Polled)'
  BY <1>t, <1>4 DEF Serve, Move, Quiet, Shape, StartShape, Polled, Pcs, ManagerAssumption
<1>5. ASSUME NEW s \in Servers, ShutDown(s) PROVE (StartShape /\ Polled)'
  BY <1>t, <1>5 DEF ShutDown, Move, Quiet, Shape, StartShape, Polled, Pcs, ManagerAssumption
<1>6. ASSUME NEW s \in Servers, Close(s) PROVE (StartShape /\ Polled)'
  BY <1>t, <1>6 DEF Close, Move, Quiet, Shape, StartShape, Polled, Pcs, ManagerAssumption
<1>7. ASSUME NEW s \in Servers, Exit(s) PROVE (StartShape /\ Polled)'
  BY <1>t, <1>7 DEF Exit, Move, Quiet, Shape, StartShape, Polled, Pcs, ManagerAssumption
<1>8. ASSUME NEW s \in Servers, Fail(s) PROVE (StartShape /\ Polled)'
  BY <1>t, <1>8 DEF Fail, Move, Event, Unrest, Shape, StartShape, Polled, Pcs,
     ManagerAssumption
<1>9. ASSUME NEW s \in Servers, Crash(s) PROVE (StartShape /\ Polled)'
  BY <1>t, <1>9 DEF Crash, Move, Event, Unrest, Ours, Shape, StartShape, Polled, Pcs,
     ManagerAssumption
<1>10. ASSUME NEW s \in Servers, StartByHand(s) PROVE (StartShape /\ Polled)'
  BY <1>t, <1>10 DEF StartByHand, Move, Event, Unrest, Unused, Spawn, Ours, Shape, StartShape,
     Polled, Pcs, ManagerAssumption
<1>11. ASSUME NEW s \in Servers, ReusePid(s) PROVE (StartShape /\ Polled)'
  BY <1>t, <1>11 DEF ReusePid, Event, Ours, Shape, StartShape, Polled, Pcs, ManagerAssumption
<1>12. ASSUME NEW c \in Starters, Request(c) PROVE (StartShape /\ Polled)'
  BY <1>t, <1>12 DEF Request, Shape, StartShape, Polled, Pcs, ManagerAssumption
<1>13. ASSUME NEW c \in Starters, Enter(c) PROVE (StartShape /\ Polled)'
  BY <1>t, <1>13 DEF Enter, Answer, MayEnter, Running, Shape, StartShape, Polled, Pcs,
     ManagerAssumption
<1>14. ASSUME NEW c \in Starters, Check(c) PROVE (StartShape /\ Polled)'
  BY <1>t, <1>14 DEF Check, Answer, Spawn, Unused, Move, Ours, Shape, StartShape, Polled, Pcs,
     ManagerAssumption
<1>15. ASSUME NEW c \in Starters, Poll(c) PROVE (StartShape /\ Polled)'
  BY <1>t, <1>15 DEF Poll, Answer, Ours, Shape, StartShape, Polled, Pcs, ManagerAssumption
<1>16. ASSUME NEW c \in Starters, Expire(c) PROVE (StartShape /\ Polled)'
  BY <1>t, <1>16 DEF Expire, Answer, Unrest, Move, Terminate, Ours, Shape, StartShape, Polled,
     Pcs, ManagerAssumption
<1>17. CASE Stop
  BY <1>t, <1>17 DEF Stop, Event, Unrest, PidAlive, Owned, Ours, Move, Terminate, Shape,
     StartShape, Polled, Pcs, ManagerAssumption
<1>18. CASE Waited
  BY <1>t, <1>18 DEF Waited, Ours, Shape, StartShape, Polled, Pcs, ManagerAssumption
<1>19. CASE Clear
  BY <1>t, <1>19 DEF Clear, Names, Shape, StartShape, Polled, Pcs, ManagerAssumption
<1>20. CASE Unlink
  BY <1>t, <1>20 DEF Unlink, Shape, StartShape, Polled, Pcs, ManagerAssumption
<1>21. CASE Kill
  BY <1>t, <1>21 DEF Kill, Event, Move, Ours, Shape, StartShape, Polled, Pcs,
     ManagerAssumption
<1>22. CASE Restart
  BY <1>t, <1>22 DEF Restart, Event, Unrest, Shape, StartShape, Polled, Pcs, ManagerAssumption
<1>23. QED
  BY <1>1, <1>2, <1>3, <1>4, <1>5, <1>6, <1>7, <1>8, <1>9, <1>10, <1>11, <1>12, <1>13, <1>14,
     <1>15, <1>16, <1>17, <1>18, <1>19, <1>20, <1>21, <1>22 DEF Act

LEMMA CountedKept ==
    ASSUME ManagerInv, Act
    PROVE  Counted'
<1>t. events \in 0..MaxEvents /\ calm \in BOOLEAN /\ MaxEvents \in Nat
  BY DEF ManagerInv, Counted, ManagerAssumption
<1>1. UNCHANGED events \/ Event
  BY DEF Act, Lock, Bind, Publish, Serve, ShutDown, Close, Exit, Fail, Crash, StartByHand,
       ReusePid,
     Request, Enter, Check, Poll, Stop, Waited, Clear, Unlink, Kill, Restart, Quiet
<1>2. UNCHANGED calm \/ Unrest
  BY DEF Act, Lock, Bind, Publish, Serve, ShutDown, Close, Exit, Fail, Crash, StartByHand,
       ReusePid,
     Request, Enter, Check, Poll, Expire, Stop, Waited, Clear, Unlink, Kill, Restart, Quiet
<1>3. events' \in 0..MaxEvents
  BY <1>t, <1>1 DEF Event
<1>4. calm' \in BOOLEAN
  BY <1>t, <1>2, Zenon DEF Unrest
<1>5. QED
  BY <1>3, <1>4 DEF Counted

LEMMA LockKept ==
    ASSUME ManagerInv, Act
    PROVE  LockSound'
<1> USE DEF procs
<1>t. /\ Shape /\ StartShape /\ Polled /\ LockSound /\ ManagerAssumption
  BY DEF ManagerInv
<1>1. ASSUME NEW s \in Servers, Lock(s) PROVE LockSound'
  BY <1>t, <1>1 DEF Lock, Move, Quiet, Shape, StartShape, Polled, Pcs, LockSound, Locked,
     Starting
<1>2. ASSUME NEW s \in Servers, Bind(s) PROVE LockSound'
  BY <1>t, <1>2 DEF Bind, Move, Quiet, Shape, StartShape, Polled, Pcs, LockSound, Locked,
     Starting
<1>3. ASSUME NEW s \in Servers, Publish(s) PROVE LockSound'
  BY <1>t, <1>3 DEF Publish, Move, Shape, StartShape, Polled, Pcs, LockSound, Locked, Starting
<1>4. ASSUME NEW s \in Servers, Serve(s) PROVE LockSound'
  BY <1>t, <1>4 DEF Serve, Move, Quiet, Shape, StartShape, Polled, Pcs, LockSound, Locked,
     Starting
<1>5. ASSUME NEW s \in Servers, ShutDown(s) PROVE LockSound'
  BY <1>t, <1>5 DEF ShutDown, Move, Quiet, Shape, StartShape, Polled, Pcs, LockSound, Locked,
     Starting
<1>6. ASSUME NEW s \in Servers, Close(s) PROVE LockSound'
  BY <1>t, <1>6 DEF Close, Move, Quiet, Shape, StartShape, Polled, Pcs, LockSound, Locked,
     Starting
<1>7. ASSUME NEW s \in Servers, Exit(s) PROVE LockSound'
  BY <1>t, <1>7 DEF Exit, Move, Quiet, Shape, StartShape, Polled, Pcs, LockSound, Locked,
     Starting
<1>8. ASSUME NEW s \in Servers, Fail(s) PROVE LockSound'
  BY <1>t, <1>8 DEF Fail, Move, Event, Unrest, Shape, StartShape, Polled, Pcs, LockSound,
     Locked, Starting
<1>9. ASSUME NEW s \in Servers, Crash(s) PROVE LockSound'
  BY <1>t, <1>9 DEF Crash, Move, Event, Unrest, Ours, Shape, StartShape, Polled, Pcs,
     LockSound, Locked, Starting
<1>10. ASSUME NEW s \in Servers, StartByHand(s) PROVE LockSound'
  BY <1>t, <1>10 DEF StartByHand, Move, Event, Unrest, Unused, Spawn, Ours, Shape, StartShape,
     Polled, Pcs, LockSound, Locked, Starting
<1>11. ASSUME NEW s \in Servers, ReusePid(s) PROVE LockSound'
  BY <1>t, <1>11 DEF ReusePid, Event, Ours, Shape, StartShape, Polled, Pcs, LockSound, Locked,
     Starting
<1>12. ASSUME NEW c \in Starters, Request(c) PROVE LockSound'
  BY <1>t, <1>12 DEF Request, Shape, StartShape, Polled, Pcs, LockSound, Locked, Starting
<1>13. ASSUME NEW c \in Starters, Enter(c) PROVE LockSound'
  BY <1>t, <1>13 DEF Enter, Answer, MayEnter, Running, Shape, StartShape, Polled, Pcs,
     LockSound, Locked, Starting
<1>14. ASSUME NEW c \in Starters, Check(c) PROVE LockSound'
  BY <1>t, <1>14 DEF Check, Answer, Spawn, Unused, Move, Ours, Shape, StartShape, Polled, Pcs,
     LockSound, Locked, Starting
<1>15. ASSUME NEW c \in Starters, Poll(c) PROVE LockSound'
  BY <1>t, <1>15 DEF Poll, Answer, Ours, Shape, StartShape, Polled, Pcs, LockSound, Locked,
     Starting
<1>16. ASSUME NEW c \in Starters, Expire(c) PROVE LockSound'
  BY <1>t, <1>16 DEF Expire, Answer, Unrest, Move, Terminate, Ours, Shape, StartShape, Polled,
     Pcs, LockSound, Locked, Starting
<1>17. CASE Stop
  BY <1>t, <1>17 DEF Stop, Event, Unrest, PidAlive, Owned, Ours, Move, Terminate, Shape,
     StartShape, Polled, Pcs, LockSound, Locked, Starting
<1>18. CASE Waited
  BY <1>t, <1>18 DEF Waited, Ours, Shape, StartShape, Polled, Pcs, LockSound, Locked, Starting
<1>19. CASE Clear
  BY <1>t, <1>19 DEF Clear, Names, Shape, StartShape, Polled, Pcs, LockSound, Locked, Starting
<1>20. CASE Unlink
  BY <1>t, <1>20 DEF Unlink, Shape, StartShape, Polled, Pcs, LockSound, Locked, Starting
<1>21. CASE Kill
  BY <1>t, <1>21 DEF Kill, Event, Move, Ours, Shape, StartShape, Polled, Pcs, LockSound,
     Locked, Starting
<1>22. CASE Restart
  BY <1>t, <1>22 DEF Restart, Event, Unrest, Shape, StartShape, Polled, Pcs, LockSound,
     Locked, Starting
<1>23. QED
  BY <1>1, <1>2, <1>3, <1>4, <1>5, <1>6, <1>7, <1>8, <1>9, <1>10, <1>11, <1>12, <1>13, <1>14,
     <1>15, <1>16, <1>17, <1>18, <1>19, <1>20, <1>21, <1>22 DEF Act

LEMMA StopKept ==
    ASSUME ManagerInv, Act
    PROVE  StopSound'
<1> USE DEF procs
<1>t. /\ Shape /\ StartShape /\ Polled /\ StopSound /\ ManagerAssumption
  BY DEF ManagerInv
<1>1. ASSUME NEW s \in Servers, Lock(s) PROVE StopSound'
  BY <1>t, <1>1 DEF Lock, Move, Quiet, Shape, StartShape, StopSound, ManagerAssumption
<1>2. ASSUME NEW s \in Servers, Bind(s) PROVE StopSound'
  BY <1>t, <1>2 DEF Bind, Move, Quiet, Shape, StartShape, StopSound, ManagerAssumption
<1>3. ASSUME NEW s \in Servers, Publish(s) PROVE StopSound'
  BY <1>t, <1>3 DEF Publish, Move, Shape, StartShape, StopSound, ManagerAssumption
<1>4. ASSUME NEW s \in Servers, Serve(s) PROVE StopSound'
  BY <1>t, <1>4 DEF Serve, Move, Quiet, Shape, StartShape, StopSound, ManagerAssumption
<1>5. ASSUME NEW s \in Servers, ShutDown(s) PROVE StopSound'
  BY <1>t, <1>5 DEF ShutDown, Move, Quiet, Shape, StartShape, StopSound, ManagerAssumption
<1>6. ASSUME NEW s \in Servers, Close(s) PROVE StopSound'
  BY <1>t, <1>6 DEF Close, Move, Quiet, Shape, StartShape, StopSound, ManagerAssumption
<1>7. ASSUME NEW s \in Servers, Exit(s) PROVE StopSound'
  BY <1>t, <1>7 DEF Exit, Move, Quiet, Shape, StartShape, StopSound, ManagerAssumption
<1>8. ASSUME NEW s \in Servers, Fail(s) PROVE StopSound'
  BY <1>t, <1>8 DEF Fail, Move, Event, Unrest, Shape, StartShape, StopSound, ManagerAssumption
<1>9. ASSUME NEW s \in Servers, Crash(s) PROVE StopSound'
  BY <1>t, <1>9 DEF Crash, Move, Event, Unrest, Ours, Shape, StartShape, StopSound,
     ManagerAssumption
<1>10. ASSUME NEW s \in Servers, StartByHand(s) PROVE StopSound'
  BY <1>t, <1>10 DEF StartByHand, Move, Event, Unrest, Unused, Spawn, Ours, Shape, StartShape,
     StopSound, ManagerAssumption
<1>11. ASSUME NEW s \in Servers, ReusePid(s) PROVE StopSound'
  BY <1>t, <1>11 DEF ReusePid, Event, Ours, Shape, StartShape, StopSound, ManagerAssumption
<1>12. ASSUME NEW c \in Starters, Request(c) PROVE StopSound'
  BY <1>t, <1>12 DEF Request, Shape, StartShape, StopSound, ManagerAssumption
<1>13. ASSUME NEW c \in Starters, Enter(c) PROVE StopSound'
  BY <1>t, <1>13 DEF Enter, Answer, MayEnter, Running, Shape, StartShape, StopSound,
     ManagerAssumption
<1>14. ASSUME NEW c \in Starters, Check(c) PROVE StopSound'
  BY <1>t, <1>14 DEF Check, Answer, Spawn, Unused, Move, Ours, Shape, StartShape, StopSound,
     ManagerAssumption
<1>15. ASSUME NEW c \in Starters, Poll(c) PROVE StopSound'
  BY <1>t, <1>15 DEF Poll, Answer, Ours, Shape, StartShape, StopSound, ManagerAssumption
<1>16. ASSUME NEW c \in Starters, Expire(c) PROVE StopSound'
  BY <1>t, <1>16 DEF Expire, Answer, Unrest, Move, Terminate, Ours, Shape, StartShape,
     StopSound, ManagerAssumption
<1>17. CASE Stop
  BY <1>t, <1>17 DEF Stop, Event, Unrest, PidAlive, Owned, Ours, Move, Terminate, Shape,
     StartShape, StopSound, ManagerAssumption
<1>18. CASE Waited
  BY <1>t, <1>18 DEF Waited, Ours, Shape, StartShape, StopSound, ManagerAssumption
<1>19. CASE Clear
  BY <1>t, <1>19 DEF Clear, Names, Shape, StartShape, StopSound, ManagerAssumption
<1>20. CASE Unlink
  BY <1>t, <1>20 DEF Unlink, Shape, StartShape, StopSound, ManagerAssumption
<1>21. CASE Kill
  BY <1>t, <1>21 DEF Kill, Event, Move, Ours, Shape, StartShape, StopSound, ManagerAssumption
<1>22. CASE Restart
  BY <1>t, <1>22 DEF Restart, Event, Unrest, Shape, StartShape, StopSound, ManagerAssumption
<1>23. QED
  BY <1>1, <1>2, <1>3, <1>4, <1>5, <1>6, <1>7, <1>8, <1>9, <1>10, <1>11, <1>12, <1>13, <1>14,
     <1>15, <1>16, <1>17, <1>18, <1>19, <1>20, <1>21, <1>22 DEF Act

LEMMA KnownKept ==
    ASSUME ManagerInv, Act
    PROVE  KnownSound'
<1> USE DEF procs
<1>t. /\ Shape /\ StartShape /\ Polled /\ LockSound /\ StopSound /\ KnownSound /\ ManagerAssumption
  BY DEF ManagerInv
<1>1. ASSUME NEW s \in Servers, Lock(s) PROVE KnownSound'
  BY <1>t, <1>1 DEF Lock, Move, Quiet, Shape, StartShape, Polled, Pcs, LockSound, StopSound,
     KnownSound, Locked, ManagerAssumption
<1>2. ASSUME NEW s \in Servers, Bind(s) PROVE KnownSound'
  BY <1>t, <1>2 DEF Bind, Move, Quiet, Shape, StartShape, Polled, Pcs, LockSound, StopSound,
     KnownSound, Locked, ManagerAssumption
<1>3. ASSUME NEW s \in Servers, Publish(s) PROVE KnownSound'
  BY <1>t, <1>3 DEF Publish, Move, Shape, StartShape, Polled, Pcs, LockSound, StopSound,
     KnownSound, Locked, ManagerAssumption
<1>4. ASSUME NEW s \in Servers, Serve(s) PROVE KnownSound'
  BY <1>t, <1>4 DEF Serve, Move, Quiet, Shape, StartShape, Polled, Pcs, LockSound, StopSound,
     KnownSound, Locked, ManagerAssumption
<1>5. ASSUME NEW s \in Servers, ShutDown(s) PROVE KnownSound'
  BY <1>t, <1>5 DEF ShutDown, Move, Quiet, Shape, StartShape, Polled, Pcs, LockSound,
     StopSound, KnownSound, Locked, ManagerAssumption
<1>6. ASSUME NEW s \in Servers, Close(s) PROVE KnownSound'
  BY <1>t, <1>6 DEF Close, Move, Quiet, Shape, StartShape, Polled, Pcs, LockSound, StopSound,
     KnownSound, Locked, ManagerAssumption
<1>7. ASSUME NEW s \in Servers, Exit(s) PROVE KnownSound'
  BY <1>t, <1>7 DEF Exit, Move, Quiet, Shape, StartShape, Polled, Pcs, LockSound, StopSound,
     KnownSound, Locked, ManagerAssumption
<1>8. ASSUME NEW s \in Servers, Fail(s) PROVE KnownSound'
  BY <1>t, <1>8 DEF Fail, Move, Event, Unrest, Shape, StartShape, Polled, Pcs, LockSound,
     StopSound, KnownSound, Locked, ManagerAssumption
<1>9. ASSUME NEW s \in Servers, Crash(s) PROVE KnownSound'
  BY <1>t, <1>9 DEF Crash, Move, Event, Unrest, Ours, Shape, StartShape, Polled, Pcs,
     LockSound, StopSound, KnownSound, Locked, ManagerAssumption
<1>10. ASSUME NEW s \in Servers, StartByHand(s) PROVE KnownSound'
  BY <1>t, <1>10 DEF StartByHand, Move, Event, Unrest, Unused, Spawn, Ours, Shape, StartShape,
     Polled, Pcs, LockSound, StopSound, KnownSound, Locked, ManagerAssumption
<1>11. ASSUME NEW s \in Servers, ReusePid(s) PROVE KnownSound'
  BY <1>t, <1>11 DEF ReusePid, Event, Ours, Shape, StartShape, Polled, Pcs, LockSound,
     StopSound, KnownSound, Locked, ManagerAssumption
<1>12. ASSUME NEW c \in Starters, Request(c) PROVE KnownSound'
  BY <1>t, <1>12 DEF Request, Shape, StartShape, Polled, Pcs, LockSound, StopSound,
     KnownSound, Locked, ManagerAssumption
<1>13. ASSUME NEW c \in Starters, Enter(c) PROVE KnownSound'
  BY <1>t, <1>13 DEF Enter, Answer, MayEnter, Running, Shape, StartShape, Polled, Pcs,
     LockSound, StopSound, KnownSound, Locked, ManagerAssumption
<1>14. ASSUME NEW c \in Starters, Check(c) PROVE KnownSound'
  BY <1>t, <1>14 DEF Check, Answer, Spawn, Unused, Move, Ours, Shape, StartShape, Polled, Pcs,
     LockSound, StopSound, KnownSound, Locked, ManagerAssumption
<1>15. ASSUME NEW c \in Starters, Poll(c) PROVE KnownSound'
  BY <1>t, <1>15 DEF Poll, Answer, Ours, Shape, StartShape, Polled, Pcs, LockSound, StopSound,
     KnownSound, Locked, ManagerAssumption
<1>16. ASSUME NEW c \in Starters, Expire(c) PROVE KnownSound'
  BY <1>t, <1>16 DEF Expire, Answer, Unrest, Move, Terminate, Ours, Shape, StartShape, Polled,
     Pcs, LockSound, StopSound, KnownSound, Locked, ManagerAssumption
<1>17. CASE Stop
  BY <1>t, <1>17 DEF Stop, Event, Unrest, PidAlive, Owned, Ours, Move, Terminate, Shape,
     StartShape, Polled, Pcs, LockSound, StopSound, KnownSound, Locked, ManagerAssumption
<1>18. CASE Waited
  BY <1>t, <1>18 DEF Waited, Ours, Shape, StartShape, Polled, Pcs, LockSound, StopSound,
     KnownSound, Locked, ManagerAssumption
<1>19. CASE Clear
  BY <1>t, <1>19 DEF Clear, Names, Shape, StartShape, Polled, Pcs, LockSound, StopSound,
     KnownSound, Locked, ManagerAssumption
<1>20. CASE Unlink
  BY <1>t, <1>20 DEF Unlink, Shape, StartShape, Polled, Pcs, LockSound, StopSound, KnownSound,
     Locked, ManagerAssumption
<1>21. CASE Kill
  BY <1>t, <1>21 DEF Kill, Event, Move, Ours, Shape, StartShape, Polled, Pcs, LockSound,
     StopSound, KnownSound, Locked, ManagerAssumption
<1>22. CASE Restart
  BY <1>t, <1>22 DEF Restart, Event, Unrest, Shape, StartShape, Polled, Pcs, LockSound,
     StopSound, KnownSound, Locked, ManagerAssumption
<1>23. QED
  BY <1>1, <1>2, <1>3, <1>4, <1>5, <1>6, <1>7, <1>8, <1>9, <1>10, <1>11, <1>12, <1>13, <1>14,
     <1>15, <1>16, <1>17, <1>18, <1>19, <1>20, <1>21, <1>22 DEF Act

LEMMA CalmKept ==
    ASSUME ManagerInv, Act
    PROVE  CalmSound'
<1> USE DEF procs
<1>t. /\ Shape /\ StartShape /\ Polled /\ LockSound /\ KnownSound /\ CalmSound /\ ManagerAssumption
  BY DEF ManagerInv
<1>1. ASSUME NEW s \in Servers, Lock(s) PROVE CalmSound'
  BY <1>t, <1>1 DEF Lock, Move, Quiet, Shape, StartShape, Polled, Pcs, LockSound, KnownSound,
     CalmSound, Locked, Listening, Starting, Running, PidAlive, PortOpen, Owned, Ours,
     ManagerAssumption
<1>2. ASSUME NEW s \in Servers, Bind(s) PROVE CalmSound'
  BY <1>t, <1>2 DEF Bind, Move, Quiet, Shape, StartShape, Polled, Pcs, LockSound, KnownSound,
     CalmSound, Locked, Listening, Starting, Running, PidAlive, PortOpen, Owned, Ours,
     ManagerAssumption
<1>3. ASSUME NEW s \in Servers, Publish(s) PROVE CalmSound'
  BY <1>t, <1>3 DEF Publish, Move, Shape, StartShape, Polled, Pcs, LockSound, KnownSound,
     CalmSound, Locked, Listening, Starting, Running, PidAlive, PortOpen, Owned, Ours,
     ManagerAssumption
<1>4. ASSUME NEW s \in Servers, Serve(s) PROVE CalmSound'
  BY <1>t, <1>4 DEF Serve, Move, Quiet, Shape, StartShape, Polled, Pcs, LockSound, KnownSound,
     CalmSound, Locked, Listening, Starting, Running, PidAlive, PortOpen, Owned, Ours,
     ManagerAssumption
<1>5. ASSUME NEW s \in Servers, ShutDown(s) PROVE CalmSound'
  BY <1>t, <1>5 DEF ShutDown, Move, Quiet, Shape, StartShape, Polled, Pcs, LockSound,
     KnownSound, CalmSound, Locked, Listening, Starting, Running, PidAlive, PortOpen, Owned,
     Ours, ManagerAssumption
<1>6. ASSUME NEW s \in Servers, Close(s) PROVE CalmSound'
  BY <1>t, <1>6 DEF Close, Move, Quiet, Shape, StartShape, Polled, Pcs, LockSound, KnownSound,
     CalmSound, Locked, Listening, Starting, Running, PidAlive, PortOpen, Owned, Ours,
     ManagerAssumption
<1>7. ASSUME NEW s \in Servers, Exit(s) PROVE CalmSound'
  BY <1>t, <1>7 DEF Exit, Move, Quiet, Shape, StartShape, Polled, Pcs, LockSound, KnownSound,
     CalmSound, Locked, Listening, Starting, Running, PidAlive, PortOpen, Owned, Ours,
     ManagerAssumption
<1>8. ASSUME NEW s \in Servers, Fail(s) PROVE CalmSound'
  BY <1>t, <1>8 DEF Fail, Move, Event, Unrest, Shape, StartShape, Polled, Pcs, LockSound,
     KnownSound, CalmSound, Locked, Listening, Starting, Running, PidAlive, PortOpen, Owned,
     Ours, ManagerAssumption
<1>9. ASSUME NEW s \in Servers, Crash(s) PROVE CalmSound'
  BY <1>t, <1>9 DEF Crash, Move, Event, Unrest, Ours, Shape, StartShape, Polled, Pcs,
     LockSound, KnownSound, CalmSound, Locked, Listening, Starting, Running, PidAlive,
     PortOpen, Owned, Ours, ManagerAssumption
<1>10. ASSUME NEW s \in Servers, StartByHand(s) PROVE CalmSound'
  BY <1>t, <1>10 DEF StartByHand, Move, Event, Unrest, Unused, Spawn, Ours, Shape, StartShape,
     Polled, Pcs, LockSound, KnownSound, CalmSound, Locked, Listening, Starting, Running,
     PidAlive, PortOpen, Owned, Ours, ManagerAssumption
<1>11. ASSUME NEW s \in Servers, ReusePid(s) PROVE CalmSound'
  BY <1>t, <1>11 DEF ReusePid, Event, Ours, Shape, StartShape, Polled, Pcs, LockSound,
     KnownSound, CalmSound, Locked, Listening, Starting, Running, PidAlive, PortOpen, Owned,
     Ours, ManagerAssumption
<1>12. ASSUME NEW c \in Starters, Request(c) PROVE CalmSound'
  BY <1>t, <1>12 DEF Request, Shape, StartShape, Polled, Pcs, LockSound, KnownSound,
     CalmSound, Locked, Listening, Starting, Running, PidAlive, PortOpen, Owned, Ours,
     ManagerAssumption
<1>13. ASSUME NEW c \in Starters, Enter(c) PROVE CalmSound'
  BY <1>t, <1>13 DEF Enter, Answer, MayEnter, Running, Shape, StartShape, Polled, Pcs,
     LockSound, KnownSound, CalmSound, Locked, Listening, Starting, Running, PidAlive,
     PortOpen, Owned, Ours, ManagerAssumption
<1>14. ASSUME NEW c \in Starters, Check(c) PROVE CalmSound'
  BY <1>t, <1>14 DEF Check, Answer, Spawn, Unused, Move, Ours, Shape, StartShape, Polled, Pcs,
     LockSound, KnownSound, CalmSound, Locked, Listening, Starting, Running, PidAlive,
     PortOpen, Owned, Ours, ManagerAssumption
<1>15. ASSUME NEW c \in Starters, Poll(c) PROVE CalmSound'
  BY <1>t, <1>15 DEF Poll, Answer, Ours, Shape, StartShape, Polled, Pcs, LockSound,
     KnownSound, CalmSound, Locked, Listening, Starting, Running, PidAlive, PortOpen, Owned,
     Ours, ManagerAssumption
<1>16. ASSUME NEW c \in Starters, Expire(c) PROVE CalmSound'
  BY <1>t, <1>16 DEF Expire, Answer, Unrest, Move, Terminate, Ours, Shape, StartShape, Polled,
     Pcs, LockSound, KnownSound, CalmSound, Locked, Listening, Starting, Running, PidAlive,
     PortOpen, Owned, Ours, ManagerAssumption
<1>17. CASE Stop
  BY <1>t, <1>17 DEF Stop, Event, Unrest, PidAlive, Owned, Ours, Move, Terminate, Shape,
     StartShape, Polled, Pcs, LockSound, KnownSound, CalmSound, Locked, Listening, Starting,
     Running, PidAlive, PortOpen, Owned, Ours, ManagerAssumption
<1>18. CASE Waited
  BY <1>t, <1>18 DEF Waited, Ours, Shape, StartShape, Polled, Pcs, LockSound, KnownSound,
     CalmSound, Locked, Listening, Starting, Running, PidAlive, PortOpen, Owned, Ours,
     ManagerAssumption
<1>19. CASE Clear
  BY <1>t, <1>19 DEF Clear, Names, Shape, StartShape, Polled, Pcs, LockSound, KnownSound,
     CalmSound, Locked, Listening, Starting, Running, PidAlive, PortOpen, Owned, Ours,
     ManagerAssumption
<1>20. CASE Unlink
  BY <1>t, <1>20 DEF Unlink, Shape, StartShape, Polled, Pcs, LockSound, KnownSound, CalmSound,
     Locked, Listening, Starting, Running, PidAlive, PortOpen, Owned, Ours, ManagerAssumption
<1>21. CASE Kill
  BY <1>t, <1>21 DEF Kill, Event, Move, Ours, Shape, StartShape, Polled, Pcs, LockSound,
     KnownSound, CalmSound, Locked, Listening, Starting, Running, PidAlive, PortOpen, Owned,
     Ours, ManagerAssumption
<1>22. CASE Restart
  BY <1>t, <1>22 DEF Restart, Event, Unrest, Shape, StartShape, Polled, Pcs, LockSound,
     KnownSound, CalmSound, Locked, Listening, Starting, Running, PidAlive, PortOpen, Owned,
     Ours, ManagerAssumption
<1>23. QED
  BY <1>1, <1>2, <1>3, <1>4, <1>5, <1>6, <1>7, <1>8, <1>9, <1>10, <1>11, <1>12, <1>13, <1>14,
     <1>15, <1>16, <1>17, <1>18, <1>19, <1>20, <1>21, <1>22 DEF Act

-----------------------------------------------------------------------------
(* What follows.                                                           *)

LEMMA InitInv == ManagerAssumption /\ Init => ManagerInv
BY DEF ManagerAssumption, Init, ManagerInv, Shape, StartShape, Pcs, Polled, Counted, LockSound,
   StopSound, KnownSound, CalmSound, Locked, Starting, Ours

LEMMA StepInv == ManagerInv /\ [Next]_vars => ManagerInv'
<1> SUFFICES ASSUME ManagerInv, [Next]_vars PROVE ManagerInv'
  OBVIOUS
<1>1. CASE Next
  <2>1. ManagerAssumption'
    BY DEF ManagerInv, ManagerAssumption
  <2>2. QED
    BY <1>1, <2>1, NextIs, ShapeKept, StartKept, CountedKept, LockKept, StopKept, KnownKept,
         CalmKept DEF ManagerInv
<1>2. CASE UNCHANGED vars
  BY <1>2 DEF vars, procs, ManagerInv, ManagerAssumption, Shape, StartShape, Polled, Counted,
     LockSound, StopSound, KnownSound, CalmSound, Locked, Starting, Ours
<1>3. QED
  BY <1>1, <1>2

LEMMA InvImplies == ManagerInv => ServerHonest
<1> SUFFICES ASSUME ManagerInv PROVE ServerHonest
  OBVIOUS
<1>0. TypeOK
  BY DEF ManagerInv, Shape, StartShape, Polled, Counted, Pcs, TypeOK
<1>1. ServerIsKnown /\ SuccessIsServed
  BY DEF ManagerInv, KnownSound, CalmSound, ServerIsKnown, SuccessIsServed
<1>2. ASSUME calm PROVE Cardinality({s \in Servers : Ours(s)}) <= 1
  <2> DEFINE Alive == {s \in Servers : Ours(s)}
  <2>1. CASE Alive = {}
    BY <2>1, FS_EmptySet
  <2>2. CASE Alive # {}
    <3>1. PICK x : Alive = {x}
      BY <1>2, <2>2 DEF ManagerInv, CalmSound
    <3>2. QED
      BY <3>1, FS_Singleton
  <2>3. QED
    BY <2>1, <2>2
<1>3. QED
  BY <1>0, <1>1, <1>2 DEF ManagerInv, CalmSound, ServerHonest, StartsAgree

\* A server that serves is the one the state file names, unless a stop that had read an
\* older file removed its entry (clear_manager_state); and requests (start_manager) that no
\* stop, crash, start by hand or missed deadline disturbs agree on one server and succeed.
THEOREM ServersAreHonest == ManagerAssumption /\ Spec => []ServerHonest
<1>1. ManagerAssumption /\ Init => ManagerInv
  BY InitInv
<1>2. ManagerInv /\ [Next]_vars => ManagerInv'
  BY StepInv
<1>3. QED
  BY <1>1, <1>2, InvImplies, PTL DEF Spec
=============================================================================
