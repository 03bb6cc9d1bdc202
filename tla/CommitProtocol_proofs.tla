------------------------ MODULE CommitProtocol_proofs ------------------------
(***************************************************************************)
(* Proofs about CommitProtocol, for any devices, groups and bounds.        *)
(*                                                                         *)
(* LockSound says who holds the commit lock, and RepairSound what a Full   *)
(* Sync that holds it has seen.  OnceSound says which operations the       *)
(* shared intent, the index and the running processes still know of: an    *)
(* operation that was published and whose intent is still there has its    *)
(* receipt in the index, or a Full Sync that dropped the receipt is about  *)
(* to retire the intent.                                                   *)
(*                                                                         *)
(* The second part is about Calm behaviours, without faults and Full       *)
(* Syncs: what devices that only sync can do to each other's saves.  A     *)
(* version that a device made and has not shared yet is its own            *)
(* (OwnSound).  Every version is one device's own or part of the payload   *)
(* (Held), and a transaction only replaces in the payload what its device  *)
(* built on (PayloadSound, LocalSound).  The one thing that goes wrong     *)
(* without a fault is a save written into a download half done, whose      *)
(* journal recovery cannot resolve (StrandedSound).                        *)
(***************************************************************************)
EXTENDS CommitProtocol, TLAPS

-----------------------------------------------------------------------------
(* The inductive invariant.                                                *)

\* Where an operation may still be published, and where its intent is its own.
BeforePublication == {"scanned", "locked", "begun", "promoting", "verified"}
Active == BeforePublication \cup {"published", "recorded"}
Journalled == {"promoting", "verified", "published", "recorded"}

\* The groups an operation uploads.
Uploading(d) == IF pc[d] = "begun" THEN Up(d) ELSE tx[d].up

\* Only the holder of the commit lock uploads, or runs a Full Sync.
LockOf(d) ==
    /\ full[d] => lock = d /\ fulls > 0
    /\ pc[d] \in {"rebuild", "rescanned", "rebuilt"} => full[d]
    /\ At(d, "locked") => lock = d /\ Up(d) # {}
    /\ pc[d] \in {"begun"} \cup Journalled /\ Uploading(d) # {} => lock = d
LockSound == \A d \in Device : LockOf(d)

\* What a Full Sync scanned is still there when it rebuilds the index.
RepairOf(d) == ~meddled =>
    /\ pc[d] \in {"rescanned", "rebuilt"} => plan[d].remote = payload
    /\ At(d, "rebuilt") => \A g \in Group : head[g].ver = payload[g]
RepairSound == \A d \in Device : RepairOf(d)

\* The ids of operations that are under way are their own.
IdsSound ==
    /\ \A d \in Device :
        /\ pc[d] \in Active => plan[d].op \in 1..ops
        /\ pc[d] \in Journalled => tx[d].op = plan[d].op
    /\ \A d, e \in Device : d # e /\ pc[d] \in Active /\ pc[e] \in Active =>
         plan[d].op # plan[e].op

\* The intent is one that was left, or that of the one device that uploads.
IntentSound ==
    /\ intent # NoIntent => intent.op \in 1..ops /\ intent.groups # {}
    /\ \A d \in Device :
        /\ pc[d] \in Active /\ intent # NoIntent /\ intent.op = plan[d].op =>
             /\ pc[d] \notin {"scanned", "locked"}
             /\ Uploading(d) # {} /\ intent.full = full[d]
        /\ pc[d] \in {"begun", "promoting", "verified"} /\ Uploading(d) # {} =>
             intent = NoIntent \/ intent.op = plan[d].op

\* The intent was published and is not yet retired.
Unretired == intent # NoIntent /\ pubs[intent.op] # 0

\* An operation is published once; while its intent stays, the index keeps its
\* receipt, or a Full Sync is about to retire the intent.
OnceSound ==
    fulls = 0 \/ faults <= 1 =>
        /\ PublishedOnce
        /\ \A o \in 1..MaxOps : o > ops => pubs[o] = 0
        /\ \A d \in Device : pc[d] \in BeforePublication => pubs[plan[d].op] = 0
        /\ Unretired =>
             /\ ~intent.full
             /\ intent.op \in Receipts \/ \E d \in Device : lock = d /\ At(d, "rebuilt")
             /\ \/ faults >= 1
                \/ \E d \in Device :
                     /\ lock = d
                     /\ \/ At(d, "locked")
                        \/ /\ pc[d] \in {"published", "recorded"}
                           /\ tx[d].op = intent.op

IInv == TypeOK /\ LockSound /\ RepairSound /\ IdsSound /\ IntentSound /\ OnceSound

LEMMA Bounds == /\ MaxEdits \in Nat /\ MaxOps \in Nat /\ MaxFulls \in Nat /\ MaxFaults \in Nat
                /\ Nobody \notin Device /\ NoIntent \notin Intents /\ NoTx \notin Txs
BY NobodyAssumption, BoundsAssumption, AbsentAssumption

USE Bounds

LEMMA InitInv == Init => IInv
<1> SUFFICES ASSUME Init PROVE IInv
  OBVIOUS
<1> USE DEF Init
<1>1. TypeOK
  <2>1. Origin \in Manifest /\ NoPlan \in [op : Op, local : Manifest, remote : Manifest]
    BY DEF Origin, Manifest, Version, NoPlan, Op
  <2>2. head \in [Group -> [gen : Nat, ver : Version, op : Op]]
    BY DEF Version, Op
  <2>3. receipt \in [Device -> Op] /\ ops \in 0..MaxOps /\ fulls \in 0..MaxFulls
        /\ edits \in 0..MaxEdits /\ faults \in 0..MaxFaults
    BY DEF Op
  <2>4. pc \in [Device -> Step] /\ cause \in [Device -> Cause]
        /\ \A d \in Device : pc[d] \notin InTransaction
    BY DEF Step, Cause, InTransaction
  <2>5. QED
    BY <2>1, <2>2, <2>3, <2>4 DEF TypeOK
<1>2. LockSound /\ RepairSound /\ IdsSound /\ IntentSound
  BY DEF LockSound, LockOf, RepairSound, RepairOf, IdsSound, IntentSound, At, Active,
         Journalled, BeforePublication
<1>3. OnceSound
  BY DEF OnceSound, PublishedOnce, Unretired, BeforePublication
<1>4. QED
  BY <1>1, <1>2, <1>3 DEF IInv

-----------------------------------------------------------------------------
(* Type correctness.                                                       *)

(* An operation that ends.                                                 *)
LEMMA LeaveType ==
    ASSUME TypeOK, NEW d \in Device, Leave(d)
    PROVE  /\ lock' \in Device \cup {Nobody} /\ pc' \in [Device -> Step]
           /\ full' \in [Device -> BOOLEAN] /\ cause' \in [Device -> Cause]
           /\ plan' \in [Device -> [op : Op, local : Manifest, remote : Manifest]]
           /\ todo' \in [Device -> SUBSET Group]
           /\ pc'[d] = "idle" /\ pc'[d] \notin InTransaction
           /\ \A e \in Device : e # d => pc'[e] = pc[e]
<1>1. NoPlan \in [op : Op, local : Manifest, remote : Manifest]
  BY DEF NoPlan, Origin, Manifest, Version, Op
<1>2. plan' \in [Device -> [op : Op, local : Manifest, remote : Manifest]]
  BY <1>1 DEF TypeOK, Leave
<1>3. pc' = [pc EXCEPT ![d] = "idle"] /\ pc \in [Device -> Step] /\ "idle" \in Step
  BY DEF Leave, Go, TypeOK, Step
<1>4. pc'[d] = "idle" /\ "idle" \notin InTransaction
  BY <1>3 DEF InTransaction
<1>5. /\ lock' \in Device \cup {Nobody} /\ full' \in [Device -> BOOLEAN]
      /\ todo' \in [Device -> SUBSET Group]
  BY DEF TypeOK, Leave
<1>6. cause' \in [Device -> Cause]
  BY DEF TypeOK, Leave, Cause
<1>7. QED
  BY <1>2, <1>3, <1>4, <1>5, <1>6

(* What an operation moves is part of the groups.                          *)
LEMMA PlanType ==
    ASSUME TypeOK, NEW d \in Device
    PROVE  /\ plan[d].op \in Op /\ plan[d].local \in Manifest /\ plan[d].remote \in Manifest
           /\ Up(d) \subseteq Group /\ Down(d) \subseteq Group
           /\ tx[d] # NoTx => /\ tx[d] \in Txs /\ tx[d].op \in Op
                              /\ tx[d].local \in Manifest /\ tx[d].remote \in Manifest
                              /\ tx[d].up \subseteq Group /\ tx[d].down \subseteq Group
           /\ intent # NoIntent => /\ intent \in Intents /\ intent.op \in Op
                                   /\ intent.groups \subseteq Group
                                   /\ intent.desired \in Manifest /\ intent.full \in BOOLEAN
<1>1. plan[d] \in [op : Op, local : Manifest, remote : Manifest]
  BY DEF TypeOK
<1>2. tx[d] # NoTx => tx[d] \in Txs
  BY DEF TypeOK
<1>3. intent # NoIntent => intent \in Intents
  BY DEF TypeOK
<1>4. QED
  BY <1>1, <1>2, <1>3 DEF Txs, Intents, Up, Down, Uploads, Downloads

(* The index after a publication.                                          *)
LEMMA PublishType ==
    ASSUME TypeOK, NEW groups \in SUBSET Group, NEW manifest \in Manifest, NEW op \in Op,
           PublishGroups(groups, manifest, op)
    PROVE  /\ head' \in [Group -> [gen : Nat, ver : Version, op : Op]]
           /\ pubs' \in [1..MaxOps -> Nat]
<1>1. \A g \in Group : head[g].gen \in Nat /\ manifest[g] \in Version
  BY DEF TypeOK, Manifest
<1>2. \A g \in Group : head[g] \in [gen : Nat, ver : Version, op : Op]
  BY DEF TypeOK
<1>3. \A g \in Group : [gen |-> head[g].gen + 1, ver |-> manifest[g], op |-> op]
                          \in [gen : Nat, ver : Version, op : Op]
  BY <1>1
<1>4. head' \in [Group -> [gen : Nat, ver : Version, op : Op]]
  BY <1>2, <1>3 DEF PublishGroups
<1>5. pubs' \in [1..MaxOps -> Nat]
  <2>1. pubs \in [1..MaxOps -> Nat]
    BY DEF TypeOK
  <2>2. op \in 1..MaxOps => pubs[op] + 1 \in Nat
    BY <2>1
  <2>3. QED
    BY <2>1, <2>2 DEF PublishGroups
<1>6. QED
  BY <1>4, <1>5

(* A version is one, whichever side it comes from.                         *)
LEMMA ReconciledType ==
    ASSUME NEW b \in Manifest, NEW l \in Manifest, NEW r \in Manifest
    PROVE  Reconciled(b, l, r) \in Manifest
BY DEF Reconciled, Manifest

LEMMA BeginningType ==
    ASSUME TypeOK, NEW d \in Device, Beginning(d)
    PROVE  TypeOK'
<1> USE DEF remoteVars, deviceVars, ghosts, bounds, procVars, Go, At
<1>s. /\ {"idle", "scanned", "locked", "begun", "rebuild"} \subseteq Step
      /\ \A s \in {"idle", "scanned", "locked", "begun", "rebuild"} : s \notin InTransaction
  BY DEF Step, InTransaction
<1>p. pc \in [Device -> Step] /\ \A e \in Device : pc[e] \in InTransaction => tx[e] # NoTx
  BY DEF TypeOK
<1>1. CASE Scan(d)
  <2>1. ops' \in Op /\ ops' \in 0..MaxOps
    BY <1>1 DEF Scan, Op, TypeOK
  <2>2. plan' \in [Device -> [op : Op, local : Manifest, remote : Manifest]]
    BY <1>1, <2>1 DEF Scan, TypeOK
  <2>3. pc' \in [Device -> Step] /\ \A e \in Device : pc'[e] \in InTransaction => tx'[e] # NoTx
    BY <1>1, <1>s, <1>p DEF Scan
  <2>4. QED
    BY <1>1, <2>1, <2>2, <2>3 DEF Scan, TypeOK
<1>2. CASE NothingToMove(d)
  <2>1. base' \in [Device -> Manifest] /\ receipt' \in [Device -> Op]
    BY <1>2, ReconciledType DEF NothingToMove, TypeOK, Op
  <2>2. pc' \in [Device -> Step] /\ \A e \in Device : pc'[e] \in InTransaction => tx'[e] # NoTx
    BY <1>2, <1>s, <1>p DEF NothingToMove
  <2>3. QED
    BY <1>2, <2>1, <2>2 DEF NothingToMove, TypeOK
<1>3. CASE SkipLock(d) \/ TakeLock(d)
  <2>1. pc' \in [Device -> Step] /\ \A e \in Device : pc'[e] \in InTransaction => tx'[e] # NoTx
    BY <1>3, <1>s, <1>p DEF SkipLock, TakeLock
  <2>2. QED
    BY <1>3, <2>1 DEF SkipLock, TakeLock, TypeOK
<1>4. CASE PublishForward(d)
  <2>1. /\ head' \in [Group -> [gen : Nat, ver : Version, op : Op]]
        /\ pubs' \in [1..MaxOps -> Nat]
    BY <1>4, PlanType, PublishType DEF PublishForward
  <2>2. QED
    BY <1>4, <2>1 DEF PublishForward, TypeOK
<1>5. CASE RetireIntent(d)
  BY <1>5 DEF RetireIntent, TypeOK
<1>6. CASE PreserveIntent(d) \/ RefuseIntent(d)
  <2>1. Leave(d) /\ intent' \in {intent, NoIntent}
        /\ UNCHANGED <<payload, head, deviceVars, ghosts, bounds>>
    BY <1>6 DEF PreserveIntent, RefuseIntent
  <2>2. \A e \in Device : pc'[e] \in InTransaction => tx'[e] # NoTx
    BY <1>p, <2>1, LeaveType
  <2>3. QED
    BY <2>1, <2>2, LeaveType DEF TypeOK
<1>7. CASE CheckIndex(d)
  <2>1. CASE Leave(d) /\ UNCHANGED intent
    <3>1. \A e \in Device : pc'[e] \in InTransaction => tx'[e] # NoTx
      BY <1>7, <1>p, <2>1, LeaveType DEF CheckIndex
    <3>2. QED
      BY <1>7, <2>1, <3>1, LeaveType DEF CheckIndex, TypeOK
  <2>2. CASE ~(Leave(d) /\ UNCHANGED intent)
    <3>1. /\ intent' = [op |-> plan[d].op, groups |-> Up(d), before |-> plan[d].remote,
                        desired |-> plan[d].local, full |-> full[d]]
          /\ pc' = [pc EXCEPT ![d] = "begun"] /\ UNCHANGED <<lock, full, plan, todo, cause>>
      BY <1>7, <2>2 DEF CheckIndex
    <3>2. full[d] \in BOOLEAN
      BY DEF TypeOK
    <3>3. intent' \in Intents
      BY <3>1, <3>2, PlanType DEF Intents
    <3>4. pc' \in [Device -> Step] /\ \A e \in Device : pc'[e] \in InTransaction => tx'[e] # NoTx
      BY <1>7, <1>s, <1>p, <3>1 DEF CheckIndex
    <3>5. QED
      BY <1>7, <3>1, <3>3, <3>4 DEF CheckIndex, TypeOK
  <2>3. QED
    BY <2>1, <2>2
<1>8. QED
  BY <1>1, <1>2, <1>3, <1>4, <1>5, <1>6, <1>7 DEF Beginning

LEMMA ApplyingType ==
    ASSUME TypeOK, NEW d \in Device, Applying(d)
    PROVE  TypeOK'
<1> USE DEF remoteVars, deviceVars, ghosts, bounds, procVars, Go, At
<1>s. /\ {"promoting", "verified", "rollback"} \subseteq Step /\ "abort" \in Cause
      /\ \A s \in {"promoting", "verified", "rollback"} : s \in InTransaction
  BY DEF Step, Cause, InTransaction
<1>p. pc \in [Device -> Step] /\ \A e \in Device : pc[e] \in InTransaction => tx[e] # NoTx
  BY DEF TypeOK
<1>t. tx \in [Device -> Txs \cup {NoTx}]
  BY DEF TypeOK
<1>a. ASSUME Abort(d)
      PROVE  pc' \in [Device -> Step] /\ cause' \in [Device -> Cause]
             /\ \A e \in Device : e # d => pc'[e] = pc[e]
  BY <1>a, <1>p, <1>s DEF Abort, TypeOK
<1>1. CASE Prepare(d)
  <2>1. [op |-> plan[d].op, phase |-> "applying", up |-> Up(d), down |-> Down(d),
         local |-> plan[d].local, remote |-> plan[d].remote] \in Txs
    BY PlanType DEF Txs
  <2>2. tx' \in [Device -> Txs \cup {NoTx}] /\ tx'[d] # NoTx
        /\ \A e \in Device : e # d => tx'[e] = tx[e]
    BY <1>1, <1>t, <2>1 DEF Prepare
  <2>3. pc' \in [Device -> Step] /\ \A e \in Device : pc'[e] \in InTransaction => tx'[e] # NoTx
    BY <1>1, <1>p, <1>s, <2>2 DEF Prepare
  <2>4. todo' \in [Device -> SUBSET Group]
    BY <1>1, PlanType DEF Prepare, TypeOK
  <2>5. QED
    BY <1>1, <2>2, <2>3, <2>4 DEF Prepare, TypeOK
<1>2. CASE StagingChanged(d)
  <2>1. Leave(d) /\ intent' \in {intent, NoIntent}
        /\ UNCHANGED <<payload, head, deviceVars, ghosts, bounds>>
    BY <1>2 DEF StagingChanged, Abandon
  <2>2. \A e \in Device : pc'[e] \in InTransaction => tx'[e] # NoTx
    BY <1>p, <2>1, LeaveType
  <2>3. QED
    BY <2>1, <2>2, LeaveType DEF TypeOK
<1>3. ASSUME NEW g \in Group, PromoteRemote(d, g) PROVE TypeOK'
  <2>1. tx[d] # NoTx
    BY <1>3, <1>p, <1>s DEF PromoteRemote
  <2>2. payload' \in Manifest
    <3>1. tx[d].local[g] \in Version /\ payload \in Manifest
      BY <2>1, PlanType DEF TypeOK, Manifest
    <3>2. payload' = payload \/ payload' = [payload EXCEPT ![g] = tx[d].local[g]]
      BY <1>3 DEF PromoteRemote
    <3>3. QED
      BY <3>1, <3>2 DEF Manifest
  <2>3. todo' \in [Device -> SUBSET Group]
    <3>1. todo' = todo \/ todo' = [todo EXCEPT ![d] = @ \ {g}]
      BY <1>3 DEF PromoteRemote
    <3>2. QED
      BY <3>1 DEF TypeOK
  <2>4. /\ pc' \in [Device -> Step] /\ cause' \in [Device -> Cause]
        /\ \A e \in Device : e # d => pc'[e] = pc[e]
    BY <1>3, <1>a, <1>p DEF PromoteRemote, TypeOK
  <2>5. \A e \in Device : pc'[e] \in InTransaction => tx'[e] # NoTx
    BY <1>3, <1>p, <2>1, <2>4 DEF PromoteRemote
  <2>6. QED
    BY <1>3, <2>2, <2>3, <2>4, <2>5 DEF PromoteRemote, TypeOK
<1>4. ASSUME NEW g \in Group, PromoteLocal(d, g) PROVE TypeOK'
  <2>1. tx[d] # NoTx
    BY <1>4, <1>p, <1>s DEF PromoteLocal
  <2>2. local' \in [Device -> Manifest]
    <3>1. tx[d].remote[g] \in Version /\ local \in [Device -> Manifest]
      BY <2>1, PlanType DEF TypeOK, Manifest
    <3>2. local' = local \/ local' = [local EXCEPT ![d][g] = tx[d].remote[g]]
      BY <1>4 DEF PromoteLocal
    <3>3. QED
      BY <3>1, <3>2 DEF Manifest
  <2>3. todo' \in [Device -> SUBSET Group]
    <3>1. todo' = todo \/ todo' = [todo EXCEPT ![d] = @ \ {g}]
      BY <1>4 DEF PromoteLocal
    <3>2. QED
      BY <3>1 DEF TypeOK
  <2>4. /\ pc' \in [Device -> Step] /\ cause' \in [Device -> Cause]
        /\ \A e \in Device : e # d => pc'[e] = pc[e]
    BY <1>4, <1>a, <1>p DEF PromoteLocal, TypeOK
  <2>5. \A e \in Device : pc'[e] \in InTransaction => tx'[e] # NoTx
    BY <1>4, <1>p, <2>1, <2>4 DEF PromoteLocal
  <2>6. QED
    BY <1>4, <2>2, <2>3, <2>4, <2>5 DEF PromoteLocal, TypeOK
<1>5. CASE FinalVerify(d)
  <2>1. tx[d] # NoTx
    BY <1>5, <1>p, <1>s DEF FinalVerify
  <2>2. tx[d] \in Txs /\ [tx[d] EXCEPT !.phase = "promoted"] \in Txs
    BY <2>1, PlanType DEF Txs
  <2>3. tx' = [tx EXCEPT ![d] = [tx[d] EXCEPT !.phase = "promoted"]]
    BY <1>5, <1>t DEF FinalVerify
  <2>4. tx' \in [Device -> Txs \cup {NoTx}] /\ tx'[d] # NoTx
        /\ \A e \in Device : e # d => tx'[e] = tx[e]
    BY <1>t, <2>2, <2>3
  <2>5. /\ pc' \in [Device -> Step] /\ cause' \in [Device -> Cause]
        /\ \A e \in Device : e # d => pc'[e] = pc[e]
    BY <1>5, <1>a, <1>p, <1>s DEF FinalVerify, TypeOK
  <2>6. \A e \in Device : pc'[e] \in InTransaction => tx'[e] # NoTx
    BY <1>p, <2>4, <2>5
  <2>7. QED
    BY <1>5, <2>4, <2>5, <2>6 DEF FinalVerify, TypeOK
<1>6. QED
  BY <1>1, <1>2, <1>3, <1>4, <1>5 DEF Applying

LEMMA EndingType ==
    ASSUME TypeOK, NEW d \in Device, Ending(d)
    PROVE  TypeOK'
<1> USE DEF remoteVars, deviceVars, ghosts, bounds, procVars, Go, At
<1>s. /\ {"verified", "published", "recorded", "closed"} \subseteq Step \cap InTransaction
      /\ {"rebuild", "rescanned", "rebuilt"} \subseteq Step \ InTransaction
  BY DEF Step, InTransaction
<1>p. pc \in [Device -> Step] /\ \A e \in Device : pc[e] \in InTransaction => tx[e] # NoTx
  BY DEF TypeOK
<1>t. tx \in [Device -> Txs \cup {NoTx}]
  BY DEF TypeOK
<1>1. CASE Publish(d)
  <2>1. tx[d] # NoTx
    BY <1>1, <1>p, <1>s DEF Publish
  <2>2. /\ head' \in [Group -> [gen : Nat, ver : Version, op : Op]]
        /\ pubs' \in [1..MaxOps -> Nat]
    BY <1>1, <2>1, PlanType, PublishType DEF Publish, TypeOK
  <2>3. pc' \in [Device -> Step] /\ \A e \in Device : pc'[e] \in InTransaction => tx'[e] # NoTx
    BY <1>1, <1>p, <1>s, <2>1 DEF Publish
  <2>4. QED
    BY <1>1, <2>2, <2>3 DEF Publish, TypeOK
<1>2. CASE WriteState(d)
  <2>1. tx[d] # NoTx
    BY <1>2, <1>p, <1>s DEF WriteState
  <2>2. Reconciled(base[d], tx[d].local, tx[d].remote) \in Manifest /\ tx[d].op \in Op
    BY <2>1, PlanType, ReconciledType DEF TypeOK
  <2>3. base' \in [Device -> Manifest] /\ receipt' \in [Device -> Op]
    BY <1>2, <2>2 DEF WriteState, TypeOK
  <2>4. pc' \in [Device -> Step] /\ \A e \in Device : pc'[e] \in InTransaction => tx'[e] # NoTx
    BY <1>2, <1>p, <1>s, <2>1 DEF WriteState
  <2>5. QED
    BY <1>2, <2>3, <2>4 DEF WriteState, TypeOK
<1>3. CASE Close(d)
  <2>1. tx[d] # NoTx /\ intent' \in {intent, NoIntent}
    BY <1>3, <1>p, <1>s DEF Close
  <2>2. pc' \in [Device -> Step] /\ \A e \in Device : pc'[e] \in InTransaction => tx'[e] # NoTx
    BY <1>3, <1>p, <1>s, <2>1 DEF Close
  <2>3. QED
    BY <1>3, <2>1, <2>2 DEF Close, TypeOK
<1>4. CASE FinalizeTx(d)
  <2>1. tx' \in [Device -> Txs \cup {NoTx}] /\ \A e \in Device : e # d => tx'[e] = tx[e]
    BY <1>4, <1>t DEF FinalizeTx
  <2>2. CASE Leave(d)
    <3>1. \A e \in Device : pc'[e] \in InTransaction => tx'[e] # NoTx
      BY <1>p, <2>1, <2>2, LeaveType
    <3>2. QED
      BY <1>4, <2>1, <2>2, <3>1, LeaveType DEF FinalizeTx, TypeOK
  <2>3. CASE ~Leave(d)
    <3>1. pc' \in [Device -> Step] /\ \A e \in Device : pc'[e] \in InTransaction => tx'[e] # NoTx
      BY <1>4, <1>p, <1>s, <2>1, <2>3 DEF FinalizeTx
    <3>2. QED
      BY <1>4, <2>1, <2>3, <3>1 DEF FinalizeTx, TypeOK
  <2>4. QED
    BY <2>2, <2>3
<1>5. CASE Rescan(d)
  <2>1. plan' \in [Device -> [op : Op, local : Manifest, remote : Manifest]]
    BY <1>5 DEF Rescan, TypeOK
  <2>2. pc' \in [Device -> Step] /\ \A e \in Device : pc'[e] \in InTransaction => tx'[e] # NoTx
    BY <1>5, <1>p, <1>s DEF Rescan
  <2>3. QED
    BY <1>5, <2>1, <2>2 DEF Rescan, TypeOK
<1>6. CASE Rebuild(d)
  <2>1. \A g \in Group :
          /\ plan[d].remote[g] \in Version /\ head[g].gen \in Nat /\ 0 \in Op
    BY PlanType DEF TypeOK, Manifest, Op
  <2>2. head' \in [Group -> [gen : Nat, ver : Version, op : Op]]
    BY <1>6, <2>1 DEF Rebuild
  <2>3. pc' \in [Device -> Step] /\ \A e \in Device : pc'[e] \in InTransaction => tx'[e] # NoTx
    BY <1>6, <1>p, <1>s DEF Rebuild
  <2>4. QED
    BY <1>6, <2>2, <2>3 DEF Rebuild, TypeOK
<1>7. CASE FullEnd(d)
  <2>1. \A e \in Device : pc'[e] \in InTransaction => tx'[e] # NoTx
    BY <1>7, <1>p, LeaveType DEF FullEnd
  <2>2. QED
    BY <1>7, <2>1, LeaveType DEF FullEnd, TypeOK
<1>8. QED
  BY <1>1, <1>2, <1>3, <1>4, <1>5, <1>6, <1>7 DEF Ending

LEMMA UndoingType ==
    ASSUME TypeOK, NEW d \in Device, Undoing(d)
    PROVE  TypeOK'
<1> USE DEF remoteVars, deviceVars, ghosts, bounds, procVars, Go, At
<1>s. /\ {"rollback", "restoring"} \subseteq Step \cap InTransaction
      /\ "idle" \in Step /\ "idle" \notin InTransaction
      /\ {"none", "recover"} \subseteq Cause
  BY DEF Step, InTransaction, Cause
<1>p. pc \in [Device -> Step] /\ \A e \in Device : pc[e] \in InTransaction => tx[e] # NoTx
  BY DEF TypeOK
<1>t. tx \in [Device -> Txs \cup {NoTx}] /\ cause \in [Device -> Cause]
  BY DEF TypeOK
<1>1. CASE Recover(d)
  <2>1. /\ tx' \in [Device -> Txs \cup {NoTx}] /\ cause' \in [Device -> Cause]
        /\ \A e \in Device : e # d => tx'[e] = tx[e]
    BY <1>1, <1>t, <1>s DEF Recover
  <2>2. \/ pc' = pc
        \/ pc' = [pc EXCEPT ![d] = "rollback"] /\ tx' = tx /\ tx[d] # NoTx
    BY <1>1 DEF Recover
  <2>3. pc[d] = "idle"
    BY <1>1 DEF Recover
  <2>4. pc' \in [Device -> Step] /\ \A e \in Device : pc'[e] \in InTransaction => tx'[e] # NoTx
    BY <1>p, <1>s, <2>1, <2>2, <2>3
  <2>5. QED
    BY <1>1, <2>1, <2>4 DEF Recover, TypeOK
<1>2. CASE Withdraw(d)
  <2>1. /\ tx' \in [Device -> Txs \cup {NoTx}] /\ \A e \in Device : e # d => tx'[e] = tx[e]
        /\ intent' \in {intent, NoIntent} /\ Leave(d)
    BY <1>2, <1>t DEF Withdraw, Abandon
  <2>2. \A e \in Device : pc'[e] \in InTransaction => tx'[e] # NoTx
    BY <1>p, <2>1, LeaveType
  <2>3. QED
    BY <1>2, <2>1, <2>2, LeaveType DEF Withdraw, TypeOK
<1>3. CASE PlanRollback(d)
  <2>0. tx[d] # NoTx
    BY <1>3, <1>p, <1>s DEF PlanRollback
  <2>1. CASE Leave(d)
    <3>1. \A e \in Device : pc'[e] \in InTransaction => tx'[e] # NoTx
      BY <1>3, <1>p, <2>1, LeaveType DEF PlanRollback
    <3>2. QED
      BY <1>3, <2>1, <3>1, LeaveType DEF PlanRollback, TypeOK
  <2>2. CASE ~Leave(d)
    <3>1. /\ todo' = [todo EXCEPT ![d] =
                        {g \in tx[d].up : payload[g] # tx[d].remote[g]}
                        \cup {g \in tx[d].down : local[d][g] # tx[d].local[g]}]
          /\ pc' = [pc EXCEPT ![d] = "restoring"] /\ UNCHANGED <<lock, full, plan, cause>>
      BY <1>3, <2>2 DEF PlanRollback
    <3>2. todo' \in [Device -> SUBSET Group]
      BY <2>0, <3>1, PlanType DEF TypeOK
    <3>3. pc' \in [Device -> Step] /\ \A e \in Device : pc'[e] \in InTransaction => tx'[e] # NoTx
      BY <1>3, <1>p, <1>s, <2>0, <3>1 DEF PlanRollback
    <3>4. QED
      BY <1>3, <3>1, <3>2, <3>3 DEF PlanRollback, TypeOK
  <2>3. QED
    BY <2>1, <2>2
<1>4. CASE Restored(d)
  <2>1. /\ tx' \in [Device -> Txs \cup {NoTx}] /\ \A e \in Device : e # d => tx'[e] = tx[e]
        /\ intent' \in {intent, NoIntent}
    BY <1>4, <1>t DEF Restored, Abandon
  <2>2. CASE Leave(d)
    <3>1. \A e \in Device : pc'[e] \in InTransaction => tx'[e] # NoTx
      BY <1>p, <2>1, <2>2, LeaveType
    <3>2. QED
      BY <1>4, <2>1, <2>2, <3>1, LeaveType DEF Restored, TypeOK
  <2>3. CASE ~Leave(d)
    <3>1. /\ pc' = [pc EXCEPT ![d] = "idle"] /\ cause' = [cause EXCEPT ![d] = "none"]
          /\ UNCHANGED <<lock, full, plan, todo>>
      BY <1>4, <2>3 DEF Restored
    <3>2. pc' \in [Device -> Step] /\ \A e \in Device : pc'[e] \in InTransaction => tx'[e] # NoTx
      BY <1>p, <1>s, <2>1, <3>1
    <3>3. cause' \in [Device -> Cause]
      BY <1>t, <1>s, <3>1
    <3>4. QED
      BY <1>4, <2>1, <3>1, <3>2, <3>3 DEF Restored, TypeOK
  <2>4. QED
    BY <2>2, <2>3
<1>5. ASSUME NEW g \in Group, RestoreRemote(d, g) PROVE TypeOK'
  <2>1. tx[d] # NoTx
    BY <1>5, <1>p, <1>s DEF RestoreRemote
  <2>2. payload' \in Manifest
    <3>1. tx[d].remote[g] \in Version /\ payload \in Manifest
      BY <2>1, PlanType DEF TypeOK, Manifest
    <3>2. payload' = [payload EXCEPT ![g] = tx[d].remote[g]]
      BY <1>5 DEF RestoreRemote
    <3>3. QED
      BY <3>1, <3>2 DEF Manifest
  <2>3. todo' \in [Device -> SUBSET Group] /\ meddled' \in BOOLEAN
    BY <1>5 DEF RestoreRemote, TypeOK
  <2>4. QED
    BY <1>5, <2>2, <2>3 DEF RestoreRemote, TypeOK
<1>6. ASSUME NEW g \in Group, RestoreLocal(d, g) PROVE TypeOK'
  <2>1. tx[d] # NoTx
    BY <1>6, <1>p, <1>s DEF RestoreLocal
  <2>2. local' \in [Device -> Manifest]
    <3>1. tx[d].local[g] \in Version /\ local \in [Device -> Manifest]
      BY <2>1, PlanType DEF TypeOK, Manifest
    <3>2. local' = [local EXCEPT ![d][g] = tx[d].local[g]]
      BY <1>6 DEF RestoreLocal
    <3>3. QED
      BY <3>1, <3>2 DEF Manifest
  <2>3. todo' \in [Device -> SUBSET Group]
    BY <1>6 DEF RestoreLocal, TypeOK
  <2>4. QED
    BY <1>6, <2>2, <2>3 DEF RestoreLocal, TypeOK
<1>7. QED
  BY <1>1, <1>2, <1>3, <1>4, <1>5, <1>6 DEF Undoing

LEMMA OtherType ==
    ASSUME TypeOK, NEW d \in Device,
           FullStart(d) \/ Crash(d) \/ Fail(d) \/ \E g \in Group : Edit(d, g)
    PROVE  TypeOK'
<1> USE DEF remoteVars, deviceVars, ghosts, bounds, procVars, Go, At
<1>p. pc \in [Device -> Step] /\ \A e \in Device : pc[e] \in InTransaction => tx[e] # NoTx
  BY DEF TypeOK
<1>1. CASE FullStart(d)
  <2>1. fulls' \in 0..MaxFulls
    BY <1>1 DEF FullStart, TypeOK
  <2>2. lock' \in Device \cup {Nobody} /\ full' \in [Device -> BOOLEAN] /\ meddled' \in BOOLEAN
    BY <1>1 DEF FullStart, TypeOK
  <2>3. QED
    BY <1>1, <2>1, <2>2 DEF FullStart, TypeOK
<1>f. ASSUME faults < MaxFaults, faults' = faults + 1 PROVE faults' \in 0..MaxFaults
  BY <1>f DEF TypeOK
<1>2. CASE Crash(d)
  <2>1. \A e \in Device : pc'[e] \in InTransaction => tx'[e] # NoTx
    BY <1>2, <1>p, LeaveType DEF Crash
  <2>2. faults' \in 0..MaxFaults
    BY <1>2, <1>f DEF Crash
  <2>3. QED
    BY <1>2, <2>1, <2>2, LeaveType DEF Crash, TypeOK
<1>3. CASE Fail(d)
  <2>1. faults' \in 0..MaxFaults
    BY <1>3, <1>f DEF Fail
  <2>2. CASE Leave(d)
    <3>1. intent' \in {intent, NoIntent}
      BY <1>3 DEF Fail, Abandon
    <3>2. \A e \in Device : pc'[e] \in InTransaction => tx'[e] # NoTx
      BY <1>3, <1>p, <2>2, LeaveType DEF Fail
    <3>3. QED
      BY <1>3, <2>1, <2>2, <3>1, <3>2, LeaveType DEF Fail, TypeOK
  <2>3. CASE ~Leave(d)
    <3>1. /\ pc' = [pc EXCEPT ![d] = "rollback"] /\ pc[d] \in InTransaction
          /\ cause' \in {[cause EXCEPT ![d] = "abort"], [cause EXCEPT ![d] = "late"]}
          /\ UNCHANGED <<intent, lock, full, plan, todo, tx>>
      BY <1>3, <2>3 DEF Fail, Abort, InTransaction
    <3>2. pc' \in [Device -> Step] /\ \A e \in Device : pc'[e] \in InTransaction => tx'[e] # NoTx
      BY <1>p, <3>1 DEF Step
    <3>3. cause' \in [Device -> Cause]
      BY <3>1 DEF TypeOK, Cause
    <3>4. QED
      BY <1>3, <2>1, <3>1, <3>2, <3>3 DEF Fail, TypeOK
  <2>4. QED
    BY <2>2, <2>3
<1>4. ASSUME NEW g \in Group, Edit(d, g) PROVE TypeOK'
  <2>1. edits' \in 0..MaxEdits /\ edits' \in Version
    BY <1>4 DEF Edit, TypeOK, Version
  <2>2. local' \in [Device -> Manifest]
    <3>1. local \in [Device -> Manifest]
      BY DEF TypeOK
    <3>2. local' = [local EXCEPT ![d][g] = edits']
      BY <1>4 DEF Edit
    <3>3. QED
      BY <2>1, <3>1, <3>2 DEF Manifest
  <2>3. past' \in [Version -> SUBSET Version]
    <3>1. past \in [Version -> SUBSET Version] /\ local[d][g] \in Version
      BY DEF TypeOK, Manifest
    <3>2. past' = [past EXCEPT ![edits'] = past[local[d][g]] \cup {local[d][g]}]
      BY <1>4 DEF Edit
    <3>3. QED
      BY <3>1, <3>2
  <2>4. raced' \subseteq Version
    BY <1>4, <2>1 DEF Edit, TypeOK
  <2>5. QED
    BY <1>4, <2>1, <2>2, <2>3, <2>4 DEF Edit, TypeOK
<1>5. QED
  BY <1>1, <1>2, <1>3, <1>4

LEMMA TypeStep == TypeOK /\ [Next]_vars => TypeOK'
<1> SUFFICES ASSUME TypeOK, [Next]_vars PROVE TypeOK'
  OBVIOUS
<1>1. CASE UNCHANGED vars
  BY <1>1 DEF TypeOK, vars, remoteVars, deviceVars, procVars, ghosts, bounds
<1>2. QED
  BY <1>1, BeginningType, ApplyingType, EndingType, UndoingType, OtherType DEF Next, Working

-----------------------------------------------------------------------------
(* What a step of a device leaves to the others.                           *)

StepOf(d) == Working(d) \/ FullStart(d) \/ Crash(d) \/ Fail(d) \/ \E g \in Group : Edit(d, g)

SameFor(e) == /\ pc'[e] = pc[e] /\ full'[e] = full[e] /\ plan'[e] = plan[e]
              /\ todo'[e] = todo[e] /\ cause'[e] = cause[e] /\ tx'[e] = tx[e]
              /\ base'[e] = base[e] /\ receipt'[e] = receipt[e]

LEMMA Others ==
    ASSUME TypeOK, NEW d \in Device, NEW e \in Device, e # d, StepOf(d)
    PROVE  SameFor(e)
<1> USE DEF SameFor, remoteVars, deviceVars, ghosts, bounds, procVars, Go, Abort
<1>t. /\ DOMAIN pc = Device /\ DOMAIN full = Device /\ DOMAIN plan = Device
      /\ DOMAIN todo = Device /\ DOMAIN cause = Device /\ DOMAIN tx = Device
      /\ DOMAIN base = Device /\ DOMAIN receipt = Device /\ DOMAIN local = Device
  BY DEF TypeOK
<1>1. CASE Beginning(d)
  BY <1>1, <1>t DEF Beginning, Scan, NothingToMove, SkipLock, TakeLock, PublishForward,
     RetireIntent, PreserveIntent, RefuseIntent, CheckIndex, Leave
<1>2. CASE Applying(d)
  BY <1>2, <1>t DEF Applying, Prepare, StagingChanged, FinalVerify, PromoteRemote,
     PromoteLocal, Leave
<1>3. CASE Ending(d)
  BY <1>3, <1>t DEF Ending, Publish, WriteState, Close, FinalizeTx, Rescan, Rebuild, FullEnd,
     Leave
<1>4. CASE Undoing(d)
  BY <1>4, <1>t DEF Undoing, Recover, Withdraw, PlanRollback, Restored, RestoreRemote,
     RestoreLocal, Leave
<1>5. CASE FullStart(d) \/ Crash(d) \/ Fail(d)
  BY <1>5, <1>t DEF FullStart, Crash, Fail, Leave
<1>6. CASE \E g \in Group : Edit(d, g)
  BY <1>6 DEF Edit
<1>7. QED
  BY <1>1, <1>2, <1>3, <1>4, <1>5, <1>6 DEF StepOf, Working

(* A lock that another device holds stays its own.                         *)
LEMMA OthersLock ==
    ASSUME TypeOK, NEW d \in Device, NEW e \in Device, e # d, StepOf(d), lock = e
    PROVE  lock' = e
<1> USE DEF remoteVars, deviceVars, ghosts, bounds, procVars
<1>1. lock # d /\ lock # Nobody
  OBVIOUS
<1>2. CASE Beginning(d)
  BY <1>1, <1>2 DEF Beginning, Scan, NothingToMove, SkipLock, TakeLock, PublishForward,
     RetireIntent, PreserveIntent, RefuseIntent, CheckIndex, Leave
<1>3. CASE Applying(d)
  BY <1>1, <1>3 DEF Applying, Prepare, StagingChanged, FinalVerify, PromoteRemote,
     PromoteLocal, Leave
<1>4. CASE Ending(d)
  BY <1>1, <1>4 DEF Ending, Publish, WriteState, Close, FinalizeTx, Rescan, Rebuild, FullEnd,
     Leave
<1>5. CASE Undoing(d)
  BY <1>1, <1>5 DEF Undoing, Recover, Withdraw, PlanRollback, Restored, RestoreRemote,
     RestoreLocal, Leave
<1>6. CASE FullStart(d) \/ Crash(d) \/ Fail(d) \/ \E g \in Group : Edit(d, g)
  BY <1>1, <1>6 DEF FullStart, Crash, Fail, Edit, Leave
<1>7. QED
  BY <1>2, <1>3, <1>4, <1>5, <1>6 DEF StepOf, Working

(* The counters only grow.                                                 *)
LEMMA CountersGrow ==
    ASSUME TypeOK, NEW d \in Device, StepOf(d)
    PROVE  /\ fulls \in Nat /\ fulls' \in Nat /\ fulls' >= fulls
           /\ faults \in Nat /\ faults' \in Nat /\ faults' >= faults
           /\ ops \in Nat /\ ops' \in Nat /\ ops' >= ops
<1> USE DEF remoteVars, deviceVars, ghosts, bounds, procVars
<1>t. fulls \in Nat /\ faults \in Nat /\ ops \in Nat
  BY DEF TypeOK
<1>1. CASE Scan(d)
  BY <1>1, <1>t DEF Scan
<1>2. CASE Beginning(d) /\ ~Scan(d)
  BY <1>2, <1>t DEF Beginning, NothingToMove, SkipLock, TakeLock, PublishForward,
     RetireIntent, PreserveIntent, RefuseIntent, CheckIndex
<1>3. CASE Applying(d)
  BY <1>3, <1>t DEF Applying, Prepare, StagingChanged, FinalVerify, PromoteRemote, PromoteLocal
<1>4. CASE Ending(d)
  BY <1>4, <1>t DEF Ending, Publish, WriteState, Close, FinalizeTx, Rescan, Rebuild, FullEnd
<1>5. CASE Undoing(d)
  BY <1>5, <1>t DEF Undoing, Recover, Withdraw, PlanRollback, Restored, RestoreRemote,
     RestoreLocal
<1>6. CASE FullStart(d) \/ Crash(d) \/ Fail(d) \/ \E g \in Group : Edit(d, g)
  BY <1>6, <1>t DEF FullStart, Crash, Fail, Edit
<1>7. QED
  BY <1>1, <1>2, <1>3, <1>4, <1>5, <1>6 DEF StepOf, Working

-----------------------------------------------------------------------------
(* The commit lock.                                                        *)

LEMMA LeaveLock ==
    ASSUME TypeOK, NEW d \in Device, Leave(d)
    PROVE  LockOf(d)'
<1>1. pc'[d] = "idle" /\ full'[d] = FALSE
  BY DEF Leave, Go, TypeOK
<1>2. QED
  BY <1>1 DEF LockOf, At, Journalled

LEMMA LockOwn ==
    ASSUME TypeOK, NEW d \in Device, LockOf(d), StepOf(d)
    PROVE  LockOf(d)'
<1> USE DEF remoteVars, deviceVars, ghosts, bounds, procVars, Go, At, Journalled
<1>t. /\ DOMAIN pc = Device /\ DOMAIN full = Device /\ DOMAIN plan = Device
      /\ DOMAIN cause = Device /\ DOMAIN tx = Device /\ DOMAIN base = Device
      /\ DOMAIN local = Device
  BY DEF TypeOK
<1>0. CASE Leave(d)
  BY <1>0, LeaveLock
<1>1. CASE Scan(d) \/ NothingToMove(d)
  BY <1>1, <1>t DEF Scan, NothingToMove, LockOf
<1>r. CASE PublishForward(d) \/ RetireIntent(d)
  <2>1. /\ UNCHANGED <<pc, full, plan, tx, base, lock, fulls>>
    BY <1>r DEF PublishForward, RetireIntent
  <2>2. QED
    BY <2>1 DEF LockOf, Uploading, Up
<1>2. CASE SkipLock(d)
  <2>1. Up(d)' = {} /\ pc'[d] = "begun" /\ full' = full /\ lock' = lock /\ fulls' = fulls
    BY <1>2, <1>t DEF SkipLock, Up
  <2>2. Uploading(d)' = {}
    BY <2>1 DEF Uploading
  <2>3. QED
    BY <2>1, <2>2 DEF LockOf
<1>3. CASE TakeLock(d)
  <2>1. Up(d)' # {}
    BY <1>3 DEF TakeLock, Up
  <2>2. QED
    BY <1>3, <1>t, <2>1 DEF TakeLock, LockOf
<1>4. CASE ~Leave(d) /\ (PreserveIntent(d) \/ RefuseIntent(d) \/ CheckIndex(d))
  BY <1>4, <1>t DEF PreserveIntent, RefuseIntent, CheckIndex, LockOf
<1>5. CASE Prepare(d)
  <2>1. Uploading(d)' = Uploading(d) /\ pc'[d] = "promoting" /\ pc[d] = "begun"
    BY <1>5, <1>t DEF Prepare, Uploading, Up
  <2>2. QED
    BY <1>5, <2>1 DEF Prepare, LockOf
<1>6. CASE \E g \in Group : PromoteRemote(d, g) \/ PromoteLocal(d, g)
  <2>1. pc'[d] \in {"promoting", "rollback"} /\ pc[d] = "promoting" /\ tx' = tx
        /\ full' = full /\ lock' = lock /\ fulls' = fulls
    BY <1>6, <1>t DEF PromoteRemote, PromoteLocal, Abort
  <2>2. QED
    BY <2>1 DEF LockOf, Uploading
<1>7. CASE FinalVerify(d)
  <2>1. /\ pc'[d] \in {"verified", "rollback"} /\ pc[d] = "promoting"
        /\ tx'[d].up = tx[d].up /\ full' = full /\ lock' = lock /\ fulls' = fulls
    BY <1>7, <1>t DEF FinalVerify, Abort
  <2>2. QED
    BY <2>1 DEF LockOf, Uploading
<1>8. CASE Publish(d) \/ WriteState(d) \/ Close(d) \/ Rescan(d) \/ Rebuild(d)
  BY <1>8, <1>t DEF Publish, WriteState, Close, Rescan, Rebuild, LockOf, Uploading
<1>9. CASE ~Leave(d) /\ FinalizeTx(d)
  BY <1>9, <1>t DEF FinalizeTx, LockOf
<1>10. CASE ~Leave(d) /\ (Recover(d) \/ PlanRollback(d) \/ Restored(d))
  BY <1>10, <1>t DEF Recover, PlanRollback, Restored, LockOf
<1>11. CASE \E g \in Group : RestoreRemote(d, g) \/ RestoreLocal(d, g)
  BY <1>11, <1>t DEF RestoreRemote, RestoreLocal, LockOf
<1>12. CASE FullStart(d)
  <2>1. fulls' > 0
    BY <1>12 DEF FullStart, TypeOK
  <2>2. QED
    BY <1>12, <1>t, <2>1 DEF FullStart, LockOf
<1>13. CASE ~Leave(d) /\ Fail(d)
  BY <1>13, <1>t DEF Fail, Abort, LockOf
<1>14. CASE \E g \in Group : Edit(d, g)
  <2>1. /\ UNCHANGED <<pc, full, plan, tx, base, lock, fulls>>
    BY <1>14 DEF Edit
  <2>2. QED
    BY <2>1 DEF LockOf, Uploading, Up
<1>15. QED
  BY <1>0, <1>1, <1>2, <1>3, <1>4, <1>5, <1>6, <1>7, <1>8, <1>9, <1>10, <1>11, <1>12, <1>13,
     <1>14, <1>r DEF StepOf, Working, Beginning, Applying, Ending, Undoing, PreserveIntent,
     RefuseIntent, StagingChanged, Withdraw, FullEnd, Crash

LEMMA LockStep ==
    ASSUME TypeOK, LockSound, NEW d \in Device, StepOf(d)
    PROVE  LockSound'
<1> SUFFICES ASSUME NEW e \in Device PROVE LockOf(e)'
  BY DEF LockSound
<1>1. CASE e = d
  BY <1>1, LockOwn DEF LockSound
<1>2. CASE e # d
  <2>1. SameFor(e) /\ LockOf(e) /\ (lock = e => lock' = e)
    BY <1>2, Others, OthersLock DEF LockSound
  <2>2. Uploading(e)' = Uploading(e) /\ Up(e)' = Up(e)
    BY <2>1 DEF SameFor, Uploading, Up
  <2>3. fulls > 0 => fulls' > 0
    BY CountersGrow
  <2>4. QED
    BY <2>1, <2>2, <2>3 DEF LockOf, SameFor, At
<1>3. QED
  BY <1>1, <1>2

-----------------------------------------------------------------------------
(* What a Full Sync leaves behind.                                         *)

(* Saves on the remote side are replaced under the commit lock, or in a    *)
(* restoration that is noted when another device holds it.                 *)
LEMMA PayloadChanges ==
    ASSUME TypeOK, LockSound, NEW d \in Device, StepOf(d), payload' # payload
    PROVE  /\ lock' = lock /\ (lock \in {Nobody, d} \/ meddled')
           /\ pc'[d] \notin {"rescanned", "rebuilt"}
<1> USE DEF remoteVars, deviceVars, ghosts, bounds, procVars, Go, At, Journalled
<1>t. DOMAIN pc = Device
  BY DEF TypeOK
<1>1. ASSUME NEW g \in Group, PromoteRemote(d, g)
      PROVE  /\ lock' = lock /\ lock = d /\ pc'[d] \notin {"rescanned", "rebuilt"}
  <2>1. pc[d] = "promoting" /\ tx[d].up # {} /\ lock' = lock
        /\ pc'[d] \in {"promoting", "rollback"}
    BY <1>1, <1>t DEF PromoteRemote, Abort
  <2>2. QED
    BY <2>1 DEF LockSound, LockOf, Uploading
<1>2. ASSUME NEW g \in Group, RestoreRemote(d, g)
      PROVE  /\ lock' = lock /\ (lock \in {Nobody, d} \/ meddled')
             /\ pc'[d] \notin {"rescanned", "rebuilt"}
  BY <1>2 DEF RestoreRemote
<1>3. CASE Beginning(d)
  BY <1>3 DEF Beginning, Scan, NothingToMove, SkipLock, TakeLock, PublishForward,
     RetireIntent, PreserveIntent, RefuseIntent, CheckIndex
<1>4. CASE Applying(d)
  BY <1>1, <1>4 DEF Applying, Prepare, StagingChanged, FinalVerify, PromoteLocal
<1>5. CASE Ending(d)
  BY <1>5 DEF Ending, Publish, WriteState, Close, FinalizeTx, Rescan, Rebuild, FullEnd
<1>6. CASE Undoing(d)
  BY <1>2, <1>6 DEF Undoing, Recover, Withdraw, PlanRollback, Restored, RestoreLocal
<1>7. CASE FullStart(d) \/ Crash(d) \/ Fail(d) \/ \E g \in Group : Edit(d, g)
  BY <1>7 DEF FullStart, Crash, Fail, Edit
<1>8. QED
  BY <1>3, <1>4, <1>5, <1>6, <1>7 DEF StepOf, Working

(* The index is written under the commit lock.                             *)
LEMMA HeadChanges ==
    ASSUME TypeOK, LockSound, NEW d \in Device, StepOf(d), head' # head
    PROVE  lock' = lock /\ lock = d /\ (PublishForward(d) \/ Publish(d) \/ Rebuild(d))
<1> USE DEF remoteVars, deviceVars, ghosts, bounds, procVars, Go, At, Journalled
<1>1. PublishForward(d) => lock = d /\ lock' = lock
  BY DEF PublishForward, LockSound, LockOf
<1>2. ASSUME Publish(d) PROVE lock = d /\ lock' = lock
  <2>1. pc[d] = "verified" /\ tx[d].up # {} /\ lock' = lock
    BY <1>2 DEF Publish
  <2>2. QED
    BY <2>1 DEF LockSound, LockOf, Uploading
<1>3. Rebuild(d) => lock = d /\ lock' = lock
  BY DEF Rebuild, LockSound, LockOf
<1>4. CASE Beginning(d)
  BY <1>1, <1>4 DEF Beginning, Scan, NothingToMove, SkipLock, TakeLock,
     RetireIntent, PreserveIntent, RefuseIntent, CheckIndex
<1>5. CASE Applying(d)
  BY <1>5 DEF Applying, Prepare, StagingChanged, FinalVerify, PromoteRemote, PromoteLocal
<1>6. CASE Ending(d)
  BY <1>2, <1>3, <1>6 DEF Ending, WriteState, Close, FinalizeTx, Rescan, FullEnd
<1>7. CASE Undoing(d)
  BY <1>7 DEF Undoing, Recover, Withdraw, PlanRollback, Restored, RestoreRemote, RestoreLocal
<1>8. CASE FullStart(d) \/ Crash(d) \/ Fail(d) \/ \E g \in Group : Edit(d, g)
  BY <1>8 DEF FullStart, Crash, Fail, Edit
<1>9. QED
  BY <1>4, <1>5, <1>6, <1>7, <1>8 DEF StepOf, Working

(* Only a Full Sync that nobody else is in forgets a restoration.          *)
LEMMA MeddledForgotten ==
    ASSUME TypeOK, LockSound, NEW d \in Device, StepOf(d), ~meddled', meddled
    PROVE  /\ FullStart(d)
           /\ \A e \in Device : pc[e] \notin {"rescanned", "rebuilt"} /\ pc' = pc
<1> USE DEF remoteVars, deviceVars, ghosts, bounds, procVars, Go, At, Journalled
<1>1. CASE FullStart(d)
  BY <1>1 DEF FullStart, LockSound, LockOf
<1>2. CASE Beginning(d)
  BY <1>2 DEF Beginning, Scan, NothingToMove, SkipLock, TakeLock, PublishForward,
     RetireIntent, PreserveIntent, RefuseIntent, CheckIndex
<1>3. CASE Applying(d)
  BY <1>3 DEF Applying, Prepare, StagingChanged, FinalVerify, PromoteRemote, PromoteLocal
<1>4. CASE Ending(d)
  BY <1>4 DEF Ending, Publish, WriteState, Close, FinalizeTx, Rescan, Rebuild, FullEnd
<1>5. CASE Undoing(d)
  BY <1>5 DEF Undoing, Recover, Withdraw, PlanRollback, Restored, RestoreRemote, RestoreLocal
<1>6. CASE Crash(d) \/ Fail(d) \/ \E g \in Group : Edit(d, g)
  BY <1>6 DEF Crash, Fail, Edit
<1>7. QED
  BY <1>1, <1>2, <1>3, <1>4, <1>5, <1>6 DEF StepOf, Working

(* A device's own steps into and within the end of its Full Sync.          *)
LEMMA RepairMoves ==
    ASSUME TypeOK, NEW d \in Device, StepOf(d), pc'[d] \in {"rescanned", "rebuilt"}
    PROVE  \/ Rescan(d) \/ Rebuild(d)
           \/ UNCHANGED <<pc, plan>>
<1> USE DEF remoteVars, deviceVars, ghosts, bounds, procVars, Go, At, Abort
<1>t. DOMAIN pc = Device
  BY DEF TypeOK
<1>1. CASE Beginning(d)
  BY <1>1, <1>t DEF Beginning, Scan, NothingToMove, SkipLock, TakeLock, PublishForward,
     RetireIntent, PreserveIntent, RefuseIntent, CheckIndex, Leave
<1>2. CASE Applying(d)
  BY <1>2, <1>t DEF Applying, Prepare, StagingChanged, FinalVerify, PromoteRemote,
     PromoteLocal, Leave
<1>3. CASE Ending(d)
  BY <1>3, <1>t DEF Ending, Publish, WriteState, Close, FinalizeTx, FullEnd, Leave
<1>4. CASE Undoing(d)
  BY <1>4, <1>t DEF Undoing, Recover, Withdraw, PlanRollback, Restored, RestoreRemote,
     RestoreLocal, Leave
<1>5. CASE FullStart(d) \/ Crash(d) \/ Fail(d) \/ \E g \in Group : Edit(d, g)
  BY <1>5, <1>t DEF FullStart, Crash, Fail, Edit, Leave
<1>6. QED
  BY <1>1, <1>2, <1>3, <1>4, <1>5 DEF StepOf, Working

LEMMA RepairStep ==
    ASSUME TypeOK, LockSound, RepairSound, NEW d \in Device, StepOf(d)
    PROVE  RepairSound'
<1> SUFFICES ASSUME NEW e \in Device, ~meddled', pc'[e] \in {"rescanned", "rebuilt"}
             PROVE  /\ plan'[e].remote = payload'
                    /\ pc'[e] = "rebuilt" => \A g \in Group : head'[g].ver = payload'[g]
  BY DEF RepairSound, RepairOf, At
<1>1. CASE meddled
  BY <1>1, MeddledForgotten
<1>2. CASE ~meddled /\ e # d
  <2>1. SameFor(e) /\ lock = e
    BY <1>2, Others DEF LockSound, LockOf, SameFor
  <2>2. payload' = payload
    BY <1>2, <2>1, PayloadChanges
  <2>3. head' = head
    BY <1>2, <2>1, HeadChanges
  <2>4. QED
    BY <1>2, <2>1, <2>2, <2>3 DEF SameFor, RepairSound, RepairOf, At
<1>3. CASE ~meddled /\ e = d
  <2>1. payload' = payload
    BY <1>3, PayloadChanges
  <2>2. CASE Rescan(d)
    <3>1. plan'[d].remote = payload /\ pc'[d] = "rescanned"
      BY <2>2 DEF Rescan, Go, TypeOK
    <3>2. QED
      BY <1>3, <2>1, <3>1
  <2>3. CASE Rebuild(d)
    <3>1. plan[d].remote = payload
      BY <1>3, <2>3 DEF Rebuild, RepairSound, RepairOf, At
    <3>2. \A g \in Group : head'[g].ver = payload[g]
      BY <2>3, <3>1 DEF Rebuild
    <3>3. QED
      BY <1>3, <2>1, <2>3, <3>1, <3>2 DEF Rebuild
  <2>4. CASE UNCHANGED <<pc, plan>> /\ ~Rebuild(d)
    <3>1. plan[d].remote = payload
      BY <1>3, <2>4 DEF RepairSound, RepairOf
    <3>2. head' = head
      <4>1. CASE PublishForward(d) \/ Publish(d)
        BY <1>3, <2>4, <4>1 DEF PublishForward, Publish, At
      <4>2. CASE ~(PublishForward(d) \/ Publish(d))
        BY <2>4, <4>2, HeadChanges
      <4>3. QED
        BY <4>1, <4>2
    <3>3. QED
      BY <1>3, <2>1, <2>4, <3>1, <3>2 DEF RepairSound, RepairOf, At
  <2>5. QED
    BY <1>3, <2>2, <2>3, <2>4, RepairMoves
<1>4. QED
  BY <1>1, <1>2, <1>3

(* A Full Sync that ends normally leaves an index that describes the       *)
(* payload and no intent, unless a recovery outside the commit lock        *)
(* restored payload under its hands (_publish_authoritative_index).        *)
LEMMA RepairsStep ==
    ASSUME TypeOK, RepairSound, NEW d \in Device, StepOf(d)
    PROVE  FullSyncRepairsStep
<1> SUFFICES ASSUME NEW e \in Device, pc[e] = "rebuilt", pc'[e] = "idle", faults' = faults,
                    ~meddled
             PROVE  intent' = NoIntent /\ \A g \in Group : head[g].ver = payload[g]
  BY DEF FullSyncRepairsStep, At
<1>1. e = d
  BY Others DEF SameFor
<1>2. pc[d] = "rebuilt" /\ pc'[d] = "idle"
  BY <1>1
<1>3. ~Crash(d) /\ ~Fail(d)
  BY DEF Crash, Fail, TypeOK
<1>4. FullEnd(d)
  <2> USE DEF At
  <2>1. ~Beginning(d)
    BY <1>2 DEF Beginning, Scan, NothingToMove, SkipLock, TakeLock, PublishForward,
       RetireIntent, PreserveIntent, RefuseIntent, CheckIndex
  <2>2. ~Applying(d)
    BY <1>2 DEF Applying, Prepare, StagingChanged, FinalVerify, PromoteRemote, PromoteLocal
  <2>3. ~Undoing(d)
    BY <1>2 DEF Undoing, Recover, Withdraw, PlanRollback, Restored, RestoreRemote, RestoreLocal
  <2>4. Ending(d) => FullEnd(d)
    BY <1>2 DEF Ending, Publish, WriteState, Close, FinalizeTx, Rescan, Rebuild
  <2>5. ~FullStart(d) /\ ~\E g \in Group : Edit(d, g)
    BY <1>2 DEF FullStart, Edit, procVars
  <2>6. QED
    BY <1>3, <2>1, <2>2, <2>3, <2>4, <2>5 DEF StepOf, Working
<1>5. QED
  BY <1>1, <1>2, <1>4 DEF FullEnd, RepairSound, RepairOf, At

-----------------------------------------------------------------------------
(* The ids of operations.                                                  *)

(* An operation gets its id when it scans, and keeps it while it is active.*)
LEMMA ActiveMoves ==
    ASSUME TypeOK, NEW d \in Device, StepOf(d), pc'[d] \in Active
    PROVE  \/ Scan(d)
           \/ pc[d] \in Active /\ plan'[d] = plan[d] /\ ops' = ops
<1> USE DEF remoteVars, deviceVars, ghosts, bounds, procVars, Go, At, Abort, Active,
            BeforePublication
<1>t. DOMAIN pc = Device
  BY DEF TypeOK
<1>1. CASE Beginning(d)
  BY <1>1, <1>t DEF Beginning, NothingToMove, SkipLock, TakeLock, PublishForward,
     RetireIntent, PreserveIntent, RefuseIntent, CheckIndex, Leave
<1>2. CASE Applying(d)
  BY <1>2, <1>t DEF Applying, Prepare, StagingChanged, FinalVerify, PromoteRemote,
     PromoteLocal, Leave
<1>3. CASE Ending(d)
  BY <1>3, <1>t DEF Ending, Publish, WriteState, Close, FinalizeTx, Rescan, Rebuild, FullEnd,
     Leave
<1>4. CASE Undoing(d)
  BY <1>4, <1>t DEF Undoing, Recover, Withdraw, PlanRollback, Restored, RestoreRemote,
     RestoreLocal, Leave
<1>5. CASE FullStart(d) \/ Crash(d) \/ Fail(d)
  BY <1>5, <1>t DEF FullStart, Crash, Fail, Leave
<1>6. CASE \E g \in Group : Edit(d, g)
  BY <1>6, <1>t DEF Edit
<1>7. QED
  BY <1>1, <1>2, <1>3, <1>4, <1>5, <1>6 DEF StepOf, Working

(* An operation's journal bears its id.                                    *)
LEMMA JournalMoves ==
    ASSUME TypeOK, NEW d \in Device, StepOf(d), pc'[d] \in Journalled
    PROVE  \/ Prepare(d)
           \/ /\ pc[d] \in Journalled /\ plan'[d] = plan[d]
              /\ tx'[d].op = tx[d].op /\ tx'[d].up = tx[d].up
<1> USE DEF remoteVars, deviceVars, ghosts, bounds, procVars, Go, At, Abort, Journalled
<1>t. DOMAIN pc = Device /\ DOMAIN tx = Device
  BY DEF TypeOK
<1>1. CASE Beginning(d)
  BY <1>1, <1>t DEF Beginning, Scan, NothingToMove, SkipLock, TakeLock, PublishForward,
     RetireIntent, PreserveIntent, RefuseIntent, CheckIndex, Leave
<1>2. CASE Applying(d)
  <2>1. CASE FinalVerify(d)
    <3>1. pc[d] = "promoting" /\ plan' = plan /\ tx' = [tx EXCEPT ![d].phase = "promoted"]
      BY <2>1 DEF FinalVerify
    <3>2. tx'[d].op = tx[d].op /\ tx'[d].up = tx[d].up
      BY <1>t, <3>1
    <3>3. QED
      BY <3>1, <3>2
  <2>2. QED
    BY <1>2, <1>t, <2>1 DEF Applying, StagingChanged, PromoteRemote, PromoteLocal, Leave
<1>3. CASE Ending(d)
  BY <1>3, <1>t DEF Ending, Publish, WriteState, Close, FinalizeTx, Rescan, Rebuild, FullEnd,
     Leave
<1>4. CASE Undoing(d)
  BY <1>4, <1>t DEF Undoing, Recover, Withdraw, PlanRollback, Restored, RestoreRemote,
     RestoreLocal, Leave
<1>5. CASE FullStart(d) \/ Crash(d) \/ Fail(d)
  BY <1>5, <1>t DEF FullStart, Crash, Fail, Leave
<1>6. CASE \E g \in Group : Edit(d, g)
  BY <1>6, <1>t DEF Edit
<1>7. QED
  BY <1>1, <1>2, <1>3, <1>4, <1>5, <1>6 DEF StepOf, Working

LEMMA IdsStep ==
    ASSUME TypeOK, IdsSound, NEW d \in Device, StepOf(d)
    PROVE  IdsSound'
<1>o. ops \in Nat /\ ops' \in Nat /\ ops' >= ops
  BY CountersGrow
<1>1. \A e \in Device : e # d /\ pc'[e] \in Active =>
        pc[e] \in Active /\ plan'[e].op = plan[e].op /\ plan[e].op \in 1..ops
  BY Others DEF SameFor, IdsSound
<1>2. ASSUME Scan(d)
      PROVE  plan'[d].op = ops + 1 /\ ops' = ops + 1 /\ pc'[d] = "scanned"
  BY <1>2 DEF Scan, TypeOK, Go
<1>3. pc'[d] \in Active /\ ~Scan(d) =>
        pc[d] \in Active /\ plan'[d].op = plan[d].op /\ plan[d].op \in 1..ops
  BY ActiveMoves DEF IdsSound
<1>4. ASSUME NEW e \in Device, pc'[e] \in Active PROVE plan'[e].op \in 1..ops'
  <2>1. CASE e # d
    BY <1>1, <1>4, <1>o, <2>1
  <2>2. CASE e = d /\ Scan(d)
    BY <1>2, <1>o, <2>2
  <2>3. CASE e = d /\ ~Scan(d)
    BY <1>3, <1>4, <1>o, <2>3
  <2>4. QED
    BY <2>1, <2>2, <2>3
<1>5. ASSUME NEW e \in Device, pc'[e] \in Journalled PROVE tx'[e].op = plan'[e].op
  <2>1. CASE e # d
    BY <1>5, <2>1, Others DEF SameFor, IdsSound, Journalled
  <2>2. CASE e = d /\ Prepare(d)
    BY <2>2 DEF Prepare, TypeOK
  <2>3. CASE e = d /\ ~Prepare(d)
    BY <1>5, <2>3, JournalMoves DEF IdsSound, Journalled
  <2>4. QED
    BY <2>1, <2>2, <2>3
<1>6. ASSUME NEW e \in Device, NEW f \in Device, e # f, pc'[e] \in Active, pc'[f] \in Active
      PROVE  plan'[e].op # plan'[f].op
  <2>1. CASE e # d /\ f # d
    BY <1>1, <1>6, <2>1 DEF IdsSound
  <2>2. ASSUME NEW h \in Device, h # d, pc'[h] \in Active, pc'[d] \in Active
        PROVE  plan'[h].op # plan'[d].op
    <3>1. pc[h] \in Active /\ plan'[h].op = plan[h].op /\ plan[h].op \in 1..ops
      BY <1>1, <2>2
    <3>2. CASE Scan(d)
      BY <1>2, <1>o, <3>1, <3>2
    <3>3. CASE ~Scan(d)
      BY <1>3, <2>2, <3>1, <3>3 DEF IdsSound
    <3>4. QED
      BY <3>2, <3>3
  <2>3. QED
    BY <1>6, <2>1, <2>2
<1>7. QED
  BY <1>4, <1>5, <1>6 DEF IdsSound, Journalled

-----------------------------------------------------------------------------
(* The shared intent.                                                      *)

LEMMA IntentChanges ==
    ASSUME TypeOK, NEW d \in Device, StepOf(d)
    PROVE  \/ intent' \in {intent, NoIntent}
           \/ /\ CheckIndex(d) /\ ~Leave(d)
              /\ intent' = [op |-> plan[d].op, groups |-> Up(d), before |-> plan[d].remote,
                            desired |-> plan[d].local, full |-> full[d]]
              /\ pc' = [pc EXCEPT ![d] = "begun"] /\ pc[d] = "locked" /\ intent = NoIntent
              /\ UNCHANGED <<head, pubs, lock, full, plan, base, tx>>
<1> USE DEF remoteVars, deviceVars, ghosts, bounds, procVars
<1>1. CASE CheckIndex(d)
  <2>1. CASE Leave(d) /\ UNCHANGED intent
    BY <2>1
  <2>2. CASE ~(Leave(d) /\ UNCHANGED intent)
    <3>1. pc[d] = "locked" /\ pc' = [pc EXCEPT ![d] = "begun"]
      BY <1>1, <2>2 DEF CheckIndex, Go, At
    <3>2. ~Leave(d)
      BY <3>1 DEF Leave, Go, TypeOK
    <3>3. QED
      BY <1>1, <2>2, <3>1, <3>2 DEF CheckIndex
  <2>3. QED
    BY <2>1, <2>2
<1>2. CASE Beginning(d) /\ ~CheckIndex(d)
  BY <1>2 DEF Beginning, Scan, NothingToMove, SkipLock, TakeLock, PublishForward,
     RetireIntent, PreserveIntent, RefuseIntent
<1>3. CASE Applying(d)
  BY <1>3 DEF Applying, Prepare, StagingChanged, FinalVerify, PromoteRemote, PromoteLocal,
     Abandon
<1>4. CASE Ending(d)
  BY <1>4 DEF Ending, Publish, WriteState, Close, FinalizeTx, Rescan, Rebuild, FullEnd
<1>5. CASE Undoing(d)
  BY <1>5 DEF Undoing, Recover, Withdraw, PlanRollback, Restored, RestoreRemote, RestoreLocal,
     Abandon
<1>6. CASE FullStart(d) \/ Crash(d) \/ Fail(d) \/ \E g \in Group : Edit(d, g)
  BY <1>6 DEF FullStart, Crash, Fail, Edit, Abandon
<1>7. QED
  BY <1>1, <1>2, <1>3, <1>4, <1>5, <1>6 DEF StepOf, Working

(* An operation that began does not scan or wait for the lock again before *)
(* it ends, and one that is published does not promote again.              *)
LEMMA LateMoves ==
    ASSUME TypeOK, NEW d \in Device, StepOf(d), ~Scan(d), pc[d] \notin {"scanned", "locked"}
    PROVE  pc'[d] \notin {"scanned", "locked"}
<1> USE DEF remoteVars, deviceVars, ghosts, bounds, procVars, Go, At, Abort
<1>t. DOMAIN pc = Device
  BY DEF TypeOK
<1>1. CASE Beginning(d)
  BY <1>1, <1>t DEF Beginning, NothingToMove, SkipLock, TakeLock, PublishForward,
     RetireIntent, PreserveIntent, RefuseIntent, CheckIndex, Leave
<1>2. CASE Applying(d)
  BY <1>2, <1>t DEF Applying, Prepare, StagingChanged, FinalVerify, PromoteRemote,
     PromoteLocal, Leave
<1>3. CASE Ending(d)
  BY <1>3, <1>t DEF Ending, Publish, WriteState, Close, FinalizeTx, Rescan, Rebuild, FullEnd,
     Leave
<1>4. CASE Undoing(d)
  BY <1>4, <1>t DEF Undoing, Recover, Withdraw, PlanRollback, Restored, RestoreRemote,
     RestoreLocal, Leave
<1>5. CASE FullStart(d) \/ Crash(d) \/ Fail(d) \/ \E g \in Group : Edit(d, g)
  BY <1>5, <1>t DEF FullStart, Crash, Fail, Edit, Leave
<1>6. QED
  BY <1>1, <1>2, <1>3, <1>4, <1>5 DEF StepOf, Working

LEMMA EarlyMoves ==
    ASSUME TypeOK, NEW d \in Device, StepOf(d), pc[d] \in {"published", "recorded"}
    PROVE  pc'[d] \notin BeforePublication
<1> USE DEF remoteVars, deviceVars, ghosts, bounds, procVars, Go, At, Abort,
            BeforePublication
<1>t. DOMAIN pc = Device
  BY DEF TypeOK
<1>1. CASE Beginning(d)
  BY <1>1 DEF Beginning, Scan, NothingToMove, SkipLock, TakeLock, PublishForward,
     RetireIntent, PreserveIntent, RefuseIntent, CheckIndex
<1>2. CASE Applying(d)
  BY <1>2 DEF Applying, Prepare, StagingChanged, FinalVerify, PromoteRemote, PromoteLocal
<1>3. CASE Ending(d)
  BY <1>3, <1>t DEF Ending, Publish, WriteState, Close, FinalizeTx, Rescan, Rebuild, FullEnd
<1>4. CASE Undoing(d)
  BY <1>4 DEF Undoing, Recover, Withdraw, PlanRollback, Restored, RestoreRemote, RestoreLocal
<1>5. CASE FullStart(d) \/ Crash(d) \/ Fail(d) \/ \E g \in Group : Edit(d, g)
  BY <1>5, <1>t DEF FullStart, Crash, Fail, Edit, Leave
<1>6. QED
  BY <1>1, <1>2, <1>3, <1>4, <1>5 DEF StepOf, Working

(* What an operation uploads is decided when it begins.                    *)
LEMMA UploadMoves ==
    ASSUME TypeOK, NEW d \in Device, StepOf(d), pc'[d] \in {"begun"} \cup Journalled
    PROVE  \/ SkipLock(d) /\ pc[d] = "scanned" /\ Uploading(d)' = {}
           \/ CheckIndex(d) /\ pc[d] = "locked" /\ Uploading(d)' = Up(d)
           \/ /\ pc[d] \in {"begun"} \cup Journalled /\ full' = full
              /\ Uploading(d)' = Uploading(d)
<1> USE DEF remoteVars, deviceVars, ghosts, bounds, procVars, Go, At, Abort, Journalled
<1>t. DOMAIN pc = Device /\ DOMAIN tx = Device
  BY DEF TypeOK
<1>1. CASE SkipLock(d)
  <2>1. Up(d)' = {} /\ pc'[d] = "begun" /\ pc[d] = "scanned"
    BY <1>1, <1>t DEF SkipLock, Up
  <2>2. QED
    BY <1>1, <2>1 DEF Uploading
<1>2. CASE CheckIndex(d)
  <2>1. UNCHANGED <<plan, base>> /\ pc[d] = "locked" /\ pc'[d] = "begun"
    BY <1>2, <1>t DEF CheckIndex, Leave
  <2>2. QED
    BY <1>2, <2>1 DEF Uploading, Up
<1>3. CASE Beginning(d) /\ ~SkipLock(d) /\ ~CheckIndex(d)
  BY <1>3, <1>t DEF Beginning, Scan, NothingToMove, TakeLock, PublishForward,
     RetireIntent, PreserveIntent, RefuseIntent, Leave
<1>4. CASE Prepare(d)
  BY <1>4, <1>t DEF Prepare, Uploading, Up
<1>5. CASE Applying(d) /\ ~Prepare(d)
  <2>1. pc[d] \in Journalled /\ full' = full /\ tx'[d].up = tx[d].up
    <3>1. FinalVerify(d) => pc[d] = "promoting" /\ full' = full /\ tx'[d].up = tx[d].up
      BY <1>t DEF FinalVerify
    <3>2. QED
      BY <1>5, <1>t, <3>1 DEF Applying, StagingChanged, PromoteRemote, PromoteLocal, Leave
  <2>2. pc'[d] # "begun"
    BY <1>5, <1>t DEF Applying, StagingChanged, FinalVerify, PromoteRemote, PromoteLocal, Leave
  <2>3. QED
    BY <2>1, <2>2 DEF Uploading
<1>6. CASE Ending(d)
  <2>1. pc[d] \in Journalled /\ full' = full /\ tx' = tx /\ pc'[d] # "begun"
    BY <1>6, <1>t DEF Ending, Publish, WriteState, Close, FinalizeTx, Rescan, Rebuild, FullEnd,
       Leave
  <2>2. QED
    BY <2>1 DEF Uploading
<1>7. CASE Undoing(d)
  BY <1>7, <1>t DEF Undoing, Recover, Withdraw, PlanRollback, Restored, RestoreRemote,
     RestoreLocal, Leave
<1>8. CASE FullStart(d) \/ Crash(d) \/ Fail(d)
  BY <1>8, <1>t DEF FullStart, Crash, Fail, Leave
<1>9. CASE \E g \in Group : Edit(d, g)
  <2>1. UNCHANGED <<pc, full, plan, tx, base>>
    BY <1>9 DEF Edit
  <2>2. QED
    BY <2>1 DEF Uploading, Up
<1>10. QED
  BY <1>1, <1>2, <1>3, <1>4, <1>5, <1>6, <1>7, <1>8, <1>9 DEF StepOf, Working

(* The device that uploads holds the lock, and so writes the only intent.  *)
LEMMA IntentStep ==
    ASSUME TypeOK, LockSound, IdsSound, IntentSound, NEW d \in Device, StepOf(d)
    PROVE  IntentSound'
<1>o. ops \in Nat /\ ops' \in Nat /\ ops' >= ops
  BY CountersGrow
<1>a. {"begun"} \cup Journalled \subseteq Active /\ "locked" \in Active /\ "scanned" \in Active
      /\ Active = {"scanned", "locked", "begun"} \cup Journalled
  BY DEF Active, BeforePublication, Journalled
<1>c. ASSUME intent' # NoIntent, intent' # intent
      PROVE  /\ CheckIndex(d) /\ pc[d] = "locked" /\ pc'[d] = "begun" /\ intent = NoIntent
             /\ intent'.op = plan[d].op /\ intent'.groups = Up(d) /\ intent'.full = full[d]
             /\ UNCHANGED <<full, plan, base, tx>> /\ Up(d) # {} /\ plan[d].op \in 1..ops
             /\ lock = d
  <2>1. /\ CheckIndex(d) /\ pc[d] = "locked" /\ pc' = [pc EXCEPT ![d] = "begun"]
        /\ intent = NoIntent
        /\ intent'.op = plan[d].op /\ intent'.groups = Up(d) /\ intent'.full = full[d]
        /\ UNCHANGED <<full, plan, base, tx>>
    BY <1>c, IntentChanges
  <2>2. pc'[d] = "begun"
    BY <2>1 DEF TypeOK
  <2>3. Up(d) # {} /\ lock = d
    BY <2>1 DEF LockSound, LockOf, At
  <2>4. plan[d].op \in 1..ops
    BY <1>a, <2>1 DEF IdsSound
  <2>5. QED
    BY <2>1, <2>2, <2>3, <2>4
<1>1. ASSUME intent' # NoIntent PROVE intent'.op \in 1..ops' /\ intent'.groups # {}
  <2>1. CASE intent' = intent
    BY <1>1, <1>o, <2>1 DEF IntentSound
  <2>2. CASE intent' # intent
    BY <1>1, <1>c, <1>o, <2>2
  <2>3. QED
    BY <2>1, <2>2
<1>2. ASSUME NEW e \in Device, pc'[e] \in Active, intent' # NoIntent,
             intent'.op = plan'[e].op
      PROVE  pc'[e] \notin {"scanned", "locked"} /\ Uploading(e)' # {}
             /\ intent'.full = full'[e]
  <2>1. CASE intent' # intent
    <3>1. CASE e = d
      BY <1>2, <1>c, <2>1, <3>1 DEF Uploading, Up
    <3>2. CASE e # d
      <4>1. pc[e] \in Active /\ plan'[e].op = plan[e].op
        BY <1>2, <3>2, Others DEF SameFor
      <4>2. plan[e].op # plan[d].op
        BY <1>2, <1>a, <1>c, <2>1, <3>2, <4>1 DEF IdsSound
      <4>3. QED
        BY <1>2, <1>c, <2>1, <4>1, <4>2
    <3>3. QED
      BY <3>1, <3>2
  <2>2. CASE intent' = intent /\ e # d
    <3>1. SameFor(e)
      BY <2>2, Others
    <3>2. Uploading(e)' = Uploading(e)
      BY <3>1 DEF SameFor, Uploading, Up
    <3>3. QED
      BY <1>2, <2>2, <3>1, <3>2 DEF SameFor, IntentSound
  <2>3. CASE intent' = intent /\ e = d
    <3>1. ~Scan(d)
      <4>1. Scan(d) => plan'[d].op = ops + 1
        BY DEF Scan, TypeOK
      <4>2. intent.op \in 1..ops
        BY <1>2, <2>3 DEF IntentSound
      <4>3. QED
        BY <1>2, <1>o, <2>3, <4>1, <4>2
    <3>2. pc[d] \in Active /\ plan'[d] = plan[d]
      BY <1>2, <2>3, <3>1, ActiveMoves
    <3>3. pc[d] \notin {"scanned", "locked"} /\ Uploading(d) # {} /\ intent.full = full[d]
      BY <1>2, <2>3, <3>2 DEF IntentSound
    <3>4. pc'[d] \notin {"scanned", "locked"}
      BY <3>1, <3>3, LateMoves
    <3>5. Uploading(d)' = Uploading(d) /\ full' = full
      BY <1>2, <1>a, <2>3, <3>3, <3>4, UploadMoves
    <3>6. QED
      BY <2>3, <3>3, <3>4, <3>5
  <2>4. QED
    BY <2>1, <2>2, <2>3
<1>3. ASSUME NEW e \in Device, pc'[e] \in {"begun", "promoting", "verified"},
             Uploading(e)' # {}
      PROVE  intent' = NoIntent \/ intent'.op = plan'[e].op
  <2>0. pc'[e] \in {"begun"} \cup Journalled
    BY <1>3 DEF Journalled
  <2>1. CASE e # d
    <3>1. SameFor(e)
      BY <2>1, Others
    <3>2. Uploading(e)' = Uploading(e)
      BY <3>1 DEF SameFor, Uploading, Up
    <3>3. lock = e
      BY <1>3, <2>0, <3>1, <3>2 DEF SameFor, LockSound, LockOf
    <3>4. intent' \in {intent, NoIntent}
      BY <1>c, <2>1, <3>3
    <3>5. QED
      BY <1>3, <3>1, <3>2, <3>4 DEF SameFor, IntentSound
  <2>2. CASE e = d /\ intent' # intent
    BY <1>c, <2>2
  <2>3. CASE e = d /\ intent' = intent
    <3>1. CASE CheckIndex(d)
      <4>1. intent = NoIntent
        BY <3>1 DEF CheckIndex
      <4>2. QED
        BY <2>3, <4>1
    <3>2. CASE ~CheckIndex(d)
      <4>1. pc[d] \in {"begun"} \cup Journalled /\ Uploading(d)' = Uploading(d)
        BY <1>3, <2>0, <2>3, <3>2, UploadMoves
      <4>2. pc[d] \in {"begun", "promoting", "verified"}
        BY <1>3, <2>3, <4>1, EarlyMoves DEF BeforePublication, Journalled
      <4>3. ~Scan(d)
        BY <4>1 DEF Scan, At, Journalled
      <4>4. plan'[d] = plan[d]
        BY <1>a, <2>0, <2>3, <4>3, ActiveMoves
      <4>5. QED
        BY <1>3, <2>3, <4>1, <4>2, <4>4 DEF IntentSound
    <3>3. QED
      BY <3>1, <3>2
  <2>4. QED
    BY <2>1, <2>2, <2>3
<1>4. QED
  BY <1>1, <1>2, <1>3 DEF IntentSound

-----------------------------------------------------------------------------
(* What was published.                                                     *)

LEMMA PubsChanges ==
    ASSUME TypeOK, NEW d \in Device, StepOf(d), pubs' # pubs
    PROVE  \/ PublishForward(d)
           \/ Publish(d) /\ tx[d].up # {} /\ ~full[d]
<1> USE DEF remoteVars, deviceVars, ghosts, bounds, procVars
<1>1. CASE Beginning(d)
  BY <1>1 DEF Beginning, Scan, NothingToMove, SkipLock, TakeLock,
     RetireIntent, PreserveIntent, RefuseIntent, CheckIndex
<1>2. CASE Applying(d)
  BY <1>2 DEF Applying, Prepare, StagingChanged, FinalVerify, PromoteRemote, PromoteLocal
<1>3. CASE Ending(d)
  BY <1>3 DEF Ending, Publish, WriteState, Close, FinalizeTx, Rescan, Rebuild, FullEnd
<1>4. CASE Undoing(d)
  BY <1>4 DEF Undoing, Recover, Withdraw, PlanRollback, Restored, RestoreRemote, RestoreLocal
<1>5. CASE FullStart(d) \/ Crash(d) \/ Fail(d) \/ \E g \in Group : Edit(d, g)
  BY <1>5 DEF FullStart, Crash, Fail, Edit
<1>6. QED
  BY <1>1, <1>2, <1>3, <1>4, <1>5 DEF StepOf, Working

(* The operation that is published, and who publishes it.                  *)
Published(d) == IF PublishForward(d) THEN intent.op ELSE tx[d].op

LEMMA PublishedWas ==
    ASSUME IInv, NEW d \in Device, StepOf(d), pubs' # pubs, fulls = 0 \/ faults <= 1
    PROVE  /\ lock = d /\ lock' = d
           /\ Published(d) \in 1..ops /\ pubs[Published(d)] = 0
           /\ pubs' = [pubs EXCEPT ![Published(d)] = @ + 1]
           /\ intent' = intent /\ (intent = NoIntent \/ Published(d) = intent.op)
           /\ intent # NoIntent => ~intent.full /\ Published(d) \in Receipts'
           /\ IF PublishForward(d) THEN pc[d] = "locked" /\ pc' = pc
              ELSE /\ pc[d] = "verified" /\ pc'[d] = "published" /\ tx' = tx
                   /\ Published(d) = plan[d].op
<1> USE DEF IInv
<1>1. CASE PublishForward(d)
  <2>1. /\ pc[d] = "locked" /\ intent # NoIntent /\ ~intent.full /\ intent.op \notin Receipts
        /\ PublishGroups(intent.groups, intent.desired, intent.op)
        /\ UNCHANGED <<intent, lock, pc>>
    BY <1>1 DEF PublishForward, At, procVars
  <2>2. lock = d
    BY <2>1 DEF LockSound, LockOf, At
  <2>3. intent.op \in 1..ops /\ intent.groups # {} /\ intent.groups \subseteq Group
    BY <2>1, PlanType DEF IntentSound
  <2>4. pubs[intent.op] = 0
    BY <2>1, <2>2 DEF OnceSound, Unretired, At
  <2>5. intent.op \in Receipts'
    <3>1. PICK g \in intent.groups : g \in Group
      BY <2>3
    <3>2. head'[g].op = intent.op
      BY <2>1, <3>1 DEF PublishGroups
    <3>3. QED
      BY <3>1, <3>2 DEF Receipts
  <2>6. QED
    BY <1>1, <2>1, <2>2, <2>3, <2>4, <2>5 DEF Published, PublishGroups
<1>2. CASE ~PublishForward(d)
  <2>1. /\ pc[d] = "verified" /\ tx[d].up # {} /\ ~full[d]
        /\ PublishGroups(tx[d].up, tx[d].local, tx[d].op)
        /\ UNCHANGED <<intent, lock, tx>> /\ pc'[d] = "published"
    BY <1>2, PubsChanges DEF Publish, At, Go, TypeOK, deviceVars
  <2>2. lock = d /\ pc[d] \in Active /\ pc[d] \in Journalled /\ pc[d] \in BeforePublication
        /\ Uploading(d) = tx[d].up
    BY <2>1 DEF LockSound, LockOf, Uploading, Journalled, Active, BeforePublication
  <2>3. tx[d].op = plan[d].op /\ plan[d].op \in 1..ops
    BY <2>2 DEF IdsSound
  <2>4. pubs[tx[d].op] = 0
    BY <2>2, <2>3 DEF OnceSound
  <2>5. intent = NoIntent \/ intent.op = tx[d].op
    BY <2>1, <2>2, <2>3 DEF IntentSound
  <2>6. intent # NoIntent => ~intent.full
    BY <2>1, <2>2, <2>3, <2>5 DEF IntentSound
  <2>7. tx[d].op \in Receipts'
    <3>0. tx[d] # NoTx
      BY <2>1 DEF TypeOK, InTransaction
    <3>1. PICK g \in tx[d].up : g \in Group
      BY <2>1, <3>0, PlanType
    <3>2. head'[g].op = tx[d].op
      BY <2>1, <3>1 DEF PublishGroups
    <3>3. QED
      BY <3>1, <3>2 DEF Receipts
  <2>8. QED
    BY <1>2, <2>1, <2>2, <2>3, <2>4, <2>5, <2>6, <2>7 DEF Published, PublishGroups
<1>3. QED
  BY <1>1, <1>2

(* An operation that is about to publish was not published by anyone.      *)
LEMMA BeforeStep ==
    ASSUME IInv, NEW d \in Device, StepOf(d), fulls = 0 \/ faults <= 1
    PROVE  /\ PublishedOnce'
           /\ \A o \in 1..MaxOps : o > ops' => pubs'[o] = 0
           /\ \A e \in Device : pc'[e] \in BeforePublication => pubs'[plan'[e].op] = 0
<1> USE DEF IInv
<1>o. ops \in Nat /\ ops' \in Nat /\ ops' >= ops /\ ops <= MaxOps
  BY CountersGrow DEF TypeOK
<1>p. pubs \in [1..MaxOps -> Nat]
  BY DEF TypeOK
<1>b. BeforePublication \subseteq Active
  BY DEF Active
<1>0. /\ \A o \in 1..MaxOps : pubs[o] <= 1 /\ (o > ops => pubs[o] = 0)
      /\ \A e \in Device : pc[e] \in BeforePublication => pubs[plan[e].op] = 0
  BY DEF OnceSound, PublishedOnce
<1>1. ASSUME NEW o \in 1..MaxOps, pubs' # pubs
      PROVE  pubs'[o] <= 1 /\ (o > ops' => pubs'[o] = 0)
  <2>1. CASE o = Published(d)
    <3>1. pubs'[o] = 0 + 1 /\ o <= ops
      BY <1>1, <1>p, <2>1, PublishedWas
    <3>2. QED
      BY <1>o, <3>1
  <2>2. CASE o # Published(d)
    <3>1. pubs'[o] = pubs[o]
      BY <1>1, <1>p, <2>2, PublishedWas
    <3>2. QED
      BY <1>0, <1>1, <1>o, <3>1
  <2>3. QED
    BY <2>1, <2>2
<1>2. PublishedOnce' /\ \A o \in 1..MaxOps : o > ops' => pubs'[o] = 0
  <2>1. CASE pubs' = pubs
    BY <1>0, <1>o, <2>1 DEF PublishedOnce
  <2>2. CASE pubs' # pubs
    BY <1>1, <2>2 DEF PublishedOnce
  <2>3. QED
    BY <2>1, <2>2
<1>3. ASSUME NEW e \in Device, pc'[e] \in BeforePublication
      PROVE  pubs'[plan'[e].op] = 0
  <2>1. CASE e = d /\ Scan(d)
    <3>1. pubs' = pubs /\ plan'[d].op = ops + 1 /\ ops + 1 \in 1..MaxOps
      BY <1>o, <2>1 DEF Scan, TypeOK, ghosts
    <3>2. QED
      BY <1>0, <1>o, <2>1, <3>1
  <2>2. CASE e # d \/ ~Scan(d)
    <3>1. pc[e] \in Active /\ plan'[e] = plan[e]
      BY <1>3, <1>b, <2>2, Others, ActiveMoves DEF SameFor
    <3>2. pc[e] \in BeforePublication
      <4>1. CASE e # d
        BY <1>3, <4>1, Others DEF SameFor
      <4>2. CASE e = d
        BY <1>3, <3>1, <4>2, EarlyMoves DEF Active
      <4>3. QED
        BY <4>1, <4>2
    <3>3. CASE pubs' = pubs
      BY <1>0, <3>1, <3>2, <3>3
    <3>4. CASE pubs' # pubs
      <4>1. plan[e].op # Published(d)
        <5>1. CASE PublishForward(d)
          <6>1. lock = d /\ pc[d] = "locked" /\ intent # NoIntent /\ Published(d) = intent.op
            BY <3>4, <5>1, PublishedWas DEF PublishForward, Published
          <6>2. plan[e].op = intent.op =>
                  pc[e] \notin {"scanned", "locked"} /\ Uploading(e) # {}
            BY <3>1, <6>1 DEF IntentSound
          <6>3. plan[e].op = intent.op => lock = e
            BY <3>1, <6>2 DEF LockSound, LockOf, Active, BeforePublication, Journalled
          <6>4. QED
            BY <6>1, <6>2, <6>3
        <5>2. CASE ~PublishForward(d)
          <6>1. /\ pc[d] = "verified" /\ pc'[d] = "published"
                /\ Published(d) = plan[d].op
            BY <3>4, <5>2, PublishedWas
          <6>2. e # d
            BY <1>3, <6>1 DEF BeforePublication
          <6>3. pc[d] \in Active
            BY <6>1 DEF Active, BeforePublication
          <6>4. QED
            BY <3>1, <6>1, <6>2, <6>3 DEF IdsSound
        <5>3. QED
          BY <5>1, <5>2
      <4>2. plan[e].op \in 1..MaxOps
        BY <1>o, <3>1 DEF IdsSound
      <4>3. pubs'[plan[e].op] = pubs[plan[e].op]
        BY <1>p, <3>4, <4>1, <4>2, PublishedWas
      <4>4. QED
        BY <1>0, <3>1, <3>2, <4>3
    <3>5. QED
      BY <3>3, <3>4
  <2>3. QED
    BY <2>1, <2>2
<1>4. QED
  BY <1>2, <1>3

(* A published operation whose intent stays keeps its receipt, or a Full   *)
(* Sync that dropped the receipt still holds the lock.                     *)
LEMMA ReceiptStep ==
    ASSUME IInv, NEW d \in Device, StepOf(d), fulls' = 0 \/ faults' <= 1,
           fulls = 0 \/ faults <= 1,
           Unretired, intent' = intent, pubs' = pubs
    PROVE  \/ intent.op \in Receipts'
           \/ \E e \in Device : lock' = e /\ pc'[e] = "rebuilt"
<1> USE DEF IInv
<1>0. /\ intent # NoIntent /\ pubs[intent.op] # 0 /\ ~intent.full
      /\ intent.op \in Receipts \/ \E e \in Device : lock = e /\ At(e, "rebuilt")
      /\ \/ faults >= 1
         \/ \E e \in Device :
              /\ lock = e
              /\ At(e, "locked") \/ pc[e] \in {"published", "recorded"}
  BY DEF OnceSound, Unretired
<1>1. CASE PublishForward(d) \/ (Publish(d) /\ tx[d].up # {} /\ ~full[d])
  <2>1. PublishForward(d) => intent.op \in 1..MaxOps
    BY <1>0 DEF IntentSound, TypeOK
  <2>2. (Publish(d) /\ tx[d].up # {} /\ ~full[d]) => tx[d].op \in 1..MaxOps
    <3>1. ASSUME Publish(d) PROVE pc[d] \in Active /\ pc[d] \in Journalled
      BY <3>1 DEF Publish, At, Active, BeforePublication, Journalled
    <3>2. QED
      BY <3>1 DEF IdsSound, TypeOK
  <2>3. ASSUME NEW o \in 1..MaxOps, pubs' = [pubs EXCEPT ![o] = @ + 1] PROVE FALSE
    <3>1. pubs[o] \in Nat /\ pubs'[o] = pubs[o] + 1
      BY <2>3 DEF TypeOK
    <3>2. QED
      BY <3>1
  <2>4. QED
    BY <1>1, <2>1, <2>2, <2>3 DEF PublishForward, Publish, PublishGroups
<1>2. CASE Rebuild(d)
  <2>1. pc'[d] = "rebuilt" /\ lock' = lock /\ pc[d] = "rescanned"
    BY <1>2 DEF Rebuild, Go, At, TypeOK
  <2>2. lock = d
    BY <2>1 DEF LockSound, LockOf
  <2>3. QED
    BY <2>1, <2>2
<1>3. CASE head' = head /\ intent.op \in Receipts
  BY <1>3 DEF Receipts
<1>4. CASE head' = head /\ intent.op \notin Receipts
  <2>1. PICK e \in Device : lock = e /\ pc[e] = "rebuilt"
    BY <1>0, <1>4 DEF At
  <2>2. faults >= 1 /\ fulls > 0
    BY <1>0, <2>1 DEF At, LockSound, LockOf
  <2>3. CASE e # d
    BY <2>1, <2>3, Others, OthersLock DEF SameFor
  <2>4. CASE e = d
    <3>1. ~FullEnd(d)
      BY <1>0 DEF FullEnd
    <3>2. ~Crash(d)
      BY <2>2, CountersGrow DEF Crash, TypeOK
    <3>3. pc' = pc /\ lock' = lock
      <4> USE DEF At
      <4>1. ~Beginning(d)
        BY <2>1, <2>4 DEF Beginning, Scan, NothingToMove, SkipLock, TakeLock, PublishForward,
           RetireIntent, PreserveIntent, RefuseIntent, CheckIndex
      <4>2. ~Applying(d)
        BY <2>1, <2>4 DEF Applying, Prepare, StagingChanged, FinalVerify, PromoteRemote,
           PromoteLocal
      <4>3. ~Undoing(d)
        BY <2>1, <2>4 DEF Undoing, Recover, Withdraw, PlanRollback, Restored, RestoreRemote,
           RestoreLocal
      <4>4. ~Ending(d)
        BY <2>1, <2>4, <3>1 DEF Ending, Publish, WriteState, Close, FinalizeTx, Rescan, Rebuild
      <4>5. ~FullStart(d) /\ ~Fail(d)
        BY <2>1, <2>4 DEF FullStart, Fail
      <4>6. \E g \in Group : Edit(d, g)
        BY <3>2, <4>1, <4>2, <4>3, <4>4, <4>5 DEF StepOf, Working
      <4>7. QED
        BY <4>6 DEF Edit, remoteVars, procVars
    <3>4. QED
      BY <2>1, <2>4, <3>3
  <2>5. QED
    BY <2>3, <2>4
<1>5. CASE head' # head
  <2>1. Publish(d) /\ head' # head => tx[d].up # {} /\ ~full[d]
    BY DEF Publish
  <2>2. QED
    BY <1>1, <1>2, <1>5, <2>1, HeadChanges
<1>6. QED
  BY <1>3, <1>4, <1>5

(* While nothing failed, a published operation whose intent stays is that  *)
(* of the device that holds the lock, or one that device is about to       *)
(* retire.                                                                 *)
LEMMA HolderStep ==
    ASSUME IInv, NEW d \in Device, StepOf(d), Unretired, ~intent.full, intent' = intent,
           NEW e \in Device, lock = e, faults' = faults,
           \/ pc[e] = "locked"
           \/ pc[e] \in {"published", "recorded"} /\ tx[e].op = intent.op
    PROVE  /\ lock' = e
           /\ \/ pc'[e] = "locked"
              \/ pc'[e] \in {"published", "recorded"} /\ tx'[e].op = intent.op
<1> USE DEF IInv
<1>0. intent # NoIntent /\ intent' # NoIntent
  BY DEF Unretired
<1>1. CASE e # d
  BY <1>1, Others, OthersLock DEF SameFor
<1>2. CASE e = d
  <2> USE DEF At, Go, remoteVars, deviceVars, procVars, ghosts, bounds
  <2>t. DOMAIN pc = Device /\ faults \in Nat
    BY DEF TypeOK
  <2>1. ~Crash(d) /\ ~Fail(d)
    BY <2>t DEF Crash, Fail
  <2>2. ~Applying(d)
    BY <1>2 DEF Applying, Prepare, StagingChanged, FinalVerify, PromoteRemote, PromoteLocal
  <2>3. ~Undoing(d) /\ ~FullStart(d)
    BY <1>2 DEF Undoing, Recover, Withdraw, PlanRollback, Restored, RestoreRemote,
       RestoreLocal, FullStart
  <2>4. CASE \E g \in Group : Edit(d, g)
    BY <1>2, <2>4 DEF Edit
  <2>5. CASE Beginning(d)
    <3>1. ~RefuseIntent(d) /\ ~CheckIndex(d) /\ ~PreserveIntent(d) /\ ~RetireIntent(d)
      BY <1>0 DEF RefuseIntent, CheckIndex, PreserveIntent, RetireIntent
    <3>2. PublishForward(d)
      BY <1>2, <2>5, <3>1 DEF Beginning, Scan, NothingToMove, SkipLock, TakeLock
    <3>3. QED
      BY <1>2, <3>2 DEF PublishForward
  <2>6. CASE Ending(d)
    <3>1. WriteState(d) \/ Close(d)
      BY <1>2, <2>6 DEF Ending, Publish, FinalizeTx, Rescan, Rebuild, FullEnd
    <3>2. ~Close(d)
      <4>1. SUFFICES ASSUME Close(d) PROVE FALSE
        OBVIOUS
      <4>2. pc[d] = "recorded" /\ tx[d].op = intent.op
        BY <1>2, <4>1 DEF Close
      <4>3. pc[d] \in Active /\ tx[d].op = plan[d].op
        BY <4>2 DEF Active, Journalled, IdsSound
      <4>4. tx[d].up # {} /\ intent.full = full[d]
        BY <1>0, <4>2, <4>3 DEF IntentSound, Uploading
      <4>5. intent' = NoIntent
        BY <4>1, <4>4 DEF Close, TypeOK
      <4>6. QED
        BY <1>0, <4>5
    <3>3. QED
      BY <1>2, <2>t, <3>1, <3>2 DEF WriteState
  <2>7. QED
    BY <2>1, <2>2, <2>3, <2>4, <2>5, <2>6 DEF StepOf, Working
<1>3. QED
  BY <1>1, <1>2

LEMMA OnceStep ==
    ASSUME IInv, NEW d \in Device, StepOf(d)
    PROVE  OnceSound'
<1> USE DEF IInv
<1> SUFFICES ASSUME fulls' = 0 \/ faults' <= 1
             PROVE  /\ PublishedOnce'
                    /\ \A o \in 1..MaxOps : o > ops' => pubs'[o] = 0
                    /\ \A e \in Device : pc'[e] \in BeforePublication =>
                         pubs'[plan'[e].op] = 0
                    /\ Unretired' =>
                         /\ ~intent'.full
                         /\ intent'.op \in Receipts' \/ \E e \in Device :
                              lock' = e /\ pc'[e] = "rebuilt"
                         /\ \/ faults' >= 1
                            \/ \E e \in Device :
                                 /\ lock' = e
                                 /\ \/ pc'[e] = "locked"
                                    \/ /\ pc'[e] \in {"published", "recorded"}
                                       /\ tx'[e].op = intent'.op
  BY DEF OnceSound, At
<1>c. fulls = 0 \/ faults <= 1
  BY CountersGrow
<1>1. SUFFICES ASSUME Unretired'
               PROVE  /\ ~intent'.full
                      /\ intent'.op \in Receipts' \/ \E e \in Device :
                           lock' = e /\ pc'[e] = "rebuilt"
                      /\ \/ faults' >= 1
                         \/ \E e \in Device :
                              /\ lock' = e
                              /\ \/ pc'[e] = "locked"
                                 \/ /\ pc'[e] \in {"published", "recorded"}
                                    /\ tx'[e].op = intent'.op
  BY <1>c, BeforeStep
<1>2. intent' # NoIntent /\ pubs'[intent'.op] # 0
  BY <1>1 DEF Unretired
<1>3. intent' = intent
  <2>1. SUFFICES ASSUME intent' # intent PROVE FALSE
    OBVIOUS
  <2>2. /\ pc[d] = "locked" /\ pc' = [pc EXCEPT ![d] = "begun"]
        /\ intent'.op = plan[d].op /\ plan' = plan
    BY <1>2, <2>1, IntentChanges
  <2>3. pc'[d] \in BeforePublication
    BY <2>2 DEF TypeOK, BeforePublication
  <2>4. QED
    BY <1>2, <1>c, <2>2, <2>3, BeforeStep
<1>4. CASE pubs' # pubs
  <2>1. /\ lock' = d /\ intent # NoIntent /\ ~intent.full /\ Published(d) = intent.op
        /\ Published(d) \in Receipts'
        /\ IF PublishForward(d) THEN pc'[d] = "locked"
           ELSE pc'[d] = "published" /\ tx' = tx
    BY <1>2, <1>3, <1>4, <1>c, PublishedWas
  <2>2. ~PublishForward(d) => tx'[d].op = intent.op
    BY <2>1 DEF Published
  <2>3. QED
    BY <1>3, <2>1, <2>2
<1>5. CASE pubs' = pubs
  <2>1. Unretired
    BY <1>2, <1>3, <1>5 DEF Unretired
  <2>2. /\ ~intent.full
        /\ \/ faults >= 1
           \/ \E e \in Device :
                /\ lock = e
                /\ At(e, "locked") \/ (/\ pc[e] \in {"published", "recorded"}
                                       /\ tx[e].op = intent.op)
    BY <1>c, <2>1 DEF OnceSound
  <2>3. intent.op \in Receipts' \/ \E e \in Device : lock' = e /\ pc'[e] = "rebuilt"
    BY <1>3, <1>5, <1>c, <2>1, ReceiptStep
  <2>4. CASE faults' >= 1
    BY <1>3, <2>2, <2>3, <2>4
  <2>5. CASE ~(faults' >= 1)
    <3>1. faults' = faults /\ ~(faults >= 1)
      BY <2>5, CountersGrow
    <3>2. PICK e \in Device :
                /\ lock = e
                /\ \/ pc[e] = "locked"
                   \/ pc[e] \in {"published", "recorded"} /\ tx[e].op = intent.op
      BY <2>2, <3>1 DEF At
    <3>3. /\ lock' = e
          /\ \/ pc'[e] = "locked"
             \/ pc'[e] \in {"published", "recorded"} /\ tx'[e].op = intent.op
      BY <1>3, <2>1, <2>2, <3>1, <3>2, HolderStep
    <3>4. QED
      BY <1>3, <2>2, <2>3, <3>3
  <2>6. QED
    BY <2>4, <2>5
<1>6. QED
  BY <1>4, <1>5

-----------------------------------------------------------------------------
(* The theorems.                                                           *)

LEMMA IInvStep == IInv /\ [Next]_vars => IInv'
<1> SUFFICES ASSUME IInv, [Next]_vars PROVE IInv'
  OBVIOUS
<1> USE DEF IInv
<1>1. TypeOK'
  BY TypeStep
<1>2. CASE UNCHANGED vars
  <2> USE <1>2 DEF vars, remoteVars, deviceVars, procVars, ghosts, bounds, At
  <2>1. LockSound' /\ RepairSound'
    BY DEF LockSound, LockOf, RepairSound, RepairOf, Uploading, Up
  <2>2. IdsSound' /\ IntentSound'
    BY DEF IdsSound, IntentSound, Uploading, Up
  <2>3. OnceSound'
    BY DEF OnceSound, PublishedOnce, Unretired, Receipts
  <2>4. QED
    BY <1>1, <2>1, <2>2, <2>3
<1>3. CASE Next
  <2>1. PICK d \in Device : StepOf(d)
    BY <1>3 DEF Next, StepOf
  <2>2. QED
    BY <1>1, <2>1, LockStep, RepairStep, IdsStep, IntentStep, OnceStep
<1>4. QED
  BY <1>2, <1>3

LEMMA Inductive == Spec => []IInv
BY InitInv, IInvStep, PTL DEF Spec

(* The shared dataset and every device's state keep their types: an        *)
(* operation inside a transaction has its journal, an intent names groups, *)
(* and the counters stay within their bounds.                              *)
THEOREM TypeCorrect == Spec => []TypeOK
<1>1. IInv => TypeOK
  BY DEF IInv
<1>2. QED
  BY <1>1, Inductive, PTL

(* A Full Sync that ends without a fault leaves an index that describes    *)
(* the payload and no intent, unless a recovery that does not take the     *)
(* commit lock restored payload under its hands                            *)
(* (_publish_authoritative_index, _recover).                               *)
THEOREM FullSyncAlwaysRepairs == Spec => FullSyncRepairs
<1>1. IInv /\ [Next]_vars => [FullSyncRepairsStep]_vars
  <2> SUFFICES ASSUME IInv, [Next]_vars, ~UNCHANGED vars PROVE FullSyncRepairsStep
    OBVIOUS
  <2>1. PICK d \in Device : StepOf(d)
    BY DEF Next, StepOf
  <2>2. QED
    BY <2>1, RepairsStep DEF IInv
<1>2. QED
  BY <1>1, Inductive, PTL DEF Spec, FullSyncRepairs

(* No transaction is published twice, whichever device finds its intent    *)
(* and however often the finisher dies, while no Full Sync has begun or at *)
(* most one step failed: the receipts of the index stop                    *)
(* _recover_remote_intent, and only a Full Sync drops them.                *)
THEOREM NeverPublishedTwice == Spec => [](fulls = 0 \/ faults <= 1 => PublishedOnce)
<1>1. IInv => (fulls = 0 \/ faults <= 1 => PublishedOnce)
  BY DEF IInv, OnceSound
<1>2. QED
  BY <1>1, Inductive, PTL


-----------------------------------------------------------------------------
(* Without faults: the inductive invariant.                                *)

\* Without faults and Full Syncs.
Calm == fulls = 0 /\ faults = 0

\* A journal that recovery cannot resolve.
Stranded(d) == tx[d] # NoTx /\ (pc[d] = "idle" \/ (pc[d] = "rollback" /\ cause[d] = "recover"))
Running(d)  == pc[d] \in InTransaction /\ ~Stranded(d)
\* ... and its baseline is still that of its scan.
Unrecorded(d) == Running(d) /\ pc[d] \notin {"recorded", "closed"}
Planning(d)   == pc[d] \in {"scanned", "locked", "begun"}

\* In the history p, version w is v or was made on top of it.
On(p, w, v) == w = v \/ v \in p[w]

\* A version is newer than all it was made on top of, and on top of what those were.
PastSound == \A w \in Version : \A v \in past[w] :
    v < w /\ w <= edits /\ past[v] \subseteq past[w]

\* No copy holds a version that was not made yet.
MadeOf(d, g) == /\ local[d][g] <= edits /\ base[d][g] <= edits
                /\ plan[d].local[g] <= edits /\ plan[d].remote[g] <= edits
                /\ tx[d] # NoTx => tx[d].local[g] <= edits /\ tx[d].remote[g] <= edits
MadeSound == \A g \in Group : payload[g] <= edits /\ \A d \in Device : MadeOf(d, g)

\* Only a broken download is recovered, and only before its receipt.
CauseOf(d) ==
    /\ pc[d] = "restoring" => cause[d] = "abort"
    /\ pc[d] = "rollback" => cause[d] \in {"abort", "recover"}
    /\ pc[d] \notin InTransaction \cup {"idle"} => tx[d] = NoTx
    /\ Running(d) /\ pc[d] # "closed" => tx[d].op = plan[d].op
    /\ receipt[d] <= ops
    /\ Planning(d) => receipt[d] < plan[d].op
    /\ Unrecorded(d) \/ Stranded(d) => receipt[d] # tx[d].op
    /\ pc[d] \in {"verified", "published", "recorded", "closed"} => todo[d] = {}
    /\ pc[d] \in {"rollback", "restoring"} /\ Running(d) /\ tx[d].up # {} => lock = d
CauseSound == \A d \in Device : CauseOf(d)

\* A transaction carries out the three-way decision about what was scanned.
TxOf(d) ==
    /\ Planning(d) =>
        /\ Up(d) \cup Down(d) # {}
        /\ \A g \in Group : plan[d].local[g] = plan[d].remote[g] => base[d][g] = plan[d].local[g]
    /\ tx[d] # NoTx => tx[d].up \cap tx[d].down = {} /\ tx[d].up \cup tx[d].down # {}
    /\ Unrecorded(d) =>
        /\ tx[d].up = Uploads(base[d], tx[d].local, tx[d].remote)
        /\ tx[d].down = Downloads(base[d], tx[d].local, tx[d].remote)
        /\ \A g \in Group : tx[d].local[g] = tx[d].remote[g] => base[d][g] = tx[d].local[g]
        /\ \A g \in tx[d].up : tx[d].remote[g] \in past[tx[d].local[g]]
    /\ pc[d] \in {"recorded", "closed"} => \A g \in tx[d].down : base[d][g] = tx[d].remote[g]
TxSound == \A d \in Device : TxOf(d)

\* The payload of the groups it uploads is the uploader's alone.
PayloadOf(d) == Unrecorded(d) => \A g \in tx[d].up :
    payload[g] = IF (pc[d] = "restoring") = (g \in todo[d]) THEN tx[d].local[g]
                 ELSE tx[d].remote[g]
PayloadSound == \A d \in Device : PayloadOf(d)

\* The save of a group is x, or was made on top of it since the scan.
Newer(d, g, v) == v > tx[d].local[g] /\ v > tx[d].remote[g]
From(d, g, x)  == /\ On(past, local[d][g], x)
                  /\ \A v \in Version : On(past, local[d][g], v) => On(past, x, v) \/ Newer(d, g, v)

\* The save of a group that is not downloaded was made on top of what was scanned;
\* that of one that is, on top of the side the transaction has put there.
LocalOf(d, g) ==
    /\ Running(d) /\ g \notin tx[d].down => On(past, local[d][g], tx[d].local[g])
    /\ pc[d] \in {"recorded", "closed"} /\ g \in tx[d].down => On(past, local[d][g], tx[d].remote[g])
    /\ Unrecorded(d) /\ g \in tx[d].down =>
        /\ pc[d] # "restoring" => From(d, g, IF g \in todo[d] THEN tx[d].local[g] ELSE tx[d].remote[g])
        /\ pc[d] = "restoring" /\ g \notin todo[d] => From(d, g, tx[d].local[g])
        /\ pc[d] = "restoring" /\ g \in todo[d] =>
             \A v \in Version : On(past, local[d][g], v) => On(past, tx[d].remote[g], v) \/ v \in raced
    /\ ~Stranded(d) /\ (tx[d] = NoTx \/ g \notin tx[d].down \/ pc[d] \in {"recorded", "closed"}) =>
         On(past, local[d][g], base[d][g])
LocalSound == \A d \in Device : \A g \in Group : LocalOf(d, g)

StrandedOf(d) == Stranded(d) =>
    todo[d] = {} /\ \E g \in tx[d].down : Newer(d, g, local[d][g])
StrandedSound == \A d \in Device : StrandedOf(d)

\* The index describes the payload but where an upload is under way, or was left.
AnyStranded == \E d \in Device : Stranded(d)
Uploader(d, g) == lock = d /\ Unrecorded(d) /\ pc[d] # "published" /\ g \in tx[d].up
Covers(d) == /\ lock = d /\ intent.op = plan[d].op
             /\ pc[d] = "begun" \/ (Running(d) /\ pc[d] # "closed")
HeadOf(d) == /\ pc[d] = "begun" => \A g \in Up(d) : head[g].ver = payload[g]
             /\ \A g \in Group : Uploader(d, g) => head[g].ver = tx[d].remote[g]
IndexSound ==
    /\ AnyStranded \/ \A g \in Group : head[g].ver = payload[g] \/ \E d \in Device : Uploader(d, g)
    /\ AnyStranded \/ intent = NoIntent \/ \E d \in Device : Covers(d)
    /\ \A d \in Device : HeadOf(d)

\* A version that a device made and has not shared: its save contains it, and neither
\* its baseline does nor what it is downloading.
Own(d, g, v) ==
    /\ On(past, local[d][g], v) /\ ~On(past, base[d][g], v)
    /\ tx[d] # NoTx /\ g \in tx[d].down => ~On(past, tx[d].remote[g], v)
Sharing(d, g) == (Unrecorded(d) /\ g \in tx[d].up) \/ Stranded(d)

OwnOf(d, g, v) == Own(d, g, v) =>
    /\ \A e \in Device : Own(e, g, v) => e = d
    /\ On(past, payload[g], v) => Sharing(d, g)
OwnSound == \A d \in Device : \A g \in Group : \A v \in Version : OwnOf(d, g, v)

\* The payload holds every version, or a device for which it is its own.
HeldBy(g, v) == On(past, payload[g], v) \/ \E d \in Device : Own(d, g, v)
Held == \A v \in (1..edits) \ raced : \E g \in Group : HeldBy(g, v)

Peace == /\ PastSound /\ MadeSound /\ CauseSound /\ TxSound /\ PayloadSound
         /\ LocalSound /\ StrandedSound /\ IndexSound /\ OwnSound /\ Held
CalmInv == IInv /\ (Calm => Peace)

-----------------------------------------------------------------------------
(* The order of versions.                                                  *)

LEMMA Order ==
    ASSUME TypeOK, PastSound
    PROVE  /\ \A x, y \in Version : On(past, x, y) => y = x \/ y < x
           /\ \A x, y, z \in Version : On(past, x, y) /\ On(past, y, z) => On(past, x, z)
           /\ \A x, y \in Version : On(past, x, y) /\ On(past, y, x) => x = y
           /\ \A x \in Version : On(past, x, x)
<1>1. \A x, y \in Version : On(past, x, y) => y = x \/ y < x
  BY DEF PastSound, On
<1>2. \A x, y, z \in Version : On(past, x, y) /\ On(past, y, z) => On(past, x, z)
  BY DEF PastSound, On
<1>3. \A x, y \in Version : On(past, x, y) /\ On(past, y, x) => x = y
  BY <1>1 DEF Version
<1>4. QED
  BY <1>1, <1>2, <1>3 DEF On

(* Versions are versions, on either side and in every record.              *)
LEMMA VersionType ==
    ASSUME TypeOK, NEW g \in Group
    PROVE  /\ payload[g] \in Version
           /\ \A d \in Device :
                /\ local[d][g] \in Version /\ base[d][g] \in Version
                /\ plan[d].local[g] \in Version /\ plan[d].remote[g] \in Version
                /\ tx[d] # NoTx => tx[d].local[g] \in Version /\ tx[d].remote[g] \in Version
<1>1. payload[g] \in Version
  BY DEF TypeOK, Manifest
<1>2. ASSUME NEW d \in Device
      PROVE  /\ local[d][g] \in Version /\ base[d][g] \in Version
             /\ plan[d].local[g] \in Version /\ plan[d].remote[g] \in Version
             /\ tx[d] # NoTx => tx[d].local[g] \in Version /\ tx[d].remote[g] \in Version
  <2>1. local[d] \in Manifest /\ base[d] \in Manifest
    BY DEF TypeOK
  <2>2. QED
    BY <2>1, PlanType DEF Manifest
<1>3. QED
  BY <1>1, <1>2

-----------------------------------------------------------------------------
(* What a device's steps do when nothing fails.                            *)

\* No save changes, on either side.
Still == UNCHANGED <<payload, local, past, raced, edits>>
SameTx(d) == /\ tx[d] # NoTx /\ tx'[d] # NoTx /\ tx'[d].op = tx[d].op
             /\ tx'[d].up = tx[d].up /\ tx'[d].down = tx[d].down
             /\ tx'[d].local = tx[d].local /\ tx'[d].remote = tx[d].remote
Same(d)   == /\ plan'[d] = plan[d] /\ base'[d] = base[d] /\ receipt'[d] = receipt[d]
             /\ ops' = ops /\ lock' = lock
\* The operation ends.
Ends(d)   == /\ pc'[d] = "idle" /\ todo'[d] = {} /\ plan'[d] = NoPlan
             /\ base'[d] = base[d] /\ receipt'[d] = receipt[d] /\ ops' = ops
\* Its intent is not left behind.
Retires(d) == intent' = NoIntent \/ intent.op # plan[d].op

Scans(d) ==
    /\ pc[d] = "idle" /\ tx[d] = NoTx
    /\ Uploads(base[d], local[d], payload) \cup Downloads(base[d], local[d], payload) # {}
    /\ ops' = ops + 1
    /\ plan'[d].op = ops' /\ plan'[d].local = local[d] /\ plan'[d].remote = payload
    /\ pc'[d] = "scanned"
    /\ tx'[d] = tx[d] /\ base'[d] = base[d] /\ receipt'[d] = receipt[d] /\ todo'[d] = todo[d]
    /\ Still
Refreshes(d) ==
    /\ pc[d] = "idle" /\ tx[d] = NoTx
    /\ Uploads(base[d], local[d], payload) \cup Downloads(base[d], local[d], payload) = {}
    /\ base'[d] = Reconciled(base[d], local[d], payload)
    /\ receipt'[d] = 0
    /\ pc'[d] = pc[d] /\ tx'[d] = tx[d] /\ plan'[d] = plan[d] /\ todo'[d] = todo[d] /\ ops' = ops
    /\ Still
Plans(d) ==
    /\ Planning(d) /\ Planning(d)' /\ pc[d] # "begun"
    /\ tx'[d] = tx[d] /\ plan'[d] = plan[d] /\ base'[d] = base[d] /\ receipt'[d] = receipt[d]
    /\ todo'[d] = todo[d] /\ ops' = ops /\ Still
    /\ pc'[d] = "begun" => \A g \in Up(d) : head[g].ver = payload[g]
Quits(d) ==
    /\ Planning(d) /\ Ends(d) /\ (pc[d] = "begun" => Retires(d)) /\ tx'[d] = tx[d] /\ Still
Prepares(d) ==
    /\ pc[d] = "begun" /\ local[d] = plan[d].local /\ payload = plan[d].remote
    /\ tx'[d] # NoTx /\ tx'[d].op = plan[d].op /\ tx'[d].up = Up(d) /\ tx'[d].down = Down(d)
    /\ tx'[d].local = plan[d].local /\ tx'[d].remote = plan[d].remote
    /\ todo'[d] = Up(d) \cup Down(d)
    /\ pc'[d] = "promoting"
    /\ Same(d) /\ Still
PromotesRemote(d, g) ==
    /\ pc[d] = "promoting" /\ pc'[d] = "promoting" /\ g \in todo[d] \cap tx[d].up
    /\ payload[g] = tx[d].remote[g]
    /\ payload'[g] = tx[d].local[g] /\ \A h \in Group : h # g => payload'[h] = payload[h]
    /\ todo'[d] = todo[d] \ {g}
    /\ SameTx(d) /\ tx'[d] = tx[d] /\ Same(d) /\ UNCHANGED <<local, past, raced, edits>>
PromotesLocal(d, g) ==
    /\ pc[d] = "promoting" /\ pc'[d] = "promoting" /\ g \in todo[d] \cap tx[d].down
    /\ local[d][g] = tx[d].local[g]
    /\ local'[d][g] = tx[d].remote[g] /\ \A h \in Group : h # g => local'[d][h] = local[d][h]
    /\ \A e \in Device : e # d => local'[e] = local[e]
    /\ todo'[d] = todo[d] \ {g}
    /\ SameTx(d) /\ tx'[d] = tx[d] /\ Same(d) /\ UNCHANGED <<payload, past, raced, edits>>
Aborts(d) ==
    /\ pc[d] = "promoting" /\ pc'[d] = "rollback" /\ cause'[d] = "abort"
    /\ todo'[d] = todo[d] /\ SameTx(d) /\ Same(d) /\ Still
Advances(d) ==
    /\ \/ pc[d] = "promoting" /\ pc'[d] = "verified"
       \/ pc[d] = "verified" /\ pc'[d] = "published" /\ Publish(d)
       \/ pc[d] = "recorded" /\ pc'[d] = "closed" /\ (tx[d].up # {} => intent' = NoIntent)
    /\ pc[d] = "promoting" => todo[d] = {}
    /\ todo'[d] = todo[d] /\ SameTx(d) /\ Same(d) /\ Still
Records(d) ==
    /\ pc[d] = "published" /\ pc'[d] = "recorded"
    /\ base'[d] = Reconciled(base[d], tx[d].local, tx[d].remote)
    /\ receipt'[d] = tx[d].op
    /\ SameTx(d) /\ plan'[d] = plan[d] /\ todo'[d] = todo[d] /\ ops' = ops /\ lock' = lock
    /\ Still
Finishes(d) ==
    /\ pc[d] = "closed" /\ tx[d] # NoTx /\ tx'[d] = NoTx /\ Ends(d) /\ Still
Recovers(d) ==
    /\ pc[d] = "idle" /\ tx[d] # NoTx /\ pc'[d] = "rollback" /\ cause'[d] = "recover"
    /\ tx'[d] = tx[d] /\ todo'[d] = todo[d] /\ Same(d) /\ Still
Strands(d) ==
    /\ \/ pc[d] = "rollback" /\ ThirdVersion(d)
       \/ pc[d] = "restoring" /\ todo[d] = {} /\ ~InPlace(d)
    /\ tx[d] # NoTx /\ tx'[d] = tx[d] /\ Ends(d) /\ Still
Withdraws(d) ==
    /\ pc[d] = "rollback" /\ todo[d] = tx[d].up \cup tx[d].down
    /\ tx[d] # NoTx /\ tx'[d] = NoTx /\ Ends(d) /\ Retires(d) /\ Still
PlansRollback(d) ==
    /\ pc[d] = "rollback" /\ pc'[d] = "restoring" /\ cause'[d] = cause[d] /\ ~ThirdVersion(d)
    /\ todo'[d] = {g \in tx[d].up : payload[g] # tx[d].remote[g]}
                   \cup {g \in tx[d].down : local[d][g] # tx[d].local[g]}
    /\ SameTx(d) /\ tx'[d] = tx[d] /\ Same(d) /\ Still
RestoresRemote(d, g) ==
    /\ pc[d] = "restoring" /\ pc'[d] = "restoring" /\ g \in todo[d] \cap tx[d].up
    /\ cause'[d] = cause[d]
    /\ payload'[g] = tx[d].remote[g] /\ \A h \in Group : h # g => payload'[h] = payload[h]
    /\ todo'[d] = todo[d] \ {g}
    /\ SameTx(d) /\ tx'[d] = tx[d] /\ Same(d) /\ UNCHANGED <<local, past, raced, edits>>
RestoresLocal(d, g) ==
    /\ pc[d] = "restoring" /\ pc'[d] = "restoring" /\ g \in todo[d] \cap tx[d].down
    /\ cause'[d] = cause[d]
    /\ local'[d][g] = tx[d].local[g] /\ \A h \in Group : h # g => local'[d][h] = local[d][h]
    /\ \A e \in Device : e # d => local'[e] = local[e]
    /\ todo'[d] = todo[d] \ {g}
    /\ SameTx(d) /\ tx'[d] = tx[d] /\ Same(d) /\ UNCHANGED <<payload, past, raced, edits>>
Restores(d) ==
    /\ pc[d] = "restoring" /\ todo[d] = {} /\ InPlace(d)
    /\ tx[d] # NoTx /\ tx'[d] = NoTx /\ Ends(d) /\ Retires(d) /\ Still
Edits(d, g) ==
    /\ edits' = edits + 1 /\ edits' \in Version
    /\ local'[d][g] = edits' /\ \A h \in Group : h # g => local'[d][h] = local[d][h]
    /\ \A e \in Device : e # d => local'[e] = local[e]
    /\ past'[edits'] = past[local[d][g]] \cup {local[d][g]}
    /\ \A w \in Version : w # edits' => past'[w] = past[w]
    /\ raced' = IF pc[d] = "restoring" /\ g \in todo[d] \cap tx[d].down
                THEN raced \cup {edits'} ELSE raced
    /\ pc'[d] = pc[d] /\ cause'[d] = cause[d] /\ tx'[d] = tx[d] /\ todo'[d] = todo[d] /\ Same(d)
    /\ payload' = payload

MoveOf(d) ==
    \/ Scans(d) \/ Refreshes(d) \/ Plans(d) \/ Quits(d) \/ Prepares(d) \/ Aborts(d)
    \/ Advances(d) \/ Records(d) \/ Finishes(d) \/ Recovers(d) \/ Strands(d) \/ Withdraws(d)
    \/ PlansRollback(d) \/ Restores(d)
    \/ \E g \in Group : \/ PromotesRemote(d, g) \/ PromotesLocal(d, g)
                        \/ RestoresRemote(d, g) \/ RestoresLocal(d, g) \/ Edits(d, g)

(* Without a Full Sync nobody rebuilds the index, and without a fault      *)
(* nothing crashes.                                                        *)
LEMMA NoFull ==
    ASSUME TypeOK, LockSound, fulls = 0, NEW d \in Device
    PROVE  full[d] = FALSE /\ pc[d] \notin {"rebuild", "rescanned", "rebuilt"}
BY DEF TypeOK, LockSound, LockOf

LEMMA CalmBefore ==
    ASSUME TypeOK, NEW d \in Device, StepOf(d), Calm'
    PROVE  Calm /\ ~FullStart(d) /\ ~Crash(d) /\ ~Fail(d)
<1>1. Calm
  BY CountersGrow DEF Calm
<1>2. ~FullStart(d) /\ ~Crash(d) /\ ~Fail(d)
  BY <1>1 DEF Calm, FullStart, Crash, Fail
<1>3. QED
  BY <1>1, <1>2

LEMMA EndsMoves ==
    ASSUME TypeOK, NEW d \in Device, Leave(d), UNCHANGED <<base, receipt, ops>>
    PROVE  Ends(d)
BY DEF Leave, Go, Ends, TypeOK

LEMMA BeginningMoves ==
    ASSUME TypeOK, LockSound, Calm, NEW d \in Device, Beginning(d)
    PROVE  MoveOf(d)
<1> USE DEF remoteVars, deviceVars, ghosts, bounds, procVars, Go, At, Still, Same
<1>t. /\ DOMAIN pc = Device /\ DOMAIN plan = Device /\ DOMAIN base = Device
      /\ DOMAIN receipt = Device
  BY DEF TypeOK
<1>f. full[d] = FALSE
  BY NoFull DEF Calm
<1>1. CASE Scan(d)
  <2>1. plan'[d] = [op |-> ops', local |-> local[d], remote |-> payload]
    BY <1>1, <1>t DEF Scan
  <2>2. Scans(d)
    BY <1>1, <1>t, <2>1 DEF Scan, Scans
  <2>3. QED
    BY <2>2 DEF MoveOf
<1>2. CASE NothingToMove(d)
  <2>1. Refreshes(d)
    BY <1>2, <1>t, <1>f DEF NothingToMove, Refreshes
  <2>2. QED
    BY <2>1 DEF MoveOf
<1>3. CASE SkipLock(d) \/ TakeLock(d) \/ PublishForward(d) \/ RetireIntent(d)
  <2>1. Plans(d)
    BY <1>3, <1>t DEF SkipLock, TakeLock, PublishForward, RetireIntent, Plans, Planning
  <2>2. QED
    BY <2>1 DEF MoveOf
<1>4. CASE PreserveIntent(d) \/ RefuseIntent(d)
  <2>1. Quits(d)
    BY <1>4, EndsMoves DEF PreserveIntent, RefuseIntent, Quits, Planning
  <2>2. QED
    BY <2>1 DEF MoveOf
<1>5. CASE CheckIndex(d)
  <2>1. CASE Leave(d)
    <3>1. Quits(d)
      BY <1>5, <2>1, EndsMoves DEF CheckIndex, Quits, Planning
    <3>2. QED
      BY <3>1 DEF MoveOf
  <2>2. CASE ~Leave(d)
    <3>1. Plans(d)
      BY <1>5, <1>t, <1>f, <2>2 DEF CheckIndex, Plans, Planning
    <3>2. QED
      BY <3>1 DEF MoveOf
  <2>3. QED
    BY <2>1, <2>2
<1>6. QED
  BY <1>1, <1>2, <1>3, <1>4, <1>5 DEF Beginning

LEMMA ApplyingMoves ==
    ASSUME TypeOK, LockSound, Calm, NEW d \in Device, Applying(d)
    PROVE  MoveOf(d)
<1> USE DEF remoteVars, deviceVars, ghosts, bounds, procVars, Go, At, Still, Same
<1>t. /\ DOMAIN pc = Device /\ DOMAIN todo = Device /\ DOMAIN tx = Device
      /\ DOMAIN cause = Device /\ DOMAIN payload = Group /\ DOMAIN local = Device
      /\ DOMAIN local[d] = Group
  BY DEF TypeOK, Manifest
<1>p. pc[d] \in InTransaction => tx[d] # NoTx /\ tx[d] \in Txs
  BY DEF TypeOK
<1>s. pc[d] \in {"promoting", "verified"} => pc[d] \in InTransaction
  BY DEF InTransaction
<1>1. CASE Prepare(d)
  <2>1. tx'[d] = [op |-> plan[d].op, phase |-> "applying", up |-> Up(d), down |-> Down(d),
                  local |-> plan[d].local, remote |-> plan[d].remote]
    BY <1>1, <1>t DEF Prepare
  <2>2. tx'[d] \in Txs
    BY <2>1, PlanType DEF Txs
  <2>3. /\ tx'[d] # NoTx /\ tx'[d].op = plan[d].op /\ tx'[d].up = Up(d) /\ tx'[d].down = Down(d)
        /\ tx'[d].local = plan[d].local /\ tx'[d].remote = plan[d].remote
    BY <2>1, <2>2
  <2>4. todo'[d] = Up(d) \cup Down(d) /\ pc'[d] = "promoting"
    BY <1>1, <1>t DEF Prepare
  <2>5. Prepares(d)
    BY <1>1, <2>3, <2>4 DEF Prepare, Prepares, Unchanged
  <2>6. QED
    BY <2>5 DEF MoveOf
<1>2. CASE StagingChanged(d)
  <2>1. Retires(d)
    BY <1>2, NoFull DEF StagingChanged, Abandon, Retires, Calm
  <2>2. Quits(d)
    BY <1>2, <2>1, EndsMoves DEF StagingChanged, Quits, Planning
  <2>3. QED
    BY <2>2 DEF MoveOf
<1>3. ASSUME NEW g \in Group, PromoteRemote(d, g) PROVE MoveOf(d)
  <2>1. CASE payload[g] = tx[d].remote[g]
    <3>1. PromotesRemote(d, g)
      BY <1>3, <1>t, <1>p, <1>s, <2>1 DEF PromoteRemote, PromotesRemote, SameTx
    <3>2. QED
      BY <3>1 DEF MoveOf
  <2>2. CASE payload[g] # tx[d].remote[g]
    <3>1. Aborts(d)
      BY <1>3, <1>t, <1>p, <1>s, <2>2 DEF PromoteRemote, Abort, Aborts, SameTx
    <3>2. QED
      BY <3>1 DEF MoveOf
  <2>3. QED
    BY <2>1, <2>2
<1>4. ASSUME NEW g \in Group, PromoteLocal(d, g) PROVE MoveOf(d)
  <2>1. CASE local[d][g] = tx[d].local[g]
    <3>1. PromotesLocal(d, g)
      BY <1>4, <1>t, <1>p, <1>s, <2>1 DEF PromoteLocal, PromotesLocal, SameTx
    <3>2. QED
      BY <3>1 DEF MoveOf
  <2>2. CASE local[d][g] # tx[d].local[g]
    <3>1. Aborts(d)
      BY <1>4, <1>t, <1>p, <1>s, <2>2 DEF PromoteLocal, Abort, Aborts, SameTx
    <3>2. QED
      BY <3>1 DEF MoveOf
  <2>3. QED
    BY <2>1, <2>2
<1>5. CASE FinalVerify(d)
  <2>1. tx[d] # NoTx /\ tx[d] \in Txs /\ tx'[d] = [tx[d] EXCEPT !.phase = "promoted"]
    BY <1>5, <1>t, <1>p, <1>s DEF FinalVerify
  <2>2. tx'[d] \in Txs
    BY <2>1 DEF Txs
  <2>6. /\ tx'[d].op = tx[d].op /\ tx'[d].up = tx[d].up /\ tx'[d].down = tx[d].down
        /\ tx'[d].local = tx[d].local /\ tx'[d].remote = tx[d].remote
    BY <2>1 DEF Txs
  <2>3. SameTx(d)
    BY <2>1, <2>2, <2>6 DEF SameTx
  <2>4. Advances(d) \/ Aborts(d)
    BY <1>5, <1>t, <2>3 DEF FinalVerify, Abort, Advances, Aborts
  <2>5. QED
    BY <2>4 DEF MoveOf
<1>6. QED
  BY <1>1, <1>2, <1>3, <1>4, <1>5 DEF Applying

LEMMA EndingMoves ==
    ASSUME TypeOK, LockSound, Calm, NEW d \in Device, Ending(d)
    PROVE  MoveOf(d)
<1> USE DEF remoteVars, deviceVars, ghosts, bounds, procVars, Go, At, Still, Same
<1>t. /\ DOMAIN pc = Device /\ DOMAIN tx = Device /\ DOMAIN base = Device
      /\ DOMAIN receipt = Device
  BY DEF TypeOK
<1>f. full[d] = FALSE /\ pc[d] \notin {"rebuild", "rescanned", "rebuilt"}
  BY NoFull DEF Calm
<1>p. pc[d] \in {"verified", "published", "recorded", "closed"} => tx[d] # NoTx
  BY DEF TypeOK, InTransaction
<1>1. CASE Publish(d) \/ Close(d)
  <2>1. Advances(d)
    BY <1>1, <1>t, <1>p, <1>f DEF Publish, Close, Advances, SameTx
  <2>2. QED
    BY <2>1 DEF MoveOf
<1>2. CASE WriteState(d)
  <2>1. Records(d)
    BY <1>2, <1>t, <1>p DEF WriteState, Records, SameTx
  <2>2. QED
    BY <2>1 DEF MoveOf
<1>3. CASE FinalizeTx(d)
  <2>1. Finishes(d)
    BY <1>3, <1>t, <1>p, <1>f, EndsMoves DEF FinalizeTx, Finishes
  <2>2. QED
    BY <2>1 DEF MoveOf
<1>4. QED
  BY <1>1, <1>2, <1>3, <1>f DEF Ending, Rescan, Rebuild, FullEnd

LEMMA UndoingMoves ==
    ASSUME TypeOK, LockSound, CauseSound, Calm, NEW d \in Device, Undoing(d)
    PROVE  MoveOf(d)
<1> USE DEF remoteVars, deviceVars, ghosts, bounds, procVars, Go, At, Still, Same
<1>t. /\ DOMAIN pc = Device /\ DOMAIN todo = Device /\ DOMAIN tx = Device
      /\ DOMAIN cause = Device /\ DOMAIN payload = Group /\ DOMAIN local = Device
      /\ DOMAIN local[d] = Group
  BY DEF TypeOK, Manifest
<1>p. pc[d] \in {"rollback", "restoring"} => tx[d] # NoTx
  BY DEF TypeOK, InTransaction
<1>1. CASE Recover(d)
  <2>1. Stranded(d) /\ receipt[d] # tx[d].op
    BY <1>1 DEF Recover, Stranded, CauseSound, CauseOf
  <2>2. Recovers(d)
    BY <1>1, <1>t, <2>1 DEF Recover, Recovers
  <2>3. QED
    BY <2>2 DEF MoveOf
<1>2. CASE Withdraw(d)
  <2>1. Retires(d)
    BY <1>2, NoFull DEF Withdraw, Abandon, Retires, Calm
  <2>2. Withdraws(d)
    BY <1>2, <1>t, <1>p, <2>1, EndsMoves DEF Withdraw, Withdraws, Untouched
  <2>3. QED
    BY <2>2 DEF MoveOf
<1>3. CASE PlanRollback(d)
  <2>1. CASE ThirdVersion(d)
    <3>1. Strands(d)
      BY <1>3, <1>p, <2>1, EndsMoves DEF PlanRollback, Strands
    <3>2. QED
      BY <3>1 DEF MoveOf
  <2>2. CASE ~ThirdVersion(d)
    <3>1. PlansRollback(d)
      BY <1>3, <1>t, <1>p, <2>2 DEF PlanRollback, PlansRollback, SameTx
    <3>2. QED
      BY <3>1 DEF MoveOf
  <2>3. QED
    BY <2>1, <2>2
<1>4. CASE Restored(d)
  <2>1. cause[d] = "abort"
    BY <1>4 DEF Restored, CauseSound, CauseOf
  <2>2. CASE InPlace(d)
    <3>1. Retires(d)
      BY <1>4, <2>1, <2>2, NoFull DEF Restored, Abandon, Retires, Calm
    <3>2. Restores(d)
      BY <1>4, <1>t, <1>p, <2>1, <2>2, <3>1, EndsMoves DEF Restored, Restores
    <3>3. QED
      BY <3>2 DEF MoveOf
  <2>3. CASE ~InPlace(d)
    <3>1. Strands(d)
      BY <1>4, <1>p, <2>1, <2>3, EndsMoves DEF Restored, Strands
    <3>2. QED
      BY <3>1 DEF MoveOf
  <2>4. QED
    BY <2>2, <2>3
<1>5. ASSUME NEW g \in Group, RestoreRemote(d, g) PROVE MoveOf(d)
  <2>1. RestoresRemote(d, g)
    BY <1>5, <1>t, <1>p DEF RestoreRemote, RestoresRemote, SameTx
  <2>2. QED
    BY <2>1 DEF MoveOf
<1>6. ASSUME NEW g \in Group, RestoreLocal(d, g) PROVE MoveOf(d)
  <2>1. RestoresLocal(d, g)
    BY <1>6, <1>t, <1>p DEF RestoreLocal, RestoresLocal, SameTx
  <2>2. QED
    BY <2>1 DEF MoveOf
<1>7. QED
  BY <1>1, <1>2, <1>3, <1>4, <1>5, <1>6 DEF Undoing

LEMMA EditMoves ==
    ASSUME TypeOK, NEW d \in Device, NEW g \in Group, Edit(d, g)
    PROVE  Edits(d, g)
<1> USE DEF remoteVars, deviceVars, ghosts, bounds, procVars, At, Same
<1>t. /\ DOMAIN local = Device /\ DOMAIN local[d] = Group /\ DOMAIN past = Version
  BY DEF TypeOK, Manifest
<1>1. edits' = edits + 1 /\ edits' \in Version
  <2>1. edits \in 0..MaxEdits /\ edits < MaxEdits /\ edits' = edits + 1
    BY DEF Edit, TypeOK
  <2>2. QED
    BY <2>1 DEF Version
<1>2. QED
  BY <1>t, <1>1 DEF Edit, Edits

LEMMA CalmMoves ==
    ASSUME TypeOK, LockSound, CauseSound, NEW d \in Device, StepOf(d), Calm'
    PROVE  MoveOf(d)
<1>1. Calm /\ (Working(d) \/ \E g \in Group : Edit(d, g))
  BY CalmBefore DEF StepOf
<1>2. Working(d) => MoveOf(d)
  BY <1>1, BeginningMoves, ApplyingMoves, EndingMoves, UndoingMoves DEF Working
<1>3. (\E g \in Group : Edit(d, g)) => MoveOf(d)
  BY EditMoves DEF MoveOf
<1>4. QED
  BY <1>1, <1>2, <1>3

(* What a device does leaves the others as they are.                       *)
Frame(d) == \A e \in Device : e # d =>
    SameFor(e) /\ local'[e] = local[e] /\ (lock = e => lock' = e)
CalmStep(d) == MoveOf(d) /\ Frame(d)

LEMMA CalmStepIs ==
    ASSUME TypeOK, LockSound, CauseSound, NEW d \in Device, StepOf(d), Calm'
    PROVE  CalmStep(d)
<1>1. MoveOf(d)
  BY CalmMoves
<1>2. \A e \in Device : e # d => local'[e] = local[e]
  BY <1>1 DEF MoveOf, Scans, Refreshes, Plans, Quits, Prepares, Aborts, Advances, Records,
     Finishes, Recovers, Strands, Withdraws, PlansRollback, Restores, PromotesRemote,
     PromotesLocal, RestoresRemote, RestoresLocal, Edits, Still
<1>3. QED
  BY <1>1, <1>2, Others, OthersLock DEF CalmStep, Frame

(* History is only added to: an edit makes one version, on top of what it  *)
(* found.                                                                  *)
LEMMA PastKept ==
    ASSUME TypeOK, PastSound, NEW d \in Device, MoveOf(d)
    PROVE  /\ edits \in Nat /\ edits' \in Nat /\ edits <= edits'
           /\ \A x, y \in Version : x <= edits => (On(past', x, y) <=> On(past, x, y))
           /\ raced \subseteq raced'
           /\ (\E g \in Group : Edits(d, g)) \/ (past' = past /\ edits' = edits /\ raced' = raced)
<1>t. edits \in Nat /\ \A x \in Version : x \in Nat
  BY DEF TypeOK, Version
<1>1. CASE past' = past /\ edits' = edits /\ raced' = raced
  BY <1>t, <1>1
<1>2. ASSUME NEW g \in Group, Edits(d, g)
      PROVE  /\ edits' = edits + 1
             /\ \A x, y \in Version : x <= edits => (On(past', x, y) <=> On(past, x, y))
             /\ raced \subseteq raced'
  BY <1>2, <1>t DEF Edits, On
<1>3. (\E g \in Group : Edits(d, g)) \/ (past' = past /\ edits' = edits /\ raced' = raced)
  BY DEF MoveOf, Scans, Refreshes, Plans, Quits, Prepares, Aborts, Advances, Records,
     Finishes, Recovers, Strands, Withdraws, PlansRollback, Restores, PromotesRemote,
     PromotesLocal, RestoresRemote, RestoresLocal, Still
<1>4. QED
  BY <1>t, <1>1, <1>2, <1>3

LEMMA EditMakes ==
    ASSUME TypeOK, PastSound, MadeSound, NEW d \in Device, NEW g \in Group, Edits(d, g)
    PROVE  \A y \in Version :
             On(past', edits', y) <=> y = edits' \/ On(past, local[d][g], y)
BY DEF Edits, On

LEMMA PastStep ==
    ASSUME TypeOK, PastSound, MadeSound, NEW d \in Device, CalmStep(d)
    PROVE  PastSound'
<1>t. edits \in Nat /\ \A x \in Version : x \in Nat
  BY DEF TypeOK, Version
<1>1. ASSUME NEW g \in Group, Edits(d, g) PROVE PastSound'
  <2>1. local[d][g] \in Version /\ local[d][g] <= edits
    BY VersionType DEF MadeSound, MadeOf
  <2>2. past \in [Version -> SUBSET Version]
    BY DEF TypeOK
  <2>3. ASSUME NEW w \in Version, NEW v \in past'[w]
        PROVE  v < w /\ w <= edits' /\ past'[v] \subseteq past'[w]
    <3>1. CASE w = edits'
      <4>1. v \in past[local[d][g]] \cup {local[d][g]} /\ edits' = edits + 1
        BY <1>1, <2>3, <3>1 DEF Edits
      <4>2. v \in Version /\ v <= local[d][g] /\ past[v] \subseteq past[local[d][g]]
        BY <1>t, <2>1, <2>2, <4>1 DEF PastSound
      <4>3. v # edits' /\ v < edits'
        BY <1>t, <2>1, <4>1, <4>2
      <4>4. past'[v] = past[v] /\ past[local[d][g]] \subseteq past'[w]
        BY <1>1, <3>1, <4>2, <4>3 DEF Edits
      <4>5. QED
        BY <3>1, <4>2, <4>3, <4>4, <1>t
    <3>2. CASE w # edits'
      <4>1. v \in past[w] /\ past'[w] = past[w] /\ edits' = edits + 1
        BY <1>1, <2>3, <3>2 DEF Edits
      <4>2. v \in Version /\ v < w /\ w <= edits /\ past[v] \subseteq past[w]
        BY <2>2, <4>1 DEF PastSound
      <4>3. past'[v] = past[v]
        BY <1>1, <1>t, <4>1, <4>2 DEF Edits
      <4>4. QED
        BY <1>t, <4>1, <4>2, <4>3
    <3>3. QED
      BY <3>1, <3>2
  <2>4. QED
    BY <2>3 DEF PastSound
<1>2. CASE past' = past /\ edits' = edits
  BY <1>2 DEF PastSound
<1>3. QED
  BY <1>1, <1>2, PastKept DEF CalmStep

LEMMA MadeStep ==
    ASSUME TypeOK, TypeOK', PastSound, MadeSound, NEW d \in Device, CalmStep(d)
    PROVE  MadeSound'
<1>t. edits \in Nat /\ edits' \in Nat /\ edits <= edits' /\ \A x \in Version : x \in Nat
  BY PastKept DEF CalmStep, Version
<1> SUFFICES ASSUME NEW g \in Group
             PROVE  payload'[g] <= edits' /\ \A e \in Device : MadeOf(e, g)'
  BY DEF MadeSound
<1>v. /\ payload[g] \in Version /\ payload[g] <= edits
      /\ \A e \in Device :
           /\ local[e][g] \in Version /\ base[e][g] \in Version
           /\ plan[e].local[g] \in Version /\ plan[e].remote[g] \in Version
           /\ tx[e] # NoTx => tx[e].local[g] \in Version /\ tx[e].remote[g] \in Version
           /\ MadeOf(e, g)
  BY VersionType DEF MadeSound
<1>1. ASSUME NEW e \in Device, e # d PROVE MadeOf(e, g)'
  BY <1>1, <1>t, <1>v DEF CalmStep, Frame, SameFor, MadeOf
<1>r. ASSUME NEW l \in Manifest, NEW r \in Manifest
      PROVE  Reconciled(base[d], l, r)[g] \in {base[d][g], l[g], r[g]}
  BY DEF Reconciled
<1>n. NoPlan.local[g] = 0 /\ NoPlan.remote[g] = 0
  BY DEF NoPlan, Origin
<1> DEFINE Small(x) == x \in Version /\ x <= edits'
<1>2. payload'[g] <= edits'
  <2>1. PICK h \in Group : \/ payload' = payload
                           \/ PromotesRemote(d, h) \/ RestoresRemote(d, h)
    BY DEF CalmStep, MoveOf, Scans, Refreshes, Plans, Quits, Prepares, Aborts, Advances,
       Records, Finishes, Recovers, Strands, Withdraws, PlansRollback, Restores,
       PromotesLocal, RestoresLocal, Edits, Still
  <2>2. QED
    BY <1>t, <1>v, <2>1 DEF PromotesRemote, RestoresRemote, SameTx, MadeOf
<1>3. local'[d][g] <= edits'
  <2>1. PICK h \in Group : \/ local' = local
                           \/ PromotesLocal(d, h) \/ RestoresLocal(d, h) \/ Edits(d, h)
    BY DEF CalmStep, MoveOf, Scans, Refreshes, Plans, Quits, Prepares, Aborts, Advances,
       Records, Finishes, Recovers, Strands, Withdraws, PlansRollback, Restores,
       PromotesRemote, RestoresRemote, Still
  <2>2. QED
    BY <1>t, <1>v, <2>1 DEF PromotesLocal, RestoresLocal, Edits, SameTx, MadeOf
<1>4. base'[d][g] <= edits'
  <2>1. \/ base'[d] = base[d]
        \/ base'[d] = Reconciled(base[d], local[d], payload)
        \/ tx[d] # NoTx /\ base'[d] = Reconciled(base[d], tx[d].local, tx[d].remote)
    BY DEF CalmStep, MoveOf, Scans, Refreshes, Plans, Quits, Prepares, Aborts, Advances,
       Records, Finishes, Recovers, Strands, Withdraws, PlansRollback, Restores,
       PromotesRemote, RestoresRemote, PromotesLocal, RestoresLocal, Edits, Same, SameTx, Ends
  <2>2. local[d] \in Manifest /\ payload \in Manifest
        /\ (tx[d] # NoTx => tx[d].local \in Manifest /\ tx[d].remote \in Manifest)
    BY PlanType DEF TypeOK
  <2>3. \/ base'[d][g] \in {base[d][g], local[d][g], payload[g]}
        \/ tx[d] # NoTx /\ base'[d][g] \in {base[d][g], tx[d].local[g], tx[d].remote[g]}
    <3>1. CASE base'[d] = base[d]
      BY <3>1
    <3>2. CASE base'[d] = Reconciled(base[d], local[d], payload)
      BY <1>r, <2>2, <3>2
    <3>3. CASE tx[d] # NoTx /\ base'[d] = Reconciled(base[d], tx[d].local, tx[d].remote)
      BY <1>r, <2>2, <3>3
    <3>4. QED
      BY <2>1, <3>1, <3>2, <3>3
  <2>4. QED
    BY <1>t, <1>v, <2>3 DEF MadeOf
<1>5. plan'[d].local[g] <= edits' /\ plan'[d].remote[g] <= edits'
  <2>1. \/ plan'[d] = plan[d] \/ plan'[d] = NoPlan
        \/ plan'[d].local = local[d] /\ plan'[d].remote = payload
    BY DEF CalmStep, MoveOf, Scans, Refreshes, Plans, Quits, Prepares, Aborts, Advances,
       Records, Finishes, Recovers, Strands, Withdraws, PlansRollback, Restores,
       PromotesRemote, RestoresRemote, PromotesLocal, RestoresLocal, Edits, Same, Ends
  <2>2. QED
    BY <1>t, <1>v, <1>n, <2>1 DEF MadeOf
<1>6. tx'[d] # NoTx => tx'[d].local[g] <= edits' /\ tx'[d].remote[g] <= edits'
  <2>1. \/ tx'[d] = NoTx
        \/ /\ tx[d] # NoTx
           /\ tx'[d].local = tx[d].local /\ tx'[d].remote = tx[d].remote
        \/ tx'[d].local = plan[d].local /\ tx'[d].remote = plan[d].remote
    BY DEF CalmStep, MoveOf, Scans, Refreshes, Plans, Quits, Prepares, Aborts, Advances,
       Records, Finishes, Recovers, Strands, Withdraws, PlansRollback, Restores,
       PromotesRemote, RestoresRemote, PromotesLocal, RestoresLocal, Edits, SameTx
  <2>2. QED
    BY <1>t, <1>v, <2>1 DEF MadeOf
<1>7. MadeOf(d, g)'
  BY <1>3, <1>4, <1>5, <1>6 DEF MadeOf
<1>8. QED
  BY <1>1, <1>2, <1>7

-----------------------------------------------------------------------------
(* The control of a transaction.                                           *)

(* Who uploads holds the commit lock until its baseline is recorded.       *)
LEMMA UploadLocks ==
    ASSUME LockSound, CauseSound, NEW d \in Device, Unrecorded(d), tx[d].up # {}
    PROVE  lock = d
<1>1. pc[d] \in Journalled \/ pc[d] \in {"rollback", "restoring"}
  BY DEF Unrecorded, Running, InTransaction, Journalled
<1>2. pc[d] \in Journalled => lock = d
  BY DEF LockSound, LockOf, Uploading, Journalled
<1>3. QED
  BY <1>1, <1>2 DEF CauseSound, CauseOf, Unrecorded

(* A rollback that finds no third version is not that of a broken download.*)
LEMMA PlansNotStranded ==
    ASSUME TypeOK, NEW d \in Device, StrandedOf(d), PlansRollback(d)
    PROVE  ~Stranded(d)
<1> SUFFICES ASSUME Stranded(d) PROVE FALSE
  OBVIOUS
<1>1. PICK g \in tx[d].down : Newer(d, g, local[d][g])
  BY DEF StrandedOf
<1>2. local[d][g] \in {tx[d].local[g], tx[d].remote[g]}
  BY <1>1 DEF PlansRollback, ThirdVersion
<1>3. g \in Group /\ tx[d] # NoTx
  BY <1>1, PlanType DEF PlansRollback, SameTx
<1>4. tx[d].local[g] \in Nat /\ tx[d].remote[g] \in Nat
  BY <1>3, VersionType DEF Version
<1>5. QED
  BY <1>1, <1>2, <1>4 DEF Newer

LEMMA CauseOwn ==
    ASSUME TypeOK, TypeOK', LockSound, IdsSound, NEW d \in Device, CauseOf(d),
           StrandedOf(d), TxOf(d), MoveOf(d)
    PROVE  CauseOf(d)'
<1> USE DEF CauseOf, Stranded, Running, Unrecorded, Planning, InTransaction
<1>t. ops \in Nat /\ ops' \in Nat /\ receipt[d] \in Nat
  BY DEF TypeOK, Op
<1>1. CASE Scans(d)
  BY <1>1, <1>t DEF Scans
<1>2. CASE Refreshes(d)
  BY <1>2, <1>t DEF Refreshes
<1>3. CASE Plans(d)
  BY <1>3 DEF Plans
<1>4. CASE Quits(d)
  BY <1>4 DEF Quits, Ends
<1>5. CASE Prepares(d)
  BY <1>5, <1>t DEF Prepares, Same
<1>6. CASE Aborts(d)
  <2>1. tx[d].up # {} => lock = d
    BY <1>6 DEF Aborts, LockSound, LockOf, Uploading, Journalled
  <2>2. QED
    BY <1>6, <2>1 DEF Aborts, Same, SameTx
<1>7. CASE Advances(d)
  BY <1>7 DEF Advances, Same, SameTx
<1>8. CASE Records(d)
  <2>1. tx[d].op = plan[d].op /\ plan[d].op \in 1..ops
    BY <1>8 DEF Records, IdsSound, Active, Journalled
  <2>2. QED
    BY <1>8, <2>1, <1>t DEF Records, SameTx
<1>9. CASE Finishes(d)
  BY <1>9 DEF Finishes, Ends
<1>10. CASE Recovers(d)
  BY <1>10 DEF Recovers, Same
<1>11. CASE Strands(d)
  BY <1>11 DEF Strands, Ends
<1>12. CASE Withdraws(d)
  BY <1>12 DEF Withdraws, Ends
<1>13. CASE PlansRollback(d)
  <2>1. ~Stranded(d)
    BY <1>13, PlansNotStranded
  <2>2. QED
    BY <1>13, <2>1 DEF PlansRollback, Same, SameTx
<1>14. CASE Restores(d)
  BY <1>14 DEF Restores, Ends
<1>15. ASSUME NEW g \in Group,
              \/ PromotesRemote(d, g) \/ PromotesLocal(d, g)
              \/ RestoresRemote(d, g) \/ RestoresLocal(d, g) \/ Edits(d, g)
       PROVE  CauseOf(d)'
  <2>1. CASE PromotesRemote(d, g) \/ PromotesLocal(d, g)
    BY <2>1 DEF PromotesRemote, PromotesLocal, Same
  <2>2. CASE RestoresRemote(d, g) \/ RestoresLocal(d, g)
    BY <2>2 DEF RestoresRemote, RestoresLocal, Same
  <2>3. CASE Edits(d, g)
    BY <2>3 DEF Edits, Same
  <2>4. QED
    BY <1>15, <2>1, <2>2, <2>3
<1>16. QED
  BY <1>1, <1>2, <1>3, <1>4, <1>5, <1>6, <1>7, <1>8, <1>9, <1>10, <1>11, <1>12, <1>13, <1>14,
     <1>15 DEF MoveOf

LEMMA CauseStep ==
    ASSUME TypeOK, TypeOK', LockSound, IdsSound, CauseSound, StrandedSound, TxSound,
           NEW d \in Device, CalmStep(d)
    PROVE  CauseSound'
<1> SUFFICES ASSUME NEW e \in Device PROVE CauseOf(e)'
  BY DEF CauseSound
<1>1. CASE e = d
  BY <1>1, CauseOwn DEF CalmStep, CauseSound, StrandedSound, TxSound
<1>2. CASE e # d
  <2>1. SameFor(e) /\ (lock = e => lock' = e) /\ CauseOf(e)
    BY <1>2 DEF CalmStep, Frame, CauseSound
  <2>2. ops \in Nat /\ ops' \in Nat /\ ops <= ops' /\ receipt[e] \in Nat
    <3>1. ops' = ops \/ ops' = ops + 1
      BY DEF CalmStep, MoveOf, Scans, Refreshes, Plans, Quits, Prepares, Aborts, Advances,
         Records, Finishes, Recovers, Strands, Withdraws, PlansRollback, Restores,
         PromotesRemote, RestoresRemote, PromotesLocal, RestoresLocal, Edits, Same, Ends
    <3>2. QED
      BY <3>1 DEF TypeOK, Op
  <2>3. QED
    BY <2>1, <2>2 DEF CauseOf, SameFor, Stranded, Running, Unrecorded, Planning
<1>3. QED
  BY <1>1, <1>2

-----------------------------------------------------------------------------
(* The three-way decision.                                                 *)

(* Equal sides were recorded as such, or their version would be the        *)
(* device's own and shared at once.                                        *)
LEMMA EqualIsBase ==
    ASSUME TypeOK, PastSound, LocalSound, OwnSound, NEW d \in Device, NEW g \in Group,
           pc[d] = "idle", tx[d] = NoTx, local[d][g] = payload[g]
    PROVE  base[d][g] = local[d][g]
<1> SUFFICES ASSUME base[d][g] # local[d][g] PROVE FALSE
  OBVIOUS
<1>1. On(past, local[d][g], base[d][g]) /\ ~Stranded(d)
  BY DEF LocalSound, LocalOf, Stranded
<1>2. ~On(past, base[d][g], local[d][g])
  BY <1>1, Order, VersionType
<1>3. Own(d, g, local[d][g])
  BY <1>2, Order, VersionType DEF Own
<1>4. ~On(past, payload[g], local[d][g])
  BY <1>1, <1>3, VersionType DEF OwnSound, OwnOf, Sharing, Unrecorded, Running, InTransaction
<1>5. QED
  BY <1>4, Order, VersionType

LEMMA TxOwn ==
    ASSUME TypeOK, PastSound, MadeSound, LocalSound, OwnSound, CauseSound, TxSound,
           StrandedSound, NEW d \in Device, CalmStep(d)
    PROVE  TxOf(d)'
<1> USE DEF TxOf, Stranded, Running, Unrecorded, Planning, InTransaction
<1>0. TxOf(d) /\ CauseOf(d) /\ MoveOf(d)
  BY DEF TxSound, CauseSound, CalmStep
<1>k. tx[d] # NoTx => \A g \in Group : past'[tx[d].local[g]] = past[tx[d].local[g]]
  <2>1. ASSUME NEW g \in Group, tx[d] # NoTx
        PROVE  past'[tx[d].local[g]] = past[tx[d].local[g]]
    <3>1. tx[d].local[g] \in Version /\ tx[d].local[g] <= edits /\ edits \in Nat
      BY <2>1, VersionType DEF MadeSound, MadeOf, TypeOK
    <3>2. (\E h \in Group : Edits(d, h)) \/ past' = past
      BY <1>0, PastKept
    <3>3. QED
      BY <3>1, <3>2 DEF Edits, Version
  <2>2. QED
    BY <2>1
<1>u. tx[d] # NoTx => tx[d].up \subseteq Group /\ tx[d].down \subseteq Group
  BY PlanType
<1>1. CASE Scans(d)
  <2>1. \A g \in Group : local[d][g] = payload[g] => base[d][g] = local[d][g]
    BY <1>1, EqualIsBase DEF Scans
  <2>2. Up(d)' \cup Down(d)' # {}
    BY <1>1 DEF Scans, Up, Down
  <2>3. QED
    BY <1>1, <2>1, <2>2 DEF Scans
<1>2. CASE Refreshes(d)
  BY <1>2 DEF Refreshes
<1>3. CASE Plans(d)
  BY <1>0, <1>3 DEF Plans, Up, Down, CauseOf
<1>4. CASE Quits(d)
  BY <1>0, <1>4 DEF Quits, Ends, CauseOf
<1>5. CASE Prepares(d)
  <2>1. tx[d] = NoTx /\ Up(d) \cap Down(d) = {} /\ Up(d) \subseteq Group
    BY <1>0, <1>5 DEF Prepares, CauseOf, Up, Down, Uploads, Downloads
  <2>2. ASSUME NEW g \in Up(d) PROVE plan[d].remote[g] \in past[plan[d].local[g]]
    <3>1. On(past, local[d][g], base[d][g])
      BY <1>5, <2>1 DEF Prepares, LocalSound, LocalOf
    <3>2. plan[d].local[g] = local[d][g] /\ plan[d].remote[g] = base[d][g]
          /\ plan[d].local[g] # plan[d].remote[g]
      BY <1>5, <2>2 DEF Prepares, Up, Uploads
    <3>3. QED
      BY <3>1, <3>2 DEF On
  <2>3. Up(d) = Uploads(base'[d], plan[d].local, plan[d].remote)
        /\ Down(d) = Downloads(base'[d], plan[d].local, plan[d].remote)
    BY <1>5 DEF Prepares, Same, Up, Down
  <2>4. past' = past /\ base'[d] = base[d]
    BY <1>5 DEF Prepares, Same, Still
  <2>5. QED
    BY <1>0, <1>5, <2>1, <2>2, <2>3, <2>4 DEF Prepares
<1>6. CASE Aborts(d) \/ Advances(d)
  BY <1>0, <1>6 DEF Aborts, Advances, Same, SameTx, Still
<1>8. CASE Records(d)
  <2>1. \A g \in tx[d].down : base'[d][g] = tx[d].remote[g]
    BY <1>0, <1>8, <1>u DEF Records, SameTx, Reconciled, Conflicts, Downloads
  <2>2. QED
    BY <1>0, <1>8, <2>1 DEF Records, SameTx
<1>9. CASE Finishes(d) \/ Withdraws(d) \/ Restores(d)
  BY <1>9 DEF Finishes, Withdraws, Restores, Ends
<1>10. CASE Recovers(d)
  BY <1>0, <1>10 DEF Recovers, Same, Still
<1>11. CASE Strands(d)
  BY <1>0, <1>11 DEF Strands, Ends, Still
<1>12. CASE PlansRollback(d)
  <2>1. ~Stranded(d)
    BY <1>12, PlansNotStranded DEF StrandedSound
  <2>2. QED
    BY <1>0, <1>12, <2>1 DEF PlansRollback, Same, Still
<1>13. ASSUME NEW g \in Group,
              \/ PromotesRemote(d, g) \/ PromotesLocal(d, g)
              \/ RestoresRemote(d, g) \/ RestoresLocal(d, g)
       PROVE  TxOf(d)'
  <2>1. CASE PromotesRemote(d, g) \/ PromotesLocal(d, g)
    BY <1>0, <2>1 DEF PromotesRemote, PromotesLocal, Same, SameTx
  <2>2. CASE RestoresRemote(d, g) \/ RestoresLocal(d, g)
    BY <1>0, <2>2 DEF RestoresRemote, RestoresLocal, Same, SameTx
  <2>3. QED
    BY <1>13, <2>1, <2>2
<1>14. ASSUME NEW g \in Group, Edits(d, g) PROVE TxOf(d)'
  <2>1. /\ pc'[d] = pc[d] /\ cause'[d] = cause[d] /\ tx'[d] = tx[d] /\ base'[d] = base[d]
        /\ plan'[d] = plan[d]
    BY <1>14 DEF Edits, Same
  <2>2. Up(d)' = Up(d) /\ Down(d)' = Down(d)
    BY <2>1 DEF Up, Down
  <2>3. tx[d] # NoTx => \A h \in tx[d].up : past'[tx[d].local[h]] = past[tx[d].local[h]]
    BY <1>k, <1>u
  <2>4. ASSUME Unrecorded(d), NEW h \in tx[d].up
        PROVE  tx'[d].remote[h] \in past'[tx'[d].local[h]]
    <3>1. tx[d].remote[h] \in past[tx[d].local[h]]
      BY <1>0, <2>4
    <3>2. past'[tx[d].local[h]] = past[tx[d].local[h]]
      <4>1. tx[d] # NoTx
        BY <2>4 DEF TypeOK
      <4>2. QED
        BY <2>3, <2>4, <4>1
    <3>3. QED
      BY <2>1, <3>1, <3>2
  <2>5. Planning(d)' =>
          /\ Up(d)' \cup Down(d)' # {}
          /\ \A h \in Group : plan'[d].local[h] = plan'[d].remote[h] => base'[d][h] = plan'[d].local[h]
    BY <1>0, <2>1, <2>2
  <2>6. tx'[d] # NoTx => tx'[d].up \cap tx'[d].down = {} /\ tx'[d].up \cup tx'[d].down # {}
    BY <1>0, <2>1
  <2>7. Unrecorded(d)' =>
          /\ tx'[d].up = Uploads(base'[d], tx'[d].local, tx'[d].remote)
          /\ tx'[d].down = Downloads(base'[d], tx'[d].local, tx'[d].remote)
          /\ \A h \in Group : tx'[d].local[h] = tx'[d].remote[h] => base'[d][h] = tx'[d].local[h]
    BY <1>0, <2>1
  <2>8. pc'[d] \in {"recorded", "closed"} => \A h \in tx'[d].down : base'[d][h] = tx'[d].remote[h]
    BY <1>0, <2>1
  <2>9. Unrecorded(d)' => Unrecorded(d)
    BY <2>1
  <2>10. QED
    BY <2>1, <2>4, <2>5, <2>6, <2>7, <2>8, <2>9
<1>16. QED
  BY <1>0, <1>1, <1>2, <1>3, <1>4, <1>5, <1>6, <1>8, <1>9, <1>10, <1>11, <1>12, <1>13, <1>14
     DEF MoveOf

LEMMA TxStep ==
    ASSUME TypeOK, PastSound, MadeSound, LocalSound, OwnSound, CauseSound, TxSound,
           StrandedSound, NEW d \in Device, CalmStep(d)
    PROVE  TxSound'
<1> SUFFICES ASSUME NEW e \in Device PROVE TxOf(e)'
  BY DEF TxSound
<1>1. CASE e = d
  BY <1>1, TxOwn
<1>2. CASE e # d
  <2>1. SameFor(e) /\ TxOf(e)
    BY <1>2 DEF CalmStep, Frame, TxSound
  <2>2. Up(e)' = Up(e) /\ Down(e)' = Down(e)
    BY <2>1 DEF SameFor, Up, Down
  <2>3. (Unrecorded(e)' <=> Unrecorded(e)) /\ (Planning(e)' <=> Planning(e))
    BY <2>1 DEF SameFor, Unrecorded, Running, Stranded, Planning
  <2>4. ASSUME Unrecorded(e), NEW g \in tx[e].up, tx[e].remote[g] \in past[tx[e].local[g]]
        PROVE  tx'[e].remote[g] \in past'[tx'[e].local[g]]
    <3>1. tx[e] # NoTx /\ g \in Group
      BY <2>4, PlanType DEF Unrecorded, Running, TypeOK
    <3>2. tx[e].local[g] \in Version /\ tx[e].local[g] <= edits /\ edits \in Nat
          /\ tx[e].local[g] \in Nat
      BY <3>1, VersionType DEF MadeSound, MadeOf, TypeOK, Version
    <3>3. (\E h \in Group : Edits(d, h)) \/ past' = past
      BY PastKept DEF CalmStep
    <3>4. past'[tx[e].local[g]] = past[tx[e].local[g]]
      BY <3>2, <3>3 DEF Edits
    <3>5. QED
      BY <2>1, <2>4, <3>4 DEF SameFor
  <2>5. QED
    BY <2>1, <2>2, <2>3, <2>4 DEF TxOf, SameFor
<1>3. QED
  BY <1>1, <1>2

-----------------------------------------------------------------------------
(* The payload during an upload.                                           *)

LEMMA PayloadMoves ==
    ASSUME TypeOK, LockSound, CauseSound, NEW d \in Device, MoveOf(d), payload' # payload
    PROVE  /\ Unrecorded(d) /\ lock = d
           /\ \E h \in Group : PromotesRemote(d, h) \/ RestoresRemote(d, h)
<1>1. PICK h \in Group : PromotesRemote(d, h) \/ RestoresRemote(d, h)
  BY DEF MoveOf, Scans, Refreshes, Plans, Quits, Prepares, Aborts, Advances, Records,
     Finishes, Recovers, Strands, Withdraws, PlansRollback, Restores, PromotesLocal,
     RestoresLocal, Edits, Still
<1>2. Unrecorded(d) /\ tx[d].up # {}
  BY <1>1 DEF PromotesRemote, RestoresRemote, Unrecorded, Running, Stranded, InTransaction
<1>3. QED
  BY <1>1, <1>2, UploadLocks

LEMMA PayloadOwn ==
    ASSUME TypeOK, LockSound, NEW d \in Device, CauseOf(d), TxOf(d), PayloadOf(d),
           StrandedOf(d), MoveOf(d)
    PROVE  PayloadOf(d)'
<1> USE DEF PayloadOf, Stranded, Running, Unrecorded, InTransaction
<1>0. tx[d] # NoTx => /\ tx[d].up \subseteq Group /\ tx[d].up \cap tx[d].down = {}
  BY PlanType DEF TxOf
<1>1. CASE \/ Scans(d) \/ Refreshes(d) \/ Plans(d) \/ Quits(d) \/ Records(d) \/ Finishes(d)
           \/ Recovers(d) \/ Strands(d) \/ Withdraws(d) \/ Restores(d)
  BY <1>1 DEF Scans, Refreshes, Plans, Planning, Quits, Records, Finishes, Recovers, Strands,
     Withdraws, Restores, Ends
<1>2. CASE Prepares(d)
  BY <1>2 DEF Prepares, Still
<1>3. CASE Aborts(d) \/ Advances(d)
  BY <1>3 DEF Aborts, Advances, SameTx, Still
<1>4. CASE PlansRollback(d)
  <2>1. ~Stranded(d)
    BY <1>4, PlansNotStranded
  <2>2. QED
    BY <1>0, <1>4, <2>1 DEF PlansRollback, ThirdVersion, SameTx, Still
<1>5. ASSUME NEW h \in Group,
             \/ PromotesRemote(d, h) \/ PromotesLocal(d, h)
             \/ RestoresRemote(d, h) \/ RestoresLocal(d, h) \/ Edits(d, h)
      PROVE  PayloadOf(d)'
  <2>1. CASE PromotesRemote(d, h)
    BY <1>0, <2>1 DEF PromotesRemote, SameTx
  <2>2. CASE PromotesLocal(d, h)
    BY <1>0, <2>2 DEF PromotesLocal, SameTx
  <2>3. CASE RestoresRemote(d, h)
    BY <1>0, <2>3 DEF RestoresRemote, SameTx
  <2>4. CASE RestoresLocal(d, h)
    BY <1>0, <2>4 DEF RestoresLocal, SameTx
  <2>5. CASE Edits(d, h)
    BY <2>5 DEF Edits
  <2>6. QED
    BY <1>5, <2>1, <2>2, <2>3, <2>4, <2>5
<1>6. QED
  BY <1>1, <1>2, <1>3, <1>4, <1>5 DEF MoveOf

LEMMA PayloadStep ==
    ASSUME TypeOK, LockSound, CauseSound, TxSound, PayloadSound, StrandedSound,
           NEW d \in Device, CalmStep(d)
    PROVE  PayloadSound'
<1> SUFFICES ASSUME NEW e \in Device PROVE PayloadOf(e)'
  BY DEF PayloadSound
<1>1. CASE e = d
  BY <1>1, PayloadOwn DEF CalmStep, CauseSound, TxSound, PayloadSound, StrandedSound
<1>2. CASE e # d
  <2>1. SameFor(e) /\ PayloadOf(e)
    BY <1>2 DEF CalmStep, Frame, PayloadSound
  <2>2. Unrecorded(e)' <=> Unrecorded(e)
    BY <2>1 DEF SameFor, Unrecorded, Running, Stranded
  <2>3. CASE payload' = payload
    BY <2>1, <2>2, <2>3 DEF PayloadOf, SameFor
  <2>4. CASE payload' # payload
    <3>1. lock = d
      BY <2>4, PayloadMoves DEF CalmStep
    <3>2. Unrecorded(e) => tx[e].up = {}
      BY <1>2, <3>1, UploadLocks
    <3>3. QED
      BY <2>1, <2>2, <3>2 DEF PayloadOf, SameFor
  <2>5. QED
    BY <2>3, <2>4
<1>3. QED
  BY <1>1, <1>2

-----------------------------------------------------------------------------
(* The saves during a transaction.                                         *)

(* A refreshed baseline is the one it was.                                 *)
LEMMA RefreshKeeps ==
    ASSUME TypeOK, PastSound, LocalSound, OwnSound, NEW d \in Device, Refreshes(d),
           NEW g \in Group
    PROVE  base'[d][g] = base[d][g]
<1>1. local[d][g] = payload[g] => base[d][g] = local[d][g]
  BY EqualIsBase DEF Refreshes
<1>2. QED
  BY <1>1 DEF Refreshes, Reconciled, Conflicts, Uploads, Downloads

LEMMA LocalOwn ==
    ASSUME TypeOK, PastSound, MadeSound, CauseSound, TxSound, LocalSound, StrandedSound,
           OwnSound, NEW d \in Device, MoveOf(d), NEW g \in Group
    PROVE  LocalOf(d, g)'
<1> USE DEF Stranded, Running, Unrecorded, InTransaction
<1>0. LocalOf(d, g) /\ TxOf(d) /\ CauseOf(d) /\ StrandedOf(d) /\ MadeOf(d, g)
  BY DEF LocalSound, TxSound, CauseSound, StrandedSound, MadeSound
<1>v. /\ local[d][g] \in Version /\ base[d][g] \in Version
      /\ tx[d] # NoTx => tx[d].local[g] \in Version /\ tx[d].remote[g] \in Version
  BY VersionType
<1>r. \A x \in Version : On(past, x, x)
  BY Order
<1>p. pc[d] \in InTransaction => tx[d] # NoTx
  BY DEF TypeOK
<1>1. CASE Scans(d) \/ Plans(d) \/ Quits(d)
  <2>1. tx[d] = NoTx /\ tx'[d] = NoTx /\ ~Stranded(d) /\ pc'[d] \notin InTransaction
    BY <1>0, <1>1 DEF Scans, Plans, Quits, Ends, Planning, CauseOf
  <2>2. base'[d] = base[d] /\ local' = local /\ past' = past
    BY <1>1 DEF Scans, Plans, Quits, Ends, Still
  <2>3. QED
    BY <1>0, <2>1, <2>2 DEF LocalOf
<1>2. CASE Refreshes(d)
  <2>1. tx[d] = NoTx /\ tx'[d] = NoTx /\ ~Stranded(d) /\ pc'[d] \notin InTransaction
    BY <1>2 DEF Refreshes
  <2>2. base'[d][g] = base[d][g] /\ local' = local /\ past' = past
    BY <1>2, RefreshKeeps DEF Refreshes, Still
  <2>3. QED
    BY <1>0, <2>1, <2>2 DEF LocalOf
<1>3. CASE Prepares(d)
  <2>1. tx[d] = NoTx /\ ~Stranded(d)
    BY <1>0, <1>3 DEF Prepares, CauseOf
  <2>2. On(past, local[d][g], base[d][g])
    BY <1>0, <2>1 DEF LocalOf
  <2>3. /\ tx'[d].local[g] = local[d][g] /\ pc'[d] = "promoting" /\ base'[d] = base[d]
        /\ local' = local /\ past' = past /\ (g \in tx'[d].down => g \in todo'[d])
    BY <1>3 DEF Prepares, Same, Still
  <2>4. QED
    BY <1>v, <1>r, <2>2, <2>3 DEF LocalOf, From
<1>4. CASE Aborts(d) \/ Advances(d)
  <2>1. /\ SameTx(d) /\ base'[d] = base[d] /\ local' = local /\ past' = past /\ raced' = raced
        /\ todo'[d] = todo[d]
    BY <1>4 DEF Aborts, Advances, Same, Still
  <2>2. /\ Running(d) /\ Running(d)' /\ (Unrecorded(d)' <=> Unrecorded(d))
        /\ (pc'[d] \in {"recorded", "closed"} <=> pc[d] \in {"recorded", "closed"})
        /\ pc[d] # "restoring" /\ pc'[d] # "restoring"
    BY <1>4, <1>p DEF Aborts, Advances
  <2>3. QED
    BY <1>0, <2>1, <2>2 DEF LocalOf, From, Newer, SameTx
<1>5. CASE Records(d)
  <2>1. /\ tx[d] # NoTx /\ todo[d] = {} /\ Unrecorded(d) /\ pc'[d] = "recorded"
        /\ SameTx(d) /\ local' = local /\ past' = past
    BY <1>0, <1>5 DEF Records, CauseOf, SameTx, Still
  <2>2. g \in tx[d].down => On(past, local[d][g], tx[d].remote[g])
    BY <1>0, <1>5, <2>1 DEF LocalOf, From, Records
  <2>3. g \notin tx[d].down => /\ On(past, local[d][g], tx[d].local[g])
                               /\ On(past, local[d][g], base[d][g])
    BY <1>0, <1>5, <2>1 DEF LocalOf, Records
  <2>4. base'[d][g] = IF g \in tx[d].down THEN tx[d].remote[g]
                      ELSE IF g \in Conflicts(base[d], tx[d].local, tx[d].remote)
                           THEN base[d][g] ELSE tx[d].local[g]
    BY <1>0, <1>5, <2>1 DEF Records, Reconciled, TxOf, Conflicts, Downloads
  <2>5. On(past, local[d][g], base'[d][g])
    BY <2>2, <2>3, <2>4
  <2>6. QED
    BY <1>5, <2>1, <2>2, <2>3, <2>5 DEF LocalOf, SameTx
<1>6. CASE Finishes(d)
  <2>1. On(past, local[d][g], base[d][g])
    BY <1>0, <1>6 DEF Finishes, LocalOf
  <2>2. QED
    BY <1>6, <2>1 DEF Finishes, Ends, Still, LocalOf
<1>7. CASE Recovers(d) \/ Strands(d)
  <2>1. Stranded(d)' /\ pc'[d] \notin {"recorded", "closed"}
    BY <1>7 DEF Recovers, Strands, Ends
  <2>2. QED
    BY <2>1 DEF LocalOf
<1>8. CASE Withdraws(d)
  <2>1. ~Stranded(d) /\ Unrecorded(d)
    BY <1>0, <1>8 DEF Withdraws, StrandedOf, TxOf
  <2>2. g \in tx[d].down => On(past, local[d][g], base[d][g])
    <3>1. ASSUME g \in tx[d].down PROVE On(past, local[d][g], base[d][g])
      <4>1. On(past, local[d][g], tx[d].local[g])
        BY <1>0, <1>8, <2>1, <3>1 DEF Withdraws, LocalOf, From
      <4>2. base[d][g] = tx[d].local[g]
        BY <1>0, <2>1, <3>1 DEF TxOf, Downloads
      <4>3. QED
        BY <4>1, <4>2
    <3>2. QED
      BY <3>1
  <2>3. g \notin tx[d].down => On(past, local[d][g], base[d][g])
    BY <1>0, <2>1 DEF LocalOf
  <2>4. QED
    BY <1>8, <2>2, <2>3 DEF Withdraws, Ends, Still, LocalOf
<1>9. CASE Restores(d)
  <2>1. ~Stranded(d) /\ Unrecorded(d)
    BY <1>9 DEF Restores
  <2>2. g \in tx[d].down => On(past, local[d][g], base[d][g])
    BY <1>0, <1>9, <1>r, <1>v, <2>1 DEF Restores, InPlace, TxOf, Downloads
  <2>3. g \notin tx[d].down => On(past, local[d][g], base[d][g])
    BY <1>0, <2>1 DEF LocalOf
  <2>4. QED
    BY <1>9, <2>2, <2>3 DEF Restores, Ends, Still, LocalOf
<1>10. CASE PlansRollback(d)
  <2>1. ~Stranded(d) /\ Unrecorded(d) /\ tx[d] # NoTx
    BY <1>0, <1>10, PlansNotStranded DEF PlansRollback, SameTx
  <2>2. /\ pc'[d] = "restoring" /\ tx'[d] = tx[d] /\ base'[d] = base[d] /\ local' = local
        /\ past' = past /\ ~Stranded(d)'
    BY <1>10, <2>1 DEF PlansRollback, Same, Still
  <2>3. g \in tx[d].down =>
          /\ local[d][g] \in {tx[d].local[g], tx[d].remote[g]}
          /\ g \notin todo'[d] => local[d][g] = tx[d].local[g]
          /\ g \in todo'[d] => local[d][g] = tx[d].remote[g]
    BY <1>0, <1>10 DEF PlansRollback, ThirdVersion, TxOf, SameTx
  <2>4. QED
    BY <1>0, <1>r, <1>v, <2>1, <2>2, <2>3 DEF LocalOf, From
<1>11. ASSUME NEW h \in Group, PromotesRemote(d, h) \/ RestoresRemote(d, h)
       PROVE  LocalOf(d, g)'
  <2>1. /\ pc'[d] = pc[d] /\ tx'[d] = tx[d] /\ base'[d] = base[d] /\ local' = local
        /\ past' = past /\ raced' = raced /\ ~Stranded(d) /\ ~Stranded(d)'
        /\ tx[d] # NoTx /\ h \in tx[d].up /\ todo'[d] = todo[d] \ {h}
    BY <1>11 DEF PromotesRemote, RestoresRemote, Same, SameTx
  <2>2. g \in tx[d].down => g # h /\ (g \in todo'[d] <=> g \in todo[d])
    BY <1>0, <2>1 DEF TxOf
  <2>3. QED
    BY <1>0, <2>1, <2>2 DEF LocalOf, From, Newer
<1>12. ASSUME NEW h \in Group, PromotesLocal(d, h) \/ RestoresLocal(d, h)
       PROVE  LocalOf(d, g)'
  <2>1. /\ pc'[d] = pc[d] /\ tx'[d] = tx[d] /\ base'[d] = base[d]
        /\ past' = past /\ raced' = raced /\ Unrecorded(d) /\ ~Stranded(d)'
        /\ tx[d] # NoTx /\ h \in tx[d].down /\ todo'[d] = todo[d] \ {h}
    BY <1>12 DEF PromotesLocal, RestoresLocal, Same, SameTx
  <2>2. CASE g # h
    <3>1. local'[d][g] = local[d][g]
      BY <1>12, <2>2 DEF PromotesLocal, RestoresLocal
    <3>2. QED
      BY <1>0, <2>1, <2>2, <3>1 DEF LocalOf, From, Newer
  <2>3. CASE g = h /\ PromotesLocal(d, h)
    <3>1. /\ local'[d][g] = tx[d].remote[g] /\ g \notin todo'[d] /\ pc'[d] = "promoting"
          /\ g \in tx'[d].down
      BY <2>1, <2>3 DEF PromotesLocal
    <3>2. QED
      BY <1>r, <1>v, <2>1, <3>1 DEF LocalOf, From
  <2>4. CASE g = h /\ RestoresLocal(d, h)
    <3>1. /\ local'[d][g] = tx[d].local[g] /\ g \notin todo'[d] /\ pc'[d] = "restoring"
          /\ g \in tx'[d].down
      BY <2>1, <2>4 DEF RestoresLocal
    <3>2. QED
      BY <1>r, <1>v, <2>1, <3>1 DEF LocalOf, From
  <2>5. QED
    BY <1>12, <2>2, <2>3, <2>4
<1>13. ASSUME NEW h \in Group, Edits(d, h) PROVE LocalOf(d, g)'
  <2>1. /\ pc'[d] = pc[d] /\ cause'[d] = cause[d] /\ tx'[d] = tx[d] /\ base'[d] = base[d]
        /\ todo'[d] = todo[d] /\ edits' = edits + 1
    BY <1>13 DEF Edits, Same
  <2>2. /\ \A x, y \in Version : x <= edits => (On(past', x, y) <=> On(past, x, y))
        /\ edits \in Nat /\ edits' \in Version /\ edits' \in Nat /\ raced \subseteq raced'
    BY <1>13, PastKept DEF MoveOf, Edits
  <2>3. local[d][g] <= edits /\ base[d][g] <= edits
        /\ (tx[d] # NoTx => tx[d].local[g] <= edits /\ tx[d].remote[g] <= edits)
    BY <1>0 DEF MadeOf
  <2>4. CASE g # h
    <3>1. local'[d][g] = local[d][g]
      BY <1>13, <2>4 DEF Edits
    <3>2. QED
      BY <1>0, <1>v, <1>p, <2>1, <2>2, <2>3, <3>1 DEF LocalOf, From, Newer
  <2>5. CASE g = h
    <3>1. local'[d][g] = edits' /\ (pc[d] = "restoring" /\ g \in todo[d] /\ g \in tx[d].down => edits' \in raced')
      BY <1>13, <2>5 DEF Edits
    <3>2. \A y \in Version : On(past', local'[d][g], y) <=> y = edits' \/ On(past, local[d][g], y)
      BY <1>13, <2>5, <3>1, EditMakes
    <3>3. tx[d] # NoTx => edits' > tx[d].local[g] /\ edits' > tx[d].remote[g]
      BY <1>v, <2>1, <2>2, <2>3 DEF Version
    <3>4. QED
      BY <1>0, <1>v, <1>p, <2>1, <2>2, <2>3, <3>1, <3>2, <3>3 DEF LocalOf, From, Newer
  <2>6. QED
    BY <2>4, <2>5
<1>14. QED
  BY <1>1, <1>2, <1>3, <1>4, <1>5, <1>6, <1>7, <1>8, <1>9, <1>10, <1>11, <1>12, <1>13
     DEF MoveOf

LEMMA LocalStep ==
    ASSUME TypeOK, PastSound, MadeSound, CauseSound, TxSound, LocalSound, StrandedSound,
           OwnSound, NEW d \in Device, CalmStep(d)
    PROVE  LocalSound'
<1> SUFFICES ASSUME NEW e \in Device, NEW g \in Group PROVE LocalOf(e, g)'
  BY DEF LocalSound
<1>1. CASE e = d
  BY <1>1, LocalOwn DEF CalmStep
<1>2. CASE e # d
  <2>1. SameFor(e) /\ local'[e] = local[e] /\ LocalOf(e, g) /\ MadeOf(e, g)
    BY <1>2 DEF CalmStep, Frame, LocalSound, MadeSound
  <2>2. /\ \A x, y \in Version : x <= edits => (On(past', x, y) <=> On(past, x, y))
        /\ raced \subseteq raced'
    BY PastKept DEF CalmStep
  <2>3. /\ local[e][g] \in Version /\ base[e][g] \in Version
        /\ tx[e] # NoTx => tx[e].local[g] \in Version /\ tx[e].remote[g] \in Version
    BY VersionType
  <2>4. /\ (Stranded(e)' <=> Stranded(e)) /\ (Running(e)' <=> Running(e))
        /\ (Unrecorded(e)' <=> Unrecorded(e))
    BY <2>1 DEF SameFor, Unrecorded, Running, Stranded
  <2>5. pc[e] \in InTransaction => tx[e] # NoTx
    BY DEF TypeOK
  <2>6. Unrecorded(e) => Running(e) /\ tx[e] # NoTx
    BY <2>5 DEF Unrecorded, Running
  <2>7. pc[e] \in {"recorded", "closed"} \/ Running(e) => tx[e] # NoTx
    BY <2>5 DEF InTransaction, Running
  <2>8. QED
    BY <2>1, <2>2, <2>3, <2>4, <2>6, <2>7 DEF LocalOf, From, Newer, SameFor, MadeOf
<1>3. QED
  BY <1>1, <1>2

-----------------------------------------------------------------------------
(* A journal that recovery cannot resolve.                                 *)

(* What is neither side of a transaction was made after its scan.          *)
LEMMA ThirdIsNewer ==
    ASSUME TypeOK, PastSound, NEW d \in Device, NEW g \in Group, NEW x \in Version,
           From(d, g, x), local[d][g] # x
    PROVE  Newer(d, g, local[d][g])
BY Order, VersionType DEF From

LEMMA StrandsThird ==
    ASSUME TypeOK, PastSound, NEW d \in Device, PayloadOf(d), LocalSound, ~Stranded(d),
           Strands(d)
    PROVE  \E g \in tx[d].down : Newer(d, g, local[d][g])
<1> USE DEF Stranded, Running, Unrecorded, InTransaction
<1>0. tx[d] # NoTx /\ Unrecorded(d)
  BY DEF Strands
<1>1. CASE pc[d] = "rollback" /\ ThirdVersion(d)
  <2>1. \A g \in tx[d].up : payload[g] \in {tx[d].remote[g], tx[d].local[g]}
    BY <1>0, <1>1 DEF PayloadOf
  <2>2. PICK g \in tx[d].down : local[d][g] \notin {tx[d].remote[g], tx[d].local[g]}
    BY <1>1, <2>1 DEF ThirdVersion
  <2>3. g \in Group
    BY <1>0, PlanType
  <2>4. \E x \in {tx[d].local[g], tx[d].remote[g]} : From(d, g, x)
    BY <1>0, <1>1, <2>2, <2>3 DEF LocalSound, LocalOf
  <2>5. Newer(d, g, local[d][g])
    BY <1>0, <2>2, <2>3, <2>4, ThirdIsNewer, VersionType
  <2>6. QED
    BY <2>5
<1>2. CASE pc[d] = "restoring" /\ todo[d] = {} /\ ~InPlace(d)
  <2>1. \A g \in tx[d].up : payload[g] = tx[d].remote[g]
    BY <1>0, <1>2 DEF PayloadOf
  <2>2. PICK g \in tx[d].down : local[d][g] # tx[d].local[g]
    BY <1>2, <2>1 DEF InPlace
  <2>3. g \in Group
    BY <1>0, PlanType
  <2>4. From(d, g, tx[d].local[g])
    BY <1>0, <1>2, <2>2, <2>3 DEF LocalSound, LocalOf
  <2>5. Newer(d, g, local[d][g])
    BY <1>0, <2>2, <2>3, <2>4, ThirdIsNewer, VersionType
  <2>6. QED
    BY <2>5
<1>3. QED
  BY <1>1, <1>2 DEF Strands

(* Once it is there, it stays.                                             *)
LEMMA StrandedStays ==
    ASSUME TypeOK, CauseSound, StrandedSound, TxSound, NEW d \in Device, CalmStep(d),
           NEW e \in Device, Stranded(e)
    PROVE  Stranded(e)'
<1>1. CASE e # d
  BY <1>1 DEF CalmStep, Frame, SameFor, Stranded
<1>2. CASE e = d
  <2>0. tx[d] # NoTx /\ todo[d] = {} /\ tx[d].up \cup tx[d].down # {}
        /\ (pc[d] = "idle" \/ (pc[d] = "rollback" /\ cause[d] = "recover"))
    BY <1>2 DEF StrandedSound, StrandedOf, Stranded, TxSound, TxOf
  <2>1. ~PlansRollback(d)
    BY <1>2, PlansNotStranded DEF StrandedSound
  <2>2. \/ Recovers(d) \/ Strands(d)
        \/ \E h \in Group : Edits(d, h)
    BY <2>0, <2>1 DEF CalmStep, MoveOf, Scans, Refreshes, Plans, Quits, Planning, Prepares,
       Aborts, Advances, Records, Finishes, Withdraws, Restores, PromotesRemote,
       PromotesLocal, RestoresRemote, RestoresLocal
  <2>3. QED
    BY <1>2, <2>0, <2>2 DEF Recovers, Strands, Ends, Edits, Stranded
<1>3. QED
  BY <1>1, <1>2

LEMMA StrandedStep ==
    ASSUME TypeOK, TypeOK', PastSound, MadeSound, CauseSound, TxSound, PayloadSound, LocalSound,
           StrandedSound, NEW d \in Device, CalmStep(d)
    PROVE  StrandedSound'
<1> SUFFICES ASSUME NEW e \in Device, Stranded(e)'
             PROVE  todo'[e] = {} /\ \E g \in tx'[e].down : Newer(e, g, local[e][g])'
  BY DEF StrandedSound, StrandedOf
<1>1. CASE e # d
  <2>1. SameFor(e) /\ local'[e] = local[e] /\ StrandedOf(e)
    BY <1>1 DEF CalmStep, Frame, StrandedSound
  <2>2. Stranded(e)
    BY <2>1 DEF SameFor, Stranded
  <2>3. QED
    BY <2>1, <2>2 DEF SameFor, StrandedOf, Newer
<1>2. CASE e = d
  <2>1. \/ Recovers(d) \/ Strands(d)
        \/ \E h \in Group : Edits(d, h)
    <3>1. ~PlansRollback(d)
      BY <1>2 DEF PlansRollback, Stranded
    <3>2. QED
      BY <1>2, <3>1 DEF CalmStep, MoveOf, Scans, Refreshes, Plans, Quits, Planning, Prepares,
         Aborts, Advances, Records, Finishes, Withdraws, Restores, PromotesRemote,
         PromotesLocal, RestoresRemote, RestoresLocal, Ends, Stranded, CauseSound, CauseOf,
         InTransaction
  <2>2. CASE Recovers(d)
    <3>1. Stranded(d)
      BY <2>2 DEF Recovers, Stranded
    <3>2. QED
      BY <1>2, <2>2, <3>1 DEF Recovers, Still, StrandedSound, StrandedOf, Newer
  <2>3. CASE Strands(d)
    <3>1. todo'[d] = {} /\ tx'[d] = tx[d] /\ local' = local
      BY <2>3 DEF Strands, Ends, Still
    <3>2. \E g \in tx[d].down : Newer(d, g, local[d][g])
      BY <2>3, StrandsThird DEF StrandedSound, StrandedOf, PayloadSound
    <3>3. QED
      BY <1>2, <3>1, <3>2 DEF Newer
  <2>4. ASSUME NEW h \in Group, Edits(d, h)
        PROVE  todo'[e] = {} /\ \E g \in tx'[e].down : Newer(e, g, local[e][g])'
    <3>1. /\ pc'[d] = pc[d] /\ cause'[d] = cause[d] /\ tx'[d] = tx[d] /\ todo'[d] = todo[d]
          /\ edits' = edits + 1 /\ local'[d][h] = edits'
          /\ \A g \in Group : g # h => local'[d][g] = local[d][g]
      BY <2>4 DEF Edits
    <3>2. Stranded(d) /\ tx[d] # NoTx
      BY <1>2, <3>1 DEF Stranded
    <3>3. todo[d] = {}
      BY <3>2 DEF StrandedSound, StrandedOf
    <3>4. PICK g \in tx[d].down : Newer(d, g, local[d][g])
      BY <3>2 DEF StrandedSound, StrandedOf
    <3>5. g \in Group
      BY <3>2, PlanType
    <3>6. CASE g # h
      BY <1>2, <3>1, <3>3, <3>4, <3>5, <3>6 DEF Newer
    <3>7. CASE g = h
      <4>1. /\ tx[d].local[g] <= edits /\ tx[d].remote[g] <= edits /\ edits \in Nat
            /\ tx[d].local[g] \in Nat /\ tx[d].remote[g] \in Nat
        <5>1. tx[d].local[g] \in Version /\ tx[d].remote[g] \in Version
          BY <3>2, <3>5, VersionType
        <5>2. MadeOf(d, g) /\ edits \in Nat
          BY <3>5 DEF MadeSound, TypeOK
        <5>3. QED
          BY <3>2, <5>1, <5>2 DEF MadeOf, Version
      <4>2. local'[d][g] > tx'[d].local[g] /\ local'[d][g] > tx'[d].remote[g]
        BY <3>1, <3>7, <4>1
      <4>3. QED
        BY <1>2, <3>1, <3>3, <3>4, <4>2 DEF Newer
    <3>8. QED
      BY <3>6, <3>7
  <2>5. QED
    BY <2>1, <2>2, <2>3, <2>4
<1>3. QED
  BY <1>1, <1>2

-----------------------------------------------------------------------------
(* Whose a version is.                                                     *)

(* The baseline after its record: what was downloaded, uploaded or found   *)
(* equal on both sides.                                                    *)
LEMMA RecordedBase ==
    ASSUME TypeOK, CauseSound, TxSound, NEW d \in Device, NEW g \in Group, Records(d)
    PROVE  /\ Unrecorded(d) /\ todo[d] = {} /\ tx[d] # NoTx
           /\ g \in tx[d].down => /\ base'[d][g] = tx[d].remote[g] /\ g \notin tx[d].up
                                  /\ base[d][g] = tx[d].local[g]
           /\ g \in tx[d].up => /\ base'[d][g] = tx[d].local[g] /\ base[d][g] = tx[d].remote[g]
                                /\ tx[d].remote[g] \in past[tx[d].local[g]]
           /\ g \notin tx[d].up \cup tx[d].down => base'[d][g] = base[d][g]
<1>1. Unrecorded(d) /\ todo[d] = {} /\ tx[d] # NoTx
  BY DEF Records, SameTx, CauseSound, CauseOf, Unrecorded, Running, Stranded, InTransaction
<1>2. /\ tx[d].up = Uploads(base[d], tx[d].local, tx[d].remote)
      /\ tx[d].down = Downloads(base[d], tx[d].local, tx[d].remote)
      /\ tx[d].local[g] = tx[d].remote[g] => base[d][g] = tx[d].local[g]
      /\ g \in tx[d].up => tx[d].remote[g] \in past[tx[d].local[g]]
  BY <1>1 DEF TxSound, TxOf
<1>3. base'[d][g] = Reconciled(base[d], tx[d].local, tx[d].remote)[g]
  BY DEF Records
<1>4. QED
  BY <1>1, <1>2, <1>3 DEF Reconciled, Conflicts, Uploads, Downloads

(* The baseline of what a device uploads, and of what it downloads.        *)
LEMMA UploadedBase ==
    ASSUME TypeOK, TxSound, NEW d \in Device, NEW g \in Group, Unrecorded(d)
    PROVE  /\ tx[d] # NoTx
           /\ g \in tx[d].up => /\ base[d][g] = tx[d].remote[g] /\ g \notin tx[d].down
                                /\ tx[d].remote[g] \in past[tx[d].local[g]]
           /\ g \in tx[d].down => base[d][g] = tx[d].local[g]
BY DEF TxSound, TxOf, Uploads, Downloads, TypeOK, Unrecorded, Running

(* Steps of other devices change nothing of what is a device's own.        *)
LEMMA OwnOthers ==
    ASSUME TypeOK, PastSound, MadeSound, NEW d \in Device, CalmStep(d),
           NEW e \in Device, e # d, NEW g \in Group, NEW v \in Version
    PROVE  Own(e, g, v)' <=> Own(e, g, v)
<1>1. SameFor(e) /\ local'[e] = local[e] /\ MadeOf(e, g)
  BY DEF CalmStep, Frame, MadeSound
<1>2. \A x, y \in Version : x <= edits => (On(past', x, y) <=> On(past, x, y))
  BY PastKept DEF CalmStep
<1>3. /\ local[e][g] \in Version /\ base[e][g] \in Version
      /\ tx[e] # NoTx => tx[e].local[g] \in Version /\ tx[e].remote[g] \in Version
  BY VersionType
<1>4. QED
  BY <1>1, <1>2, <1>3 DEF Own, SameFor, MadeOf

(* A device makes a version its own by an edit alone.                      *)
LEMMA OwnComes ==
    ASSUME TypeOK, PastSound, MadeSound, CauseSound, TxSound, LocalSound, StrandedSound,
           OwnSound, NEW d \in Device, CalmStep(d), NEW g \in Group, NEW v \in Version,
           Own(d, g, v)'
    PROVE  Own(d, g, v) \/ (Edits(d, g) /\ v = edits')
<1>m. MoveOf(d)
  BY DEF CalmStep
<1>v. /\ local[d][g] \in Version /\ base[d][g] \in Version /\ v \in Nat
      /\ tx[d] # NoTx => tx[d].local[g] \in Version /\ tx[d].remote[g] \in Version
  BY VersionType DEF Version
<1>1. CASE Scans(d) \/ Plans(d) \/ Quits(d) \/ Aborts(d) \/ Advances(d) \/ Recovers(d)
           \/ Strands(d) \/ PlansRollback(d)
           \/ \E h \in Group : PromotesRemote(d, h) \/ RestoresRemote(d, h)
  <2>1. /\ local' = local /\ past' = past /\ base'[d] = base[d]
        /\ tx'[d] = tx[d] \/ SameTx(d)
    BY <1>1 DEF Scans, Plans, Quits, Aborts, Advances, Recovers, Strands, PlansRollback,
       PromotesRemote, RestoresRemote, Ends, Same, Still
  <2>2. QED
    BY <2>1 DEF Own, SameTx
<1>2. CASE Refreshes(d)
  <2>1. local' = local /\ past' = past /\ tx'[d] = tx[d] /\ base'[d][g] = base[d][g]
    BY <1>2, RefreshKeeps DEF Refreshes, Still
  <2>2. QED
    BY <2>1 DEF Own
<1>3. CASE Prepares(d)
  <2>1. tx[d] = NoTx
    BY <1>3 DEF Prepares, CauseSound, CauseOf, InTransaction
  <2>2. QED
    BY <1>3, <2>1 DEF Prepares, Same, Still, Own
<1>4. CASE Records(d)
  <2>1. local' = local /\ past' = past /\ SameTx(d)
    BY <1>4 DEF Records, Still
  <2>2. /\ On(past, local[d][g], v) /\ ~On(past, base'[d][g], v)
        /\ g \in tx[d].down => ~On(past, tx[d].remote[g], v)
    BY <2>1 DEF Own, SameTx
  <2>3. ~On(past, base[d][g], v)
    <3>1. CASE g \in tx[d].down
      <4>1. From(d, g, tx[d].remote[g])
        BY <1>4, <3>1, RecordedBase DEF LocalSound, LocalOf, Records
      <4>2. v > tx[d].local[g]
        BY <2>2, <3>1, <4>1 DEF From, Newer
      <4>3. base[d][g] = tx[d].local[g] /\ base[d][g] \in Nat
        BY <1>4, <1>v, <3>1, RecordedBase DEF Version
      <4>4. QED
        BY <1>v, <4>2, <4>3, Order
    <3>2. CASE g \in tx[d].up
      <4>1. base'[d][g] = tx[d].local[g] /\ base[d][g] \in past[tx[d].local[g]]
            /\ tx[d].local[g] \in Version
        BY <1>4, <1>v, <3>2, RecordedBase
      <4>2. On(past, base'[d][g], base[d][g])
        BY <4>1 DEF On
      <4>3. QED
        BY <1>v, <2>2, <4>1, <4>2, Order
    <3>3. CASE g \notin tx[d].up \cup tx[d].down
      BY <1>4, <2>2, <3>3, RecordedBase
    <3>4. QED
      BY <3>1, <3>2, <3>3
  <2>4. QED
    BY <2>2, <2>3 DEF Own
<1>5. CASE Finishes(d)
  <2>1. g \in tx[d].down => base[d][g] = tx[d].remote[g]
    BY <1>5 DEF Finishes, TxSound, TxOf
  <2>2. local' = local /\ past' = past /\ base'[d] = base[d]
    BY <1>5 DEF Finishes, Ends, Still
  <2>3. QED
    BY <2>1, <2>2 DEF Own
<1>6. CASE Withdraws(d) \/ Restores(d)
  <2>1. /\ local' = local /\ past' = past /\ base'[d] = base[d] /\ tx[d] # NoTx
        /\ pc[d] \in {"rollback", "restoring"}
    BY <1>6 DEF Withdraws, Restores, Ends, Still
  <2>2. Unrecorded(d)
    <3>1. ~Stranded(d)
      BY <1>6 DEF Withdraws, Restores, Stranded, StrandedSound, StrandedOf, TxSound, TxOf
    <3>2. QED
      BY <2>1, <3>1 DEF Unrecorded, Running, InTransaction
  <2>3. On(past, local[d][g], v) /\ ~On(past, base[d][g], v)
    BY <2>1 DEF Own
  <2>4. g \in tx[d].down => ~On(past, tx[d].remote[g], v)
    <3>1. SUFFICES ASSUME g \in tx[d].down PROVE ~On(past, tx[d].remote[g], v)
      OBVIOUS
    <3>2. base[d][g] = tx[d].local[g]
      BY <2>2, <3>1, UploadedBase
    <3>3. From(d, g, tx[d].local[g])
      BY <1>6, <2>2, <3>1 DEF Withdraws, Restores, LocalSound, LocalOf
    <3>4. v > tx[d].remote[g]
      BY <2>3, <3>2, <3>3 DEF From, Newer
    <3>5. tx[d].remote[g] \in Version /\ tx[d].remote[g] \in Nat
      BY <1>v, <2>1 DEF Version
    <3>6. QED
      BY <1>v, <3>4, <3>5, Order
  <2>5. QED
    BY <2>3, <2>4 DEF Own
<1>7. ASSUME NEW h \in Group, PromotesLocal(d, h) \/ RestoresLocal(d, h)
      PROVE  Own(d, g, v)
  <2>1. /\ past' = past /\ base'[d] = base[d] /\ tx'[d] = tx[d] /\ tx[d] # NoTx
        /\ h \in tx[d].down /\ Unrecorded(d)
        /\ (g # h => local'[d][g] = local[d][g])
    BY <1>7 DEF PromotesLocal, RestoresLocal, Same, SameTx, Unrecorded, Running, Stranded,
       InTransaction
  <2>2. g # h
    <3>1. SUFFICES ASSUME g = h PROVE FALSE
      OBVIOUS
    <3>2. local'[d][g] \in {tx[d].remote[g], base[d][g]}
      BY <1>7, <2>1, <3>1, UploadedBase DEF PromotesLocal, RestoresLocal
    <3>3. QED
      BY <2>1, <3>1, <3>2 DEF Own
  <2>3. QED
    BY <2>1, <2>2 DEF Own
<1>8. ASSUME NEW h \in Group, Edits(d, h)
      PROVE  Own(d, g, v) \/ (Edits(d, g) /\ v = edits')
  <2>1. /\ tx'[d] = tx[d] /\ base'[d] = base[d] /\ (g # h => local'[d][g] = local[d][g])
    BY <1>8 DEF Edits, Same
  <2>2. \A x, y \in Version : x <= edits => (On(past', x, y) <=> On(past, x, y))
    BY <1>m, PastKept
  <2>3. MadeOf(d, g)
    BY DEF MadeSound
  <2>4. /\ ~On(past, base[d][g], v)
        /\ tx[d] # NoTx /\ g \in tx[d].down => ~On(past, tx[d].remote[g], v)
    BY <1>v, <2>1, <2>2, <2>3 DEF Own, MadeOf
  <2>5. CASE g # h
    BY <1>v, <2>1, <2>2, <2>3, <2>4, <2>5 DEF Own, MadeOf
  <2>6. CASE g = h
    <3>1. local'[d][g] = edits'
      BY <1>8, <2>6 DEF Edits
    <3>2. v = edits' \/ On(past, local[d][g], v)
      BY <1>8, <2>6, <3>1, EditMakes DEF Own
    <3>3. QED
      BY <1>8, <2>4, <2>6, <3>2 DEF Own
  <2>7. QED
    BY <2>5, <2>6
<1>9. QED
  BY <1>m, <1>1, <1>2, <1>3, <1>4, <1>5, <1>6, <1>7, <1>8 DEF MoveOf

(* What is shared once is never the device's own again without its sharing.*)
LEMMA SharingStays ==
    ASSUME TypeOK, PastSound, CauseSound, TxSound, PayloadSound, StrandedSound,
           NEW d \in Device, CalmStep(d), NEW e \in Device, NEW g \in Group, NEW v \in Version,
           Sharing(e, g), Own(e, g, v)', On(past', payload'[g], v)
    PROVE  Sharing(e, g)'
<1>m. MoveOf(d)
  BY DEF CalmStep
<1>1. CASE Stranded(e)
  BY <1>1, StrandedStays DEF Sharing
<1>2. CASE e # d
  BY <1>2 DEF CalmStep, Frame, SameFor, Sharing, Unrecorded, Running, Stranded
<1>3. CASE e = d /\ Unrecorded(d)
  <2>0. g \in tx[d].up /\ pc[d] \in InTransaction \ {"recorded", "closed"}
        /\ ~Stranded(d) /\ tx[d] # NoTx
    BY <1>3 DEF Sharing, Unrecorded, Running, TypeOK
  <2>1. ~Records(d)
    <3>1. SUFFICES ASSUME Records(d) PROVE FALSE
      OBVIOUS
    <3>2. payload[g] = tx[d].local[g]
      BY <1>3, <2>0, <3>1, RecordedBase DEF Records, PayloadSound, PayloadOf
    <3>3. base'[d][g] = tx[d].local[g] /\ payload' = payload
      BY <2>0, <3>1, RecordedBase DEF Records, Still
    <3>4. QED
      BY <1>3, <3>2, <3>3 DEF Own
  <2>2. ~Withdraws(d) /\ ~Restores(d)
    <3>1. SUFFICES ASSUME Withdraws(d) \/ Restores(d) PROVE FALSE
      OBVIOUS
    <3>2. payload[g] = tx[d].remote[g]
      BY <1>3, <2>0, <3>1 DEF Withdraws, Restores, PayloadSound, PayloadOf
    <3>3. base'[d][g] = tx[d].remote[g] /\ payload' = payload
      BY <1>3, <2>0, <3>1, UploadedBase DEF Withdraws, Restores, Ends, Still
    <3>4. QED
      BY <1>3, <3>2, <3>3 DEF Own
  <2>3. \/ Aborts(d) \/ Advances(d) \/ Strands(d) \/ PlansRollback(d)
        \/ \E h \in Group : \/ PromotesRemote(d, h) \/ PromotesLocal(d, h)
                            \/ RestoresRemote(d, h) \/ RestoresLocal(d, h) \/ Edits(d, h)
    BY <1>m, <2>0, <2>1, <2>2 DEF MoveOf, Scans, Refreshes, Plans, Quits, Planning, Prepares,
       Finishes, Recovers, InTransaction
  <2>4. \/ Stranded(d)'
        \/ tx'[d].up = tx[d].up /\ pc'[d] \in InTransaction \ {"recorded", "closed"} /\ ~Stranded(d)'
    BY <2>0, <2>3 DEF Aborts, Advances, Strands, PlansRollback, PromotesRemote, PromotesLocal,
       RestoresRemote, RestoresLocal, Edits, Ends, SameTx, Stranded, InTransaction
  <2>5. QED
    BY <1>3, <2>0, <2>4 DEF Sharing, Unrecorded, Running
<1>4. QED
  BY <1>1, <1>2, <1>3 DEF Sharing

LEMMA OwnStep ==
    ASSUME TypeOK, PastSound, MadeSound, LockSound, CauseSound, TxSound, PayloadSound,
           LocalSound, StrandedSound, OwnSound, NEW d \in Device, CalmStep(d)
    PROVE  OwnSound'
<1> SUFFICES ASSUME NEW e \in Device, NEW g \in Group, NEW v \in Version, Own(e, g, v)'
             PROVE  /\ \A f \in Device : Own(f, g, v)' => f = e
                    /\ On(past', payload'[g], v) => Sharing(e, g)'
  BY DEF OwnSound, OwnOf
<1>m. MoveOf(d)
  BY DEF CalmStep
<1>v. /\ payload[g] \in Version /\ payload[g] <= edits /\ edits \in Nat /\ v \in Nat
      /\ \A f \in Device : local[f][g] \in Version /\ local[f][g] <= edits
      /\ \A x \in Version : x \in Nat
  BY VersionType DEF MadeSound, MadeOf, TypeOK, Version
<1>1. ASSUME NEW f \in Device, Own(f, g, v)'
      PROVE  Own(f, g, v) \/ (f = d /\ Edits(d, g) /\ v = edits')
  BY <1>1, OwnOthers, OwnComes
<1>2. ASSUME Edits(d, g), v = edits'
      PROVE  /\ payload' = payload /\ ~On(past, payload[g], v)
             /\ \A f \in Device : ~Own(f, g, v)
  <2>1. v > edits /\ payload' = payload
    BY <1>2, <1>v DEF Edits
  <2>2. \A x \in Version : x <= edits => ~On(past, x, v)
    BY <1>v, <2>1, Order
  <2>3. QED
    BY <1>v, <2>1, <2>2 DEF Own
<1>k. \A x, y \in Version : x <= edits => (On(past', x, y) <=> On(past, x, y))
  BY <1>m, PastKept
<1>3. ASSUME NEW f \in Device, Own(f, g, v)' PROVE f = e
  BY <1>1, <1>2, <1>3 DEF OwnSound, OwnOf
<1>4. ASSUME On(past', payload'[g], v) PROVE Sharing(e, g)'
  <2>1. Own(e, g, v)
    <3>1. CASE Edits(d, g) /\ v = edits'
      BY <1>2, <1>4, <1>k, <1>v, <3>1
    <3>2. CASE ~(Edits(d, g) /\ v = edits')
      BY <1>1, <3>2
    <3>3. QED
      BY <3>1, <3>2
  <2>2. CASE payload'[g] = payload[g]
    <3>1. Sharing(e, g)
      BY <1>4, <1>k, <1>v, <2>1, <2>2 DEF OwnSound, OwnOf
    <3>2. QED
      BY <1>4, <3>1, SharingStays
  <2>3. CASE payload'[g] # payload[g]
    <3>1. PICK h \in Group : PromotesRemote(d, h) \/ RestoresRemote(d, h)
      BY <1>m, <2>3, PayloadMoves
    <3>2. Unrecorded(d) /\ lock = d
      BY <1>m, <2>3, PayloadMoves
    <3>3. /\ g = h /\ g \in tx[d].up /\ past' = past
          /\ PromotesRemote(d, g) \/ RestoresRemote(d, g)
      BY <2>3, <3>1 DEF PromotesRemote, RestoresRemote
    <3>4. /\ tx[d] # NoTx /\ base[d][g] = tx[d].remote[g] /\ g \notin tx[d].down
          /\ tx[d].remote[g] \in past[tx[d].local[g]]
      BY <3>2, <3>3, UploadedBase
    <3>5. tx[d].local[g] \in Version /\ tx[d].remote[g] \in Version
      BY <3>4, VersionType
    <3>6. On(past, payload[g], v) => Sharing(e, g)'
      <4>1. SUFFICES ASSUME On(past, payload[g], v) PROVE Sharing(e, g)'
        OBVIOUS
      <4>2. Sharing(e, g)
        BY <2>1, <4>1 DEF OwnSound, OwnOf
      <4>3. QED
        BY <1>4, <4>2, SharingStays
    <3>7. CASE RestoresRemote(d, g)
      <4>1. payload'[g] = tx[d].remote[g] /\ payload[g] = tx[d].local[g]
        BY <3>2, <3>3, <3>7 DEF RestoresRemote, PayloadSound, PayloadOf
      <4>2. On(past, tx[d].local[g], tx[d].remote[g])
        BY <3>4 DEF On
      <4>3. On(past, payload[g], v)
        BY <1>4, <3>3, <3>5, <4>1, <4>2, Order
      <4>4. QED
        BY <3>6, <4>3
    <3>8. CASE PromotesRemote(d, g)
      <4>1. payload'[g] = tx[d].local[g] /\ payload[g] = base[d][g]
            /\ Unrecorded(d)' /\ tx'[d] = tx[d]
        BY <3>2, <3>4, <3>8 DEF PromotesRemote, Unrecorded, Running, Stranded, InTransaction
      <4>2. CASE e = d
        BY <3>3, <4>1, <4>2 DEF Sharing
      <4>3. CASE e # d
        <5>1. On(past, local[d][g], tx[d].local[g])
          BY <3>2, <3>4 DEF LocalSound, LocalOf, Unrecorded
        <5>2. On(past, local[d][g], v)
          BY <1>4, <1>v, <3>3, <3>5, <4>1, <5>1, Order
        <5>3. ~Own(d, g, v)
          BY <2>1, <4>3 DEF OwnSound, OwnOf
        <5>4. On(past, base[d][g], v)
          BY <3>4, <5>2, <5>3 DEF Own
        <5>5. QED
          BY <3>6, <4>1, <5>4
      <4>4. QED
        BY <4>2, <4>3
    <3>9. QED
      BY <3>3, <3>7, <3>8
  <2>4. QED
    BY <2>2, <2>3
<1>5. QED
  BY <1>3, <1>4

(* A device's own version stays its own until the payload has it, but for  *)
(* a save written where a rollback was about to restore.                   *)
LEMMA OwnGoes ==
    ASSUME TypeOK, PastSound, MadeSound, CauseSound, TxSound, PayloadSound, LocalSound,
           StrandedSound, OwnSound, NEW d \in Device, CalmStep(d), NEW g \in Group,
           NEW v \in Version, Own(d, g, v)
    PROVE  Own(d, g, v)' \/ On(past', payload'[g], v) \/ v \in raced
<1>m. MoveOf(d)
  BY DEF CalmStep
<1>v. /\ local[d][g] \in Version /\ base[d][g] \in Version
      /\ tx[d] # NoTx => tx[d].local[g] \in Version /\ tx[d].remote[g] \in Version
  BY VersionType
<1>1. CASE Scans(d) \/ Plans(d) \/ Quits(d) \/ Aborts(d) \/ Advances(d) \/ Recovers(d)
           \/ Strands(d) \/ PlansRollback(d)
           \/ \E h \in Group : PromotesRemote(d, h) \/ RestoresRemote(d, h)
  <2>1. /\ local' = local /\ past' = past /\ base'[d] = base[d]
        /\ tx'[d] = tx[d] \/ SameTx(d)
    BY <1>1 DEF Scans, Plans, Quits, Aborts, Advances, Recovers, Strands, PlansRollback,
       PromotesRemote, RestoresRemote, Ends, Same, Still
  <2>2. QED
    BY <2>1 DEF Own, SameTx
<1>2. CASE Refreshes(d)
  <2>1. local' = local /\ past' = past /\ tx'[d] = tx[d] /\ base'[d][g] = base[d][g]
    BY <1>2, RefreshKeeps DEF Refreshes, Still
  <2>2. QED
    BY <2>1 DEF Own
<1>3. CASE Prepares(d)
  <2>1. /\ local' = local /\ past' = past /\ base'[d] = base[d] /\ payload' = payload
        /\ tx'[d].remote = payload
    BY <1>3 DEF Prepares, Same, Still
  <2>2. QED
    BY <2>1 DEF Own
<1>4. CASE Records(d)
  <2>1. local' = local /\ past' = past /\ SameTx(d) /\ payload' = payload
    BY <1>4 DEF Records, Still
  <2>2. CASE g \in tx[d].up
    <3>1. base'[d][g] = payload[g]
      BY <1>4, <2>2, RecordedBase DEF Records, PayloadSound, PayloadOf
    <3>2. g \notin tx[d].down
      BY <1>4, <2>2, RecordedBase
    <3>3. QED
      BY <2>1, <3>1, <3>2 DEF Own, SameTx
  <2>3. CASE g \notin tx[d].up
    <3>1. base'[d][g] = IF g \in tx[d].down THEN tx[d].remote[g] ELSE base[d][g]
      BY <1>4, <2>3, RecordedBase
    <3>2. QED
      BY <2>1, <3>1, <1>4, RecordedBase DEF Own, SameTx
  <2>4. QED
    BY <2>2, <2>3
<1>5. CASE Finishes(d) \/ Withdraws(d) \/ Restores(d)
  <2>1. local' = local /\ past' = past /\ base'[d] = base[d] /\ tx'[d] = NoTx
    BY <1>5 DEF Finishes, Withdraws, Restores, Ends, Still
  <2>2. QED
    BY <2>1 DEF Own
<1>6. ASSUME NEW h \in Group, PromotesLocal(d, h) \/ RestoresLocal(d, h)
      PROVE  Own(d, g, v)' \/ v \in raced
  <2>1. /\ past' = past /\ base'[d] = base[d] /\ tx'[d] = tx[d] /\ tx[d] # NoTx
        /\ h \in tx[d].down /\ Unrecorded(d)
        /\ (g # h => local'[d][g] = local[d][g])
    BY <1>6 DEF PromotesLocal, RestoresLocal, Same, SameTx, Unrecorded, Running, Stranded,
       InTransaction
  <2>2. CASE g # h
    BY <2>1, <2>2 DEF Own
  <2>3. CASE g = h /\ PromotesLocal(d, h)
    <3>1. local[d][g] = base[d][g]
      BY <2>1, <2>3, UploadedBase DEF PromotesLocal
    <3>2. QED
      BY <3>1 DEF Own
  <2>4. CASE g = h /\ RestoresLocal(d, h)
    <3>1. On(past, local[d][g], v) => On(past, tx[d].remote[g], v) \/ v \in raced
      BY <2>1, <2>4 DEF RestoresLocal, LocalSound, LocalOf
    <3>2. QED
      BY <2>1, <2>4, <3>1 DEF Own
  <2>5. QED
    BY <1>6, <2>2, <2>3, <2>4
<1>7. ASSUME NEW h \in Group, Edits(d, h) PROVE Own(d, g, v)'
  <2>1. /\ tx'[d] = tx[d] /\ base'[d] = base[d] /\ (g # h => local'[d][g] = local[d][g])
    BY <1>7 DEF Edits, Same
  <2>2. \A x, y \in Version : x <= edits => (On(past', x, y) <=> On(past, x, y))
    BY <1>m, PastKept
  <2>3. MadeOf(d, g)
    BY DEF MadeSound
  <2>4. /\ ~On(past', base'[d][g], v)
        /\ tx'[d] # NoTx /\ g \in tx'[d].down => ~On(past', tx'[d].remote[g], v)
    BY <1>v, <2>1, <2>2, <2>3 DEF Own, MadeOf
  <2>5. On(past', local'[d][g], v)
    <3>1. CASE g # h
      BY <1>v, <2>1, <2>2, <2>3, <3>1 DEF Own, MadeOf
    <3>2. CASE g = h
      BY <1>7, <3>2, EditMakes DEF Own, Edits
    <3>3. QED
      BY <3>1, <3>2
  <2>6. QED
    BY <2>4, <2>5 DEF Own
<1>8. QED
  BY <1>m, <1>1, <1>2, <1>3, <1>4, <1>5, <1>6, <1>7 DEF MoveOf

LEMMA HeldStep ==
    ASSUME TypeOK, PastSound, MadeSound, LockSound, CauseSound, TxSound, PayloadSound,
           LocalSound, StrandedSound, OwnSound, Held, NEW d \in Device, CalmStep(d)
    PROVE  Held'
<1>m. MoveOf(d)
  BY DEF CalmStep
<1>t. edits \in Nat /\ edits' \in Nat /\ edits' <= MaxEdits /\ raced \subseteq raced'
  <2>1. edits \in 0..MaxEdits /\ edits' \in Nat /\ raced \subseteq raced'
    BY <1>m, PastKept DEF TypeOK
  <2>2. edits' <= MaxEdits
    <3>1. (\E g \in Group : Edits(d, g)) \/ edits' = edits
      BY <1>m, PastKept
    <3>2. (\E g \in Group : Edits(d, g)) => edits' \in Version
      BY DEF Edits
    <3>3. QED
      BY <2>1, <3>1, <3>2 DEF Version
  <2>3. QED
    BY <2>1, <2>2
<1> SUFFICES ASSUME NEW v \in 1..edits', v \notin raced'
             PROVE  \E g \in Group : HeldBy(g, v)'
  BY DEF Held
<1>v. v \in Version /\ v \in Nat
  BY <1>t DEF Version
<1>1. CASE v <= edits
  <2>1. PICK g \in Group : HeldBy(g, v)
    BY <1>t, <1>1 DEF Held
  <2>p. payload[g] \in Version /\ payload[g] <= edits
    BY VersionType DEF MadeSound
  <2>k. \A x, y \in Version : x <= edits => (On(past', x, y) <=> On(past, x, y))
    BY <1>m, PastKept
  <2>2. ASSUME NEW e \in Device, Own(e, g, v) PROVE HeldBy(g, v)'
    <3>1. CASE e # d
      <4>1. Own(e, g, v)'
        BY <1>v, <2>2, <3>1, OwnOthers
      <4>2. QED
        BY <4>1 DEF HeldBy
    <3>2. CASE e = d
      <4>1. Own(d, g, v)' \/ On(past', payload'[g], v)
        BY <1>t, <1>v, <2>2, <3>2, OwnGoes
      <4>2. QED
        BY <4>1 DEF HeldBy
    <3>3. QED
      BY <3>1, <3>2
  <2>3. ASSUME On(past, payload[g], v) PROVE HeldBy(g, v)'
    <3>1. CASE payload'[g] = payload[g]
      BY <1>v, <2>3, <2>k, <2>p, <3>1 DEF HeldBy
    <3>2. CASE payload'[g] # payload[g]
      <4>1. /\ Unrecorded(d) /\ lock = d
            /\ \E h \in Group : PromotesRemote(d, h) \/ RestoresRemote(d, h)
        BY <1>m, <3>2, PayloadMoves
      <4>2. /\ g \in tx[d].up /\ past' = past /\ base'[d] = base[d] /\ tx'[d] = tx[d]
            /\ local' = local
            /\ PromotesRemote(d, g) \/ RestoresRemote(d, g)
        BY <3>2, <4>1 DEF PromotesRemote, RestoresRemote, Same
      <4>3. /\ tx[d] # NoTx /\ base[d][g] = tx[d].remote[g] /\ g \notin tx[d].down
            /\ tx[d].remote[g] \in past[tx[d].local[g]]
        BY <4>1, <4>2, UploadedBase
      <4>4. /\ tx[d].local[g] \in Version /\ tx[d].remote[g] \in Version
            /\ local[d][g] \in Version
        BY <4>3, VersionType
      <4>5. CASE PromotesRemote(d, g)
        <5>1. On(past, payload'[g], payload[g]) /\ payload'[g] \in Version
          BY <4>3, <4>4, <4>5 DEF PromotesRemote, On
        <5>2. On(past', payload'[g], v)
          BY <1>v, <2>3, <2>p, <4>2, <5>1, Order
        <5>3. QED
          BY <5>2 DEF HeldBy
      <4>6. CASE RestoresRemote(d, g)
        <5>1. payload'[g] = tx[d].remote[g] /\ payload[g] = tx[d].local[g]
          BY <4>1, <4>2, <4>6 DEF RestoresRemote, PayloadSound, PayloadOf
        <5>2. On(past, local[d][g], tx[d].local[g])
          BY <4>1, <4>3 DEF LocalSound, LocalOf, Unrecorded
        <5>3. On(past, local[d][g], v)
          BY <1>v, <2>3, <4>4, <5>1, <5>2, Order
        <5>4. On(past', payload'[g], v) \/ Own(d, g, v)'
          BY <4>2, <4>3, <5>1, <5>3 DEF Own
        <5>5. QED
          BY <5>4 DEF HeldBy
      <4>7. QED
        BY <4>2, <4>5, <4>6
    <3>3. QED
      BY <3>1, <3>2
  <2>4. QED
    BY <2>1, <2>2, <2>3 DEF HeldBy
<1>2. CASE ~(v <= edits)
  <2>1. PICK g \in Group : Edits(d, g)
    BY <1>m, <1>t, <1>2, PastKept
  <2>2. v = edits' /\ local'[d][g] = v /\ base'[d] = base[d] /\ tx'[d] = tx[d]
    BY <1>t, <1>2, <2>1 DEF Edits, Same
  <2>3. MadeOf(d, g)
    BY DEF MadeSound
  <2>4. /\ base[d][g] \in Version
        /\ tx[d] # NoTx => tx[d].remote[g] \in Version
    BY VersionType
  <2>5. \A x, y \in Version : x <= edits => (On(past', x, y) <=> On(past, x, y))
    BY <1>m, PastKept
  <2>6. \A x \in Version : x <= edits => ~On(past, x, v)
    BY <1>2, <1>t, <1>v, Order DEF Version
  <2>7. Own(d, g, v)'
    BY <1>v, <2>2, <2>3, <2>4, <2>5, <2>6 DEF Own, MadeOf, On
  <2>8. QED
    BY <2>7 DEF HeldBy
<1>3. QED
  BY <1>1, <1>2

-----------------------------------------------------------------------------
(* The index.                                                              *)

(* What the holder of the commit lock uploads, nobody else changes.        *)
LEMMA OthersHead ==
    ASSUME TypeOK, LockSound, CauseSound, NEW d \in Device, StepOf(d), CalmStep(d),
           NEW e \in Device, e # d, lock = e
    PROVE  payload' = payload /\ head' = head /\ lock' = e
<1>1. head' = head
  BY HeadChanges
<1>2. payload' = payload
  BY PayloadMoves DEF CalmStep
<1>3. QED
  BY <1>1, <1>2 DEF CalmStep, Frame

(* Nobody publishes an interrupted upload forward while no journal is left.*)
LEMMA CalmHead ==
    ASSUME TypeOK, LockSound, Calm, NEW d \in Device, StepOf(d), head' # head
    PROVE  lock = d /\ (PublishForward(d) \/ Publish(d))
<1>1. ~Rebuild(d)
  BY NoFull DEF Calm, Rebuild, At
<1>2. QED
  BY <1>1, HeadChanges

LEMMA UploaderOthers ==
    ASSUME NEW d \in Device, CalmStep(d), NEW e \in Device, e # d, NEW g \in Group
    PROVE  Uploader(e, g) => Uploader(e, g)'
BY DEF Uploader, Unrecorded, Running, Stranded, CalmStep, Frame, SameFor

(* An upload that ends has published what it promoted, or put it back.     *)
LEMMA UploaderGoes ==
    ASSUME TypeOK, LockSound, Calm, CauseSound, TxSound, PayloadSound, IndexSound,
           NEW d \in Device, StepOf(d), CalmStep(d), NEW g \in Group, Uploader(d, g),
           ~Stranded(d)'
    PROVE  Uploader(d, g)' \/ head'[g].ver = payload'[g]
<1>m. MoveOf(d)
  BY DEF CalmStep
<1>0. /\ lock = d /\ g \in tx[d].up /\ Unrecorded(d) /\ tx[d] # NoTx /\ ~Stranded(d)
      /\ pc[d] \in {"promoting", "verified", "rollback", "restoring"}
  BY DEF Uploader, Unrecorded, Running, InTransaction, TypeOK
<1>1. CASE Publish(d)
  <2>1. head'[g].ver = tx[d].local[g]
    <3>1. full[d] = FALSE /\ tx[d].up # {}
      BY <1>0, NoFull DEF Calm
    <3>2. PublishGroups(tx[d].up, tx[d].local, tx[d].op)
      BY <1>1, <3>1 DEF Publish
    <3>3. QED
      BY <1>0, <3>2 DEF PublishGroups
  <2>2. todo[d] = {} /\ pc[d] = "verified" /\ payload' = payload
    BY <1>1 DEF Publish, At, CauseSound, CauseOf
  <2>3. payload[g] = tx[d].local[g]
    BY <1>0, <2>2 DEF PayloadSound, PayloadOf
  <2>4. QED
    BY <2>1, <2>2, <2>3
<1>2. CASE Withdraws(d) \/ Restores(d)
  <2>1. payload' = payload /\ payload[g] = tx[d].remote[g]
    BY <1>0, <1>2 DEF Withdraws, Restores, Still, PayloadSound, PayloadOf
  <2>2. head[g].ver = tx[d].remote[g]
    BY DEF IndexSound, HeadOf
  <2>3. head' = head
    <3>1. pc[d] \notin {"locked", "verified"}
      BY <1>2 DEF Withdraws, Restores
    <3>2. QED
      BY <3>1, CalmHead DEF PublishForward, Publish, At
  <2>4. QED
    BY <2>1, <2>2, <2>3
<1>3. CASE ~Publish(d) /\ ~Withdraws(d) /\ ~Restores(d)
  <2>1. \/ Aborts(d) \/ (Advances(d) /\ pc[d] = "promoting") \/ PlansRollback(d)
        \/ \E h \in Group : \/ PromotesRemote(d, h) \/ PromotesLocal(d, h)
                            \/ RestoresRemote(d, h) \/ RestoresLocal(d, h) \/ Edits(d, h)
    <3>1. ~Strands(d)
      BY DEF Strands, Ends, Stranded
    <3>2. QED
      BY <1>m, <1>0, <1>3, <3>1 DEF MoveOf, Scans, Refreshes, Plans, Quits, Planning, Prepares,
         Records, Advances, Finishes, Recovers
  <2>2. /\ pc'[d] \in {"promoting", "verified", "rollback", "restoring"}
        /\ tx'[d].up = tx[d].up /\ lock' = lock
    BY <1>0, <2>1 DEF Aborts, Advances, PlansRollback, PromotesRemote, PromotesLocal,
       RestoresRemote, RestoresLocal, Edits, SameTx, Same
  <2>3. QED
    BY <1>0, <2>2 DEF Uploader, Unrecorded, Running, InTransaction
<1>4. QED
  BY <1>1, <1>2, <1>3

(* An intent is left by the operation that retires it, with its journal.   *)
LEMMA CoversGoes ==
    ASSUME TypeOK, TypeOK', CauseSound, TxSound, IntentSound, NEW d \in Device, CalmStep(d), Covers(d),
           intent # NoIntent, intent' = intent, ~Stranded(d)'
    PROVE  Covers(d)'
<1>m. MoveOf(d)
  BY DEF CalmStep
<1>0. lock = d /\ intent.op = plan[d].op
  BY DEF Covers
<1>1. CASE pc[d] = "begun"
  <2>1. Prepares(d) \/ \E h \in Group : Edits(d, h)
    BY <1>m, <1>0, <1>1 DEF MoveOf, Scans, Refreshes, Plans, Quits, Retires, Aborts, Advances,
       Records, Finishes, Recovers, Strands, Withdraws, PlansRollback, Restores, PromotesRemote,
       PromotesLocal, RestoresRemote, RestoresLocal
  <2>2. QED
    BY <1>0, <1>1, <2>1 DEF Covers, Prepares, Edits, Same, Running, Stranded, InTransaction
<1>2. CASE Running(d) /\ pc[d] # "closed"
  <2>1. pc[d] \in InTransaction \ {"closed"} /\ tx[d] # NoTx
    BY <1>2 DEF Running, TypeOK
  <2>2. ~(Advances(d) /\ pc[d] = "recorded")
    <3>1. SUFFICES ASSUME Advances(d), pc[d] = "recorded" PROVE FALSE
      OBVIOUS
    <3>2. Uploading(d) # {} /\ Uploading(d) = tx[d].up
      BY <1>0, <3>1 DEF IntentSound, Uploading, Active
    <3>3. QED
      BY <3>1, <3>2 DEF Advances
  <2>3. \/ Aborts(d) \/ Advances(d) \/ Records(d) \/ PlansRollback(d)
        \/ \E h \in Group : \/ PromotesRemote(d, h) \/ PromotesLocal(d, h)
                            \/ RestoresRemote(d, h) \/ RestoresLocal(d, h) \/ Edits(d, h)
    <3>1. ~Strands(d)
      BY DEF Strands, Ends, Stranded
    <3>2. ~Withdraws(d) /\ ~Restores(d)
      BY <1>0 DEF Withdraws, Restores, Retires
    <3>3. QED
      BY <1>m, <2>1, <3>1, <3>2 DEF MoveOf, Scans, Refreshes, Plans, Quits, Planning, Prepares,
         Finishes, Recovers, InTransaction
  <2>4. /\ pc'[d] \in InTransaction \ {"closed"} /\ lock' = lock /\ plan'[d] = plan[d]
    BY <1>2, <2>1, <2>2, <2>3 DEF Aborts, Advances, Records, PlansRollback, PromotesRemote,
       PromotesLocal, RestoresRemote, RestoresLocal, Edits, Same, InTransaction
  <2>5. QED
    BY <1>0, <2>4 DEF Covers, Running
<1>3. QED
  BY <1>1, <1>2 DEF Covers

LEMMA HeadOwn ==
    ASSUME TypeOK, TypeOK', LockSound, Calm, CauseSound, TxSound, StrandedSound, IndexSound,
           NEW d \in Device, StepOf(d), CalmStep(d)
    PROVE  HeadOf(d)'
<1>m. MoveOf(d)
  BY DEF CalmStep
<1>1. ASSUME pc'[d] = "begun" PROVE \A g \in Up(d)' : head'[g].ver = payload'[g]
  <2>1. head' = head
    BY <1>1, CalmHead DEF PublishForward, Publish, At, procVars, Go, TypeOK
  <2>2. CASE Plans(d)
    <3>1. Up(d)' = Up(d) /\ payload' = payload
      BY <2>2 DEF Plans, Up, Still
    <3>2. QED
      BY <1>1, <2>1, <2>2, <3>1 DEF Plans
  <2>3. CASE \E h \in Group : Edits(d, h)
    <3>1. Up(d)' = Up(d) /\ payload' = payload /\ pc[d] = "begun"
      BY <1>1, <2>3 DEF Edits, Same, Up
    <3>2. QED
      BY <2>1, <3>1 DEF IndexSound, HeadOf
  <2>4. QED
    BY <1>m, <1>1, <2>2, <2>3 DEF MoveOf, Scans, Refreshes, Quits, Ends, Prepares, Aborts,
       Advances, Records, Finishes, Recovers, Strands, Withdraws, PlansRollback, Restores,
       PromotesRemote, PromotesLocal, RestoresRemote, RestoresLocal
<1>2. ASSUME NEW g \in Group, Uploader(d, g)' PROVE head'[g].ver = tx'[d].remote[g]
  <2>1. /\ pc'[d] \in {"promoting", "verified", "rollback", "restoring"} /\ ~Stranded(d)'
        /\ g \in tx'[d].up /\ tx'[d] # NoTx
    BY <1>2 DEF Uploader, Unrecorded, Running, InTransaction, TypeOK
  <2>2. head' = head
    BY <2>1, CalmHead DEF PublishForward, Publish, At, procVars, Go, TypeOK
  <2>3. CASE Prepares(d)
    BY <2>1, <2>2, <2>3 DEF Prepares, IndexSound, HeadOf
  <2>4. CASE ~Prepares(d)
    <3>1. \/ Aborts(d) \/ (Advances(d) /\ pc[d] = "promoting") \/ PlansRollback(d)
          \/ \E h \in Group : \/ PromotesRemote(d, h) \/ PromotesLocal(d, h)
                              \/ RestoresRemote(d, h) \/ RestoresLocal(d, h) \/ Edits(d, h)
      <4>1. ~Recovers(d)
        BY <2>1 DEF Recovers, Stranded
      <4>2. QED
        BY <1>m, <2>1, <2>4, <4>1 DEF MoveOf, Scans, Refreshes, Plans, Quits, Planning, Ends,
           Records, Advances, Finishes, Strands, Withdraws, Restores
    <3>2. /\ tx[d] # NoTx /\ tx[d].up = tx'[d].up /\ tx[d].remote = tx'[d].remote
          /\ pc[d] \in {"promoting", "verified", "rollback", "restoring"}
          /\ cause[d] = cause'[d] \/ pc[d] = "promoting"
          /\ lock' = lock
      BY <2>1, <3>1 DEF Aborts, Advances, PlansRollback, PromotesRemote, PromotesLocal,
         RestoresRemote, RestoresLocal, Edits, SameTx, Same
    <3>3. ~Stranded(d)
      <4>1. ~(PlansRollback(d) /\ Stranded(d))
        BY PlansNotStranded DEF StrandedSound
      <4>2. QED
        BY <2>1, <3>1, <3>2, <4>1 DEF Stranded, Aborts, Advances, PromotesRemote, PromotesLocal,
           RestoresRemote, RestoresLocal, Edits
    <3>4. Uploader(d, g)
      BY <1>2, <2>1, <3>2, <3>3 DEF Uploader, Unrecorded, Running, InTransaction
    <3>5. QED
      BY <2>2, <3>2, <3>4 DEF IndexSound, HeadOf
  <2>5. QED
    BY <2>3, <2>4
<1>3. QED
  BY <1>1, <1>2 DEF HeadOf

LEMMA IndexStep ==
    ASSUME TypeOK, TypeOK', LockSound, IntentSound, Calm, CauseSound, TxSound, PayloadSound,
           StrandedSound, IndexSound, NEW d \in Device, StepOf(d), CalmStep(d)
    PROVE  IndexSound'
<1>m. MoveOf(d)
  BY DEF CalmStep
<1>s. ~AnyStranded' => ~AnyStranded /\ ~Stranded(d)'
  BY StrandedStays DEF AnyStranded
<1>1. ASSUME ~AnyStranded', NEW g \in Group
      PROVE  head'[g].ver = payload'[g] \/ \E e \in Device : Uploader(e, g)'
  <2>1. CASE \E e \in Device : Uploader(e, g)
    <3>1. PICK e \in Device : Uploader(e, g)
      BY <2>1
    <3>2. CASE e # d
      BY <3>1, <3>2, UploaderOthers
    <3>3. CASE e = d
      BY <1>1, <1>s, <3>1, <3>3, UploaderGoes
    <3>4. QED
      BY <3>2, <3>3
  <2>2. CASE ~\E e \in Device : Uploader(e, g)
    <3>1. head[g].ver = payload[g] /\ ~Uploader(d, g)
      BY <1>1, <1>s, <2>2 DEF IndexSound
    <3>2. payload'[g] = payload[g]
      <4>1. SUFFICES ASSUME payload'[g] # payload[g] PROVE FALSE
        OBVIOUS
      <4>2. /\ Unrecorded(d) /\ lock = d
            /\ \E h \in Group : PromotesRemote(d, h) \/ RestoresRemote(d, h)
        BY <1>m, <4>1, PayloadMoves
      <4>3. g \in tx[d].up /\ pc[d] # "published"
        BY <4>1, <4>2 DEF PromotesRemote, RestoresRemote
      <4>4. QED
        BY <3>1, <4>2, <4>3 DEF Uploader
    <3>3. head'[g] = head[g]
      <4>1. SUFFICES ASSUME head'[g] # head[g] PROVE FALSE
        OBVIOUS
      <4>2. lock = d /\ (PublishForward(d) \/ Publish(d))
        BY <4>1, CalmHead
      <4>3. ~PublishForward(d)
        <5>1. SUFFICES ASSUME PublishForward(d) PROVE FALSE
          OBVIOUS
        <5>2. pc[d] = "locked" /\ intent # NoIntent
          BY <5>1 DEF PublishForward, At
        <5>3. PICK e \in Device : Covers(e)
          BY <1>1, <1>s, <5>2 DEF IndexSound
        <5>4. QED
          BY <4>2, <5>2, <5>3 DEF Covers, Running, InTransaction
      <4>4. pc[d] = "verified" /\ g \in tx[d].up
        <5>1. Publish(d) /\ full[d] = FALSE /\ head' # head
          BY <4>1, <4>2, <4>3, NoFull DEF Calm
        <5>2. PublishGroups(tx[d].up, tx[d].local, tx[d].op) /\ pc[d] = "verified"
          BY <5>1 DEF Publish, At
        <5>3. QED
          BY <4>1, <5>2 DEF PublishGroups
      <4>5. Unrecorded(d)
        BY <4>4 DEF Unrecorded, Running, Stranded, InTransaction
      <4>6. QED
        BY <3>1, <4>2, <4>4, <4>5 DEF Uploader
    <3>4. QED
      BY <3>1, <3>2, <3>3
  <2>3. QED
    BY <2>1, <2>2
<1>2. ASSUME ~AnyStranded', intent' # NoIntent PROVE \E e \in Device : Covers(e)'
  <2>1. CASE intent' = intent
    <3>1. PICK e \in Device : Covers(e)
      BY <1>2, <1>s, <2>1 DEF IndexSound
    <3>2. CASE e # d
      BY <2>1, <3>1, <3>2 DEF CalmStep, Frame, SameFor, Covers, Running, Stranded
    <3>3. CASE e = d
      BY <1>2, <1>s, <2>1, <3>1, <3>3, CoversGoes
    <3>4. QED
      BY <3>2, <3>3
  <2>2. CASE intent' # intent
    <3>1. /\ intent'.op = plan[d].op /\ plan' = plan /\ lock' = lock
          /\ pc' = [pc EXCEPT ![d] = "begun"] /\ pc[d] = "locked"
      BY <1>2, <2>2, IntentChanges
    <3>2. lock = d
      BY <3>1 DEF LockSound, LockOf, At
    <3>3. pc'[d] = "begun"
      BY <3>1 DEF TypeOK
    <3>4. Covers(d)'
      BY <3>1, <3>2, <3>3 DEF Covers
    <3>5. QED
      BY <3>4
  <2>3. QED
    BY <2>1, <2>2
<1>3. ASSUME NEW e \in Device PROVE HeadOf(e)'
  <2>1. CASE e = d
    BY <2>1, HeadOwn
  <2>2. CASE e # d
    <3>1. SameFor(e) /\ HeadOf(e)
      BY <2>2 DEF CalmStep, Frame, IndexSound
    <3>2. Up(e)' = Up(e) /\ (Unrecorded(e)' <=> Unrecorded(e))
      BY <3>1 DEF SameFor, Up, Unrecorded, Running, Stranded
    <3>3. ASSUME pc'[e] = "begun", NEW g \in Up(e)' PROVE head'[g].ver = payload'[g]
      <4>1. pc[e] = "begun" /\ g \in Up(e)
        BY <3>1, <3>2, <3>3 DEF SameFor
      <4>2. lock = e
        BY <4>1 DEF LockSound, LockOf, Uploading
      <4>3. QED
        BY <2>2, <3>1, <4>1, <4>2, OthersHead DEF HeadOf
    <3>4. ASSUME NEW g \in Group, Uploader(e, g)' PROVE head'[g].ver = tx'[e].remote[g]
      <4>1. Unrecorded(e) /\ g \in tx[e].up /\ pc[e] # "published" /\ tx'[e] = tx[e]
        BY <3>1, <3>2, <3>4 DEF Uploader, SameFor
      <4>2. lock = e
        BY <4>1, UploadLocks
      <4>3. Uploader(e, g) /\ head' = head
        BY <2>2, <4>1, <4>2, OthersHead DEF Uploader
      <4>4. QED
        BY <3>1, <4>1, <4>3 DEF HeadOf
    <3>5. QED
      BY <3>3, <3>4 DEF HeadOf
  <2>3. QED
    BY <2>1, <2>2
<1>4. QED
  BY <1>1, <1>2, <1>3 DEF IndexSound

-----------------------------------------------------------------------------
(* The theorems.                                                           *)

LEMMA InitPeace == Init => Peace
<1> SUFFICES ASSUME Init PROVE Peace
  OBVIOUS
<1>o. 0 \in Version /\ \A g \in Group : Origin[g] = 0
  BY DEF Version, Origin
<1>i. /\ payload = Origin /\ intent = NoIntent /\ edits = 0 /\ ops = 0
      /\ \A w \in Version : past[w] = {}
      /\ \A d \in Device : /\ local[d] = Origin /\ base[d] = Origin /\ tx[d] = NoTx
                           /\ pc[d] = "idle" /\ plan[d] = NoPlan /\ receipt[d] = 0
      /\ \A g \in Group : head[g].ver = 0
  BY DEF Init
<1>r. \A d \in Device : ~Stranded(d) /\ ~Running(d) /\ ~Unrecorded(d) /\ ~Planning(d)
                        /\ pc[d] \notin InTransaction
  BY <1>i DEF Stranded, Running, Unrecorded, Planning, InTransaction
<1>1. PastSound
  BY <1>i DEF PastSound
<1>2. MadeSound
  BY <1>i, <1>o DEF MadeSound, MadeOf, NoPlan
<1>3. CauseSound
  BY <1>i, <1>r DEF CauseSound, CauseOf, InTransaction
<1>4. TxSound
  BY <1>i, <1>r DEF TxSound, TxOf
<1>5. PayloadSound
  BY <1>r DEF PayloadSound, PayloadOf
<1>6. LocalSound
  BY <1>i, <1>r DEF LocalSound, LocalOf, On
<1>7. StrandedSound
  BY <1>r DEF StrandedSound, StrandedOf
<1>8. IndexSound
  BY <1>i, <1>o, <1>r DEF IndexSound, HeadOf, Uploader
<1>9. OwnSound
  BY <1>i DEF OwnSound, OwnOf, Own
<1>10. Held
  BY <1>i DEF Held
<1>11. QED
  BY <1>1, <1>2, <1>3, <1>4, <1>5, <1>6, <1>7, <1>8, <1>9, <1>10 DEF Peace

LEMMA CalmInvStep == CalmInv /\ [Next]_vars => CalmInv'
<1> SUFFICES ASSUME CalmInv, [Next]_vars PROVE CalmInv'
  OBVIOUS
<1>1. IInv /\ IInv' /\ TypeOK /\ TypeOK' /\ LockSound /\ IdsSound /\ IntentSound
  BY IInvStep DEF CalmInv, IInv
<1>2. CASE UNCHANGED vars
  <2> USE <1>2 DEF vars, remoteVars, deviceVars, procVars, ghosts, bounds
  <2>0. Calm' => Peace
    BY DEF CalmInv, Calm
  <2>1. PastSound => PastSound'
    BY DEF PastSound
  <2>2. MadeSound => MadeSound'
    BY DEF MadeSound, MadeOf
  <2> USE DEF Stranded, Running, Unrecorded, Planning, Up, Down, On
  <2>3. (CauseSound => CauseSound') /\ (TxSound => TxSound') /\ (PayloadSound => PayloadSound')
    BY DEF CauseSound, CauseOf, TxSound, TxOf, PayloadSound, PayloadOf
  <2>4. (LocalSound => LocalSound') /\ (StrandedSound => StrandedSound')
    BY DEF LocalSound, LocalOf, From, Newer, StrandedSound, StrandedOf
  <2>5. IndexSound => IndexSound'
    BY DEF IndexSound, HeadOf, Uploader, Covers, AnyStranded
  <2>6. (OwnSound => OwnSound') /\ (Held => Held')
    BY DEF OwnSound, OwnOf, Own, Sharing, Held, HeldBy
  <2>7. QED
    BY <1>1, <2>0, <2>1, <2>2, <2>3, <2>4, <2>5, <2>6 DEF CalmInv, Peace
<1>3. CASE Next
  <2> SUFFICES ASSUME Calm' PROVE Peace'
    BY <1>1 DEF CalmInv
  <2>1. PICK d \in Device : StepOf(d)
    BY <1>3 DEF Next, StepOf
  <2>2. Calm
    BY <1>1, <2>1, CalmBefore
  <2>3. /\ PastSound /\ MadeSound /\ CauseSound /\ TxSound /\ PayloadSound
        /\ LocalSound /\ StrandedSound /\ IndexSound /\ OwnSound /\ Held
    BY <2>2 DEF CalmInv, Peace
  <2>4. CalmStep(d)
    BY <1>1, <2>1, <2>3, CalmStepIs
  <2>5. PastSound' /\ MadeSound'
    BY <1>1, <2>3, <2>4, PastStep, MadeStep
  <2>6. CauseSound' /\ TxSound' /\ PayloadSound'
    BY <1>1, <2>3, <2>4, CauseStep, TxStep, PayloadStep
  <2>7. LocalSound' /\ StrandedSound'
    BY <1>1, <2>3, <2>4, LocalStep, StrandedStep
  <2>8. IndexSound'
    BY <1>1, <2>1, <2>2, <2>3, <2>4, IndexStep
  <2>9. OwnSound' /\ Held'
    BY <1>1, <2>3, <2>4, OwnStep, HeldStep
  <2>10. QED
    BY <2>5, <2>6, <2>7, <2>8, <2>9 DEF Peace
<1>4. QED
  BY <1>2, <1>3

LEMMA CalmInductive == Spec => []CalmInv
<1>1. Init => CalmInv
  BY InitInv, InitPeace DEF CalmInv
<1>2. QED
  BY <1>1, CalmInvStep, PTL DEF Spec

(* Without faults and Full Syncs no save is lost, whatever devices edit    *)
(* and sync, however the steps of their transactions interleave: each is   *)
(* part of the payload or of the save of the device that made it           *)
(* (three-way reconciliation, promotion and rollback in services/saves.py).*)
THEOREM CalmKeepsProgress == Spec => [](Calm => NoProgressLost)
<1>1. CalmInv => (Calm => NoProgressLost)
  <2> SUFFICES ASSUME CalmInv, Calm, NEW v \in (1..edits) \ raced
               PROVE  \E g \in Group : \/ Extends(payload[g], v)
                                       \/ \E d \in Device : Extends(local[d][g], v)
    BY DEF NoProgressLost
  <2>1. PICK g \in Group : HeldBy(g, v)
    BY DEF CalmInv, Peace, Held
  <2>2. QED
    BY <2>1 DEF HeldBy, Own, On, Extends
<1>2. QED
  BY <1>1, CalmInductive, PTL

(* Without faults and Full Syncs, when nobody holds the commit lock and no *)
(* device has a journal, the index describes the payload and no intent is  *)
(* left: what a rollback puts back was never published, and what ends      *)
(* retires its intent (_RemoteCommit.publish, close and abandon).          *)
THEOREM CalmIndexIsHonest == Spec => [](Calm => IndexHonest)
<1>1. CalmInv => (Calm => IndexHonest)
  <2> SUFFICES ASSUME CalmInv, Calm, AtRest
               PROVE  intent = NoIntent /\ \A g \in Group : head[g].ver = payload[g]
    BY DEF IndexHonest, IndexMatchesPayload, IntentRetired
  <2>1. IndexSound /\ \A d \in Device : tx[d] = NoTx /\ lock # d
    BY DEF CalmInv, Peace, AtRest
  <2>2. ~AnyStranded /\ \A d \in Device : ~Covers(d) /\ \A g \in Group : ~Uploader(d, g)
    BY <2>1 DEF AnyStranded, Stranded, Covers, Uploader
  <2>3. QED
    BY <2>1, <2>2 DEF IndexSound
<1>2. QED
  BY <1>1, CalmInductive, PTL

(* Without faults and Full Syncs a version the index tells peers of is     *)
(* replaced in the payload only by a save made on top of it, however old   *)
(* the plan that a device carries out (_promote_manifest, and the          *)
(* restoration of a transaction, which never puts back over a published    *)
(* one).                                                                   *)
THEOREM CalmNeverRegresses == Spec /\ []Calm => PublishedNeverRegresses
<1>1. CalmInv /\ Calm /\ Calm' /\ [Next]_vars =>
        [\A g \in Group : payload[g] = head[g].ver /\ payload'[g] # payload[g]
                       => payload[g] \in past[payload'[g]]]_vars
  <2> SUFFICES ASSUME CalmInv, Calm, Calm', [Next]_vars, ~UNCHANGED vars, NEW g \in Group,
                      payload[g] = head[g].ver, payload'[g] # payload[g]
               PROVE  payload[g] \in past[payload'[g]]
    OBVIOUS
  <2>1. PICK d \in Device : StepOf(d)
    BY DEF Next, StepOf
  <2>2. TypeOK /\ LockSound /\ CauseSound /\ TxSound /\ PayloadSound /\ IndexSound
    BY DEF CalmInv, IInv, Peace
  <2>3. MoveOf(d)
    BY <2>1, <2>2, CalmMoves
  <2>4. /\ Unrecorded(d) /\ lock = d
        /\ \E h \in Group : PromotesRemote(d, h) \/ RestoresRemote(d, h)
    BY <2>2, <2>3, PayloadMoves
  <2>5. g \in tx[d].up /\ (PromotesRemote(d, g) \/ RestoresRemote(d, g))
    BY <2>4 DEF PromotesRemote, RestoresRemote
  <2>6. tx[d].remote[g] \in past[tx[d].local[g]]
    BY <2>2, <2>4, <2>5, UploadedBase
  <2>7. ~RestoresRemote(d, g)
    <3>1. SUFFICES ASSUME RestoresRemote(d, g) PROVE FALSE
      OBVIOUS
    <3>2. Uploader(d, g)
      BY <2>4, <2>5, <3>1 DEF Uploader, RestoresRemote
    <3>3. head[g].ver = tx[d].remote[g] /\ payload'[g] = tx[d].remote[g]
      BY <2>2, <3>1, <3>2 DEF IndexSound, HeadOf, RestoresRemote
    <3>4. QED
      BY <3>3
  <2>8. QED
    BY <2>5, <2>6, <2>7 DEF PromotesRemote
<1>2. QED
  BY <1>1, CalmInductive, PTL DEF Spec, PublishedNeverRegresses
-----------------------------------------------------------------------------
(* Without faults the commit protocol implements SharedSaves.              *)

(* A save made is Save.                                                    *)
LEMMA EditIsSave ==
    ASSUME TypeOK, TypeOK', MadeSound, UNCHANGED <<payload, head>>,
           NEW d \in Device, NEW g \in Group, Edits(d, g)
    PROVE  Shared!Save
<1>1. edits \in Nat /\ MaxEdits \in Nat /\ edits' = edits + 1 /\ edits' \in 0..MaxEdits
  BY Bounds DEF TypeOK, Edits, Version
<1>2. local[d][g] \in 0..edits
  BY <1>1, VersionType DEF MadeSound, MadeOf, Version
<1>3. past' = [past EXCEPT ![edits'] = past[local[d][g]] \cup {local[d][g]}]
  BY DEF TypeOK, Edits
<1>4. edits < MaxEdits
  BY <1>1
<1>5. \E v \in 0..edits : past' = [past EXCEPT ![edits'] = past[v] \cup {v}]
  BY <1>2, <1>3
<1>6. UNCHANGED <<[h \in Group |-> head[h].ver], payload>>
  OBVIOUS
<1>7. QED
  BY <1>1, <1>4, <1>5, <1>6 DEF Shared!Save

(* A promoted save is Offer: the index still tells what the payload holds, *)
(* and the save was made on top of it.                                     *)
LEMMA PromotionIsOffer ==
    ASSUME TypeOK, TypeOK', PastSound, MadeSound, TxSound, IndexSound,
           UNCHANGED head, NEW d \in Device, NEW g \in Group,
           lock = d, Unrecorded(d), PromotesRemote(d, g)
    PROVE  Shared!Offer
<1> DEFINE v == tx[d].local[g]
<1>1. tx[d] # NoTx /\ g \in tx[d].up /\ tx[d].remote[g] \in past[v]
  BY UploadedBase DEF PromotesRemote
<1>2. head[g].ver = tx[d].remote[g] /\ payload[g] = head[g].ver
  BY <1>1 DEF IndexSound, HeadOf, Uploader, PromotesRemote
<1>3. v \in 1..edits
  <2>1. v \in Version /\ tx[d].remote[g] \in Version /\ v <= edits /\ edits \in Nat
    BY <1>1, VersionType DEF MadeSound, MadeOf, TypeOK
  <2>2. tx[d].remote[g] < v
    BY <1>1, <2>1 DEF PastSound
  <2>3. QED
    BY <2>1, <2>2 DEF Version
<1>4. payload' = [payload EXCEPT ![g] = v]
  BY DEF TypeOK, Manifest, PromotesRemote
<1>5. g \in Group \ Shared!Pending
  BY <1>2 DEF Shared!Pending
<1>6. [h \in Group |-> head[h].ver][g] \in past[v]
  BY <1>1, <1>2
<1>7. UNCHANGED <<past, edits>>
  BY DEF PromotesRemote
<1>8. QED
  BY <1>3, <1>4, <1>5, <1>6, <1>7 DEF Shared!Offer

(* A restored save is Withdraw: what is put back is what the index tells.  *)
LEMMA RestorationIsWithdraw ==
    ASSUME TypeOK, TypeOK', PastSound, TxSound, PayloadSound, IndexSound,
           UNCHANGED head, NEW d \in Device, NEW g \in Group,
           lock = d, Unrecorded(d), RestoresRemote(d, g)
    PROVE  Shared!Withdraw
<1>1. tx[d] # NoTx /\ g \in tx[d].up /\ tx[d].remote[g] \in past[tx[d].local[g]]
  BY UploadedBase DEF RestoresRemote
<1>2. head[g].ver = tx[d].remote[g] /\ payload[g] = tx[d].local[g]
  BY <1>1 DEF IndexSound, HeadOf, Uploader, PayloadSound, PayloadOf, RestoresRemote
<1>3. payload[g] # head[g].ver
  <2>1. tx[d].local[g] \in Version /\ tx[d].remote[g] \in Version
    BY <1>1, VersionType
  <2>2. tx[d].remote[g] < tx[d].local[g]
    BY <1>1, <2>1 DEF PastSound
  <2>3. QED
    BY <1>2, <2>1, <2>2 DEF Version
<1>4. payload' = [payload EXCEPT ![g] = [h \in Group |-> head[h].ver][g]]
  BY <1>2 DEF TypeOK, Manifest, RestoresRemote
<1>5. g \in Shared!Pending
  BY <1>3 DEF Shared!Pending
<1>6. UNCHANGED <<past, edits>>
  BY DEF RestoresRemote
<1>7. QED
  BY <1>4, <1>5, <1>6 DEF Shared!Withdraw

(* A publication of groups whose payload is what is published is Publish,  *)
(* or says what is known.                                                  *)
LEMMA PublicationIsPublish ==
    ASSUME TypeOK, NEW groups \in SUBSET Group, NEW manifest, NEW op,
           PublishGroups(groups, manifest, op), PayloadIs(groups, manifest),
           UNCHANGED <<payload, past, edits>>
    PROVE  [Shared!Next]_(Shared!vars)
<1> DEFINE changed == {g \in groups : payload[g] # head[g].ver}
           told    == [g \in Group |-> head[g].ver]
<1>1. ASSUME NEW g \in Group
      PROVE  head'[g].ver = IF g \in changed THEN payload[g] ELSE told[g]
  BY DEF PublishGroups, PayloadIs
<1>2. told' = [g \in Group |-> IF g \in changed THEN payload[g] ELSE told[g]]
  BY <1>1
<1>3. changed \in SUBSET Shared!Pending
  BY DEF Shared!Pending
<1>4. CASE changed = {}
  <2>1. told' = told
    BY <1>2, <1>4
  <2>2. QED
    BY <2>1 DEF Shared!vars
<1>5. CASE changed # {}
  <2>1. changed \in (SUBSET Shared!Pending) \ {{}}
    BY <1>3, <1>5
  <2>2. \E some \in (SUBSET Shared!Pending) \ {{}} :
            told' = [g \in Group |-> IF g \in some THEN payload[g] ELSE told[g]]
    <3> HIDE DEF changed
    <3>1. QED
      BY <1>2, <2>1
  <2>3. QED
    BY <2>2 DEF Shared!Next, Shared!Publish
<1>6. QED
  BY <1>4, <1>5

(* Every step without a fault is a step of SharedSaves, or none.           *)
LEMMA CalmStepIsShared ==
    ASSUME CalmInv, TypeOK', Calm, Calm', [Next]_vars
    PROVE  [Shared!Next]_(Shared!vars)
<1>1. CASE UNCHANGED vars
  BY <1>1 DEF vars, remoteVars, ghosts, bounds, Shared!vars
<1>2. CASE Next
  <2>1. PICK d \in Device : StepOf(d)
    BY <1>2 DEF Next, StepOf
  <2>2. /\ TypeOK /\ LockSound /\ CauseSound /\ TxSound /\ PayloadSound /\ IndexSound
        /\ PastSound /\ MadeSound
    BY DEF CalmInv, IInv, Peace
  <2>3. MoveOf(d)
    BY <2>1, <2>2, CalmMoves
  <2>4. CASE head' # head
    <3>1. /\ PublishForward(d) \/ Publish(d)
          /\ UNCHANGED <<payload, past, edits>>
      BY <2>1, <2>2, <2>4, CalmHead DEF PublishForward, Publish, bounds
    <3>2. CASE PublishForward(d)
      BY <2>2, <3>1, <3>2, PublicationIsPublish DEF PublishForward, Landed, TypeOK, Intents
    <3>3. CASE Publish(d)
      <4>1. /\ PublishGroups(tx[d].up, tx[d].local, tx[d].op) /\ pc[d] = "verified"
        BY <2>4, <3>3 DEF Publish, At
      <4>2. Unrecorded(d) /\ todo[d] = {} /\ tx[d].up \in SUBSET Group
        BY <2>2, <4>1 DEF Unrecorded, Running, Stranded, InTransaction, CauseSound, CauseOf,
           TypeOK, Txs
      <4>3. PayloadIs(tx[d].up, tx[d].local)
        BY <2>2, <4>1, <4>2 DEF PayloadIs, PayloadSound, PayloadOf
      <4>4. QED
        BY <2>2, <3>1, <4>1, <4>2, <4>3, PublicationIsPublish
    <3>4. QED
      BY <3>1, <3>2, <3>3
  <2>5. CASE head' = head /\ payload' # payload
    <3>1. PICK g \in Group : PromotesRemote(d, g) \/ RestoresRemote(d, g)
      BY <2>2, <2>3, <2>5, PayloadMoves
    <3>2. Unrecorded(d) /\ lock = d
      BY <2>2, <2>3, <2>5, PayloadMoves
    <3>3. QED
      BY <2>2, <2>5, <3>1, <3>2, PromotionIsOffer, RestorationIsWithdraw DEF Shared!Next
  <2>6. CASE head' = head /\ payload' = payload
    <3>1. (\E g \in Group : Edits(d, g)) \/ (past' = past /\ edits' = edits)
      BY <2>2, <2>3, PastKept
    <3>2. QED
      BY <2>2, <2>6, <3>1, EditIsSave DEF Shared!Next, Shared!vars
  <2>7. QED
    BY <2>4, <2>5, <2>6
<1>3. QED
  BY <1>1, <1>2

(* Without faults and Full Syncs the commit protocol implements the        *)
(* register of SharedSaves: the payload leaves what the index tells only   *)
(* for a save made on top of it, one at a time to a group, and the index   *)
(* follows by publications of what the payload holds, whole transactions   *)
(* at once, or the payload comes back (promotion, _RemoteCommit.publish,   *)
(* the recovery of an intent that landed and SelectedTransaction.rollback).*)
THEOREM CalmImplementsShared == Spec /\ []Calm => SavesShared
<1>1. Init => Shared!Init
  <2> SUFFICES ASSUME Init PROVE Shared!Init
    OBVIOUS
  <2>1. \A g \in Group : head[g].ver = 0
    BY DEF Init
  <2>2. payload = [g \in Group |-> 0] /\ past = [v \in 0..MaxEdits |-> {}] /\ edits = 0
    BY DEF Init, Origin, Version
  <2>3. QED
    BY <2>1, <2>2 DEF Shared!Init, Shared!Version
<1>2. CalmInv /\ CalmInv' /\ Calm /\ Calm' /\ [Next]_vars => [Shared!Next]_(Shared!vars)
  BY CalmStepIsShared DEF CalmInv, IInv
<1>3. QED
  BY <1>1, <1>2, CalmInductive, PTL DEF Spec, SavesShared, Shared!Spec
=============================================================================
