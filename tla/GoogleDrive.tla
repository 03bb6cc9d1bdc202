----------------------------- MODULE GoogleDrive -----------------------------
(***************************************************************************)
(* A Google account as storage: its authorization, the one folder that is  *)
(* ROMCloud's in it, and the write probe.  The processes of one device     *)
(* share the token, the pending authorization and the identity of the      *)
(* folder.  A request may be lost, answered or not, or take effect late.   *)
(***************************************************************************)
EXTENDS Naturals, FiniteSets

CONSTANTS Procs, Accounts, None, MaxIds, MaxCodes, MaxTasks, MaxFaults, MaxEvents

GoogleDriveAssumption ==
    /\ {MaxIds, MaxCodes, MaxTasks, MaxFaults, MaxEvents} \subseteq Nat
    /\ None \notin Accounts /\ MaxCodes > 0

Ids == 1..MaxIds       \* generated by Google: never the same twice; 0: none
Codes == 1..MaxCodes   \* a device code names the grant it becomes; 0: none

VARIABLES
    drive,         \* what each id names, in whose account and in which folder
    late,          \* creations that may still take effect
    token,         \* token.json
    asked,         \* pending-auth.json
    root,          \* root.json: the folder, or the id it is to have
    account,       \* who has approved a code
    codes, spent, revoked,     \* codes issued, turned into a grant, and revoked
    gen,           \* ids generated
    proc,          \* what each process does
    alone,         \* history: the processes since whose load of root.json no other one
                   \* has written it, or the token
    crossed,       \* history: one that was not wrote root.json or made a folder; or the
                   \* account was changed while a creation was under way
    excused,       \* history: probes that were reported, or left by a crash or a late request
    tasks, faults, events

google == <<account, codes, spent, revoked>>
bounds == <<tasks, faults, events>>
vars == <<drive, late, token, asked, root, google, gen, proc, alone, crossed, excused, bounds>>

NoObject == [what |-> "none", of |-> None, in |-> 0]
NoRoot == [folder |-> 0, pending |-> 0]
\* had: the id that was loaded; id: the one it is about; held: a token to refresh
Idle == [pc |-> "idle", had |-> 0, id |-> 0, in |-> 0, held |-> 0]

Init ==
    /\ drive = [i \in Ids |-> NoObject] /\ late = {} /\ root = NoRoot /\ gen = 0
    /\ \E a \in Accounts : account = [c \in Codes |-> IF c = 1 THEN a ELSE None]
    /\ token = 1 /\ codes = 1 /\ spent = {1} /\ revoked = {} /\ asked = 0
    /\ proc = [p \in Procs |-> Idle] /\ alone = {} /\ crossed = FALSE /\ excused = {}
    /\ tasks = 0 /\ faults = 0 /\ events = 0
-----------------------------------------------------------------------------
(* Requests. *)

Asking == {"folder", "pending", "list", "make", "create", "probe", "cleanup"}
Goto(p, pc) == proc' = [proc EXCEPT ![p].pc = pc, ![p].held = 0]
\* A valid token is at hand; otherwise it is refreshed first.
Authorized(p) == proc[p].held = 0 /\ token # 0 /\ token \notin revoked
At(p, pc) == proc[p].pc = pc /\ Authorized(p)

Found(i) == drive[i].of = account[token] /\ drive[i].what # "purged"     \* else: 404
OwnRoot(i) == Found(i) /\ drive[i].what = "root"                          \* a trashed one is refused
Matches == {i \in Ids : OwnRoot(i)}

\* A request that fails ends the task; the probe, once named, is cleaned up.
Excuse(p) == excused' = IF proc[p].pc = "cleanup" THEN excused \cup {proc[p].id} ELSE excused
Fails(p) == proc' = [proc EXCEPT ![p] = Idle] /\ Excuse(p)
Fault == faults < MaxFaults /\ faults' = faults + 1
-----------------------------------------------------------------------------
(* Authorization. *)

BeginAuth(p) ==
    /\ proc[p].pc = "idle" /\ codes < MaxCodes /\ codes' = codes + 1 /\ asked' = codes'
    /\ UNCHANGED <<drive, late, token, root, account, spent, revoked, gen, proc, excused, bounds>>
CompleteAuth(p) ==
    /\ proc[p].pc = "idle" /\ asked # 0 /\ tasks < MaxTasks /\ tasks' = tasks + 1
    /\ proc' = [proc EXCEPT ![p].pc = "poll", ![p].id = asked]
    /\ UNCHANGED <<drive, late, token, asked, root, google, gen, excused, faults, events>>
\* One poll: still pending, granted and stored, or refused; or granted with the answer lost.
Poll(p) ==
    /\ proc[p].pc = "poll"
    /\ LET c == proc[p].id
           granted == account[c] # None /\ c \notin spent IN
       /\ spent' = IF granted THEN spent \cup {c} ELSE spent
       /\ \/ /\ granted /\ token' = c /\ Goto(p, "unlink") /\ UNCHANGED faults
          \/ /\ ~granted /\ UNCHANGED <<token, faults>> /\ proc' = [proc EXCEPT ![p] = Idle]
          \/ /\ granted /\ Fault /\ UNCHANGED token /\ proc' = [proc EXCEPT ![p] = Idle]
    /\ UNCHANGED <<drive, late, asked, root, account, codes, revoked, gen, excused, tasks, events>>
\* What the device knows of its folder is loaded as a validation starts.
Validating(p) ==
    proc' = [proc EXCEPT ![p] = [Idle EXCEPT !.had = IF root.folder # 0 THEN root.folder ELSE root.pending,
        !.pc = IF root.folder # 0 THEN "folder" ELSE IF root.pending # 0 THEN "pending" ELSE "list"]]
Unlink(p) ==
    /\ proc[p].pc = "unlink" /\ asked' = 0 /\ Validating(p)
    /\ UNCHANGED <<drive, late, token, root, google, gen, excused, bounds>>

\* A token near its end, or one that was answered 401, is to be refreshed.
Expired(p) ==
    /\ proc[p].pc \in Asking /\ proc[p].held = 0 /\ token # 0
    /\ proc' = [proc EXCEPT ![p].held = token]
    /\ UNCHANGED <<drive, late, token, asked, root, google, gen, excused, bounds>>
Refreshing(p) == proc[p].pc \in Asking /\ proc[p].held # 0
Refreshed(p) ==
    /\ Refreshing(p) /\ proc[p].held \notin revoked
    /\ token' = proc[p].held /\ Goto(p, proc[p].pc)
    /\ UNCHANGED <<drive, late, asked, root, google, gen, excused, bounds>>
Revoked(p) ==
    /\ Refreshing(p) /\ proc[p].held \in revoked /\ token' = 0 /\ Fails(p)
    /\ UNCHANGED <<drive, late, asked, root, google, gen, bounds>>
KeptNever == 0                       \* mutant: any refusal of a refresh clears the token
Kept == token
RefreshFails(p) ==
    /\ Refreshing(p) /\ Fault /\ token' = Kept /\ Fails(p)
    /\ UNCHANGED <<drive, late, asked, root, google, gen, tasks, events>>
Unauthorized(p) ==
    /\ proc[p].pc \in Asking /\ token = 0 /\ proc[p].held = 0 /\ Fails(p)
    /\ UNCHANGED <<drive, late, token, asked, root, google, gen, bounds>>
-----------------------------------------------------------------------------
(* The folder. *)

Validate(p) ==
    /\ proc[p].pc = "idle" /\ token # 0 /\ tasks < MaxTasks /\ tasks' = tasks + 1 /\ Validating(p)
    /\ UNCHANGED <<drive, late, token, asked, root, google, gen, excused, faults, events>>

\* An identity that is refused ends the task; one that is gone leads on.
Take(p, i) == proc' = [proc EXCEPT ![p].pc = "probe", ![p].in = i, ![p].had = 0]
Looks == UNCHANGED <<drive, late, token, asked, google, gen, bounds>>
CheckFolder(p) ==
    /\ At(p, "folder") /\ LET f == proc[p].had IN
       IF ~Found(f) THEN /\ root' = NoRoot /\ UNCHANGED excused
                         /\ proc' = [proc EXCEPT ![p].pc = "list", ![p].had = 0]
       ELSE UNCHANGED root /\ IF OwnRoot(f) THEN Take(p, f) /\ UNCHANGED excused ELSE Fails(p)
    /\ Looks
CheckPending(p) ==
    /\ At(p, "pending") /\ LET i == proc[p].had IN
       IF ~Found(i) THEN Goto(p, "list") /\ UNCHANGED <<root, excused>>
       ELSE IF OwnRoot(i) THEN root' = [NoRoot EXCEPT !.folder = i] /\ Take(p, i) /\ UNCHANGED excused
       ELSE UNCHANGED root /\ Fails(p)
    /\ Looks
ListRoots(p) ==
    /\ At(p, "list")
    /\ CASE Cardinality(Matches) > 1 -> UNCHANGED root /\ Fails(p)
         [] Cardinality(Matches) = 1 -> \E i \in Matches :
              root' = [NoRoot EXCEPT !.folder = i] /\ Take(p, i) /\ UNCHANGED excused
         [] OTHER -> Goto(p, "make") /\ UNCHANGED <<root, excused>>
    /\ Looks
\* The id is saved before the folder is created with it.
NamedNever(i) == root                \* mutant: the id of a creation is not saved
Named(i) == [NoRoot EXCEPT !.pending = i]
Make(p) ==
    /\ proc[p].pc = "make"
    /\ IF proc[p].had # 0 THEN UNCHANGED gen ELSE Authorized(p) /\ gen < MaxIds /\ gen' = gen + 1
    /\ LET i == IF proc[p].had # 0 THEN proc[p].had ELSE gen' IN
       /\ proc' = [proc EXCEPT ![p].pc = "create", ![p].id = i] /\ root' = Named(i)
    /\ UNCHANGED <<drive, late, token, asked, google, excused, bounds>>

\* A creation with a given id: done, or not done again; answered, lost, or late.
New(what, in) == [what |-> what, of |-> account[token], in |-> in]
Created(i, o) == drive' = IF drive[i] = NoObject THEN [drive EXCEPT ![i] = o] ELSE drive
Lost(i, o) ==
    /\ Fault
    /\ \/ Created(i, o) /\ UNCHANGED late
       \/ UNCHANGED drive /\ late' = late \cup {[id |-> i, object |-> o]}
       \/ UNCHANGED <<drive, late>>
Create(p) ==
    /\ At(p, "create") /\ LET i == proc[p].id  o == New("root", 0) IN
       \/ /\ Created(i, o) /\ UNCHANGED <<late, faults>>
          /\ IF drive'[i] = o THEN Goto(p, "record") /\ UNCHANGED excused ELSE Fails(p)
       \/ Lost(i, o) /\ Fails(p)
    /\ UNCHANGED <<token, asked, root, google, gen, tasks, events>>
Record(p) ==
    /\ proc[p].pc = "record" /\ root' = [NoRoot EXCEPT !.folder = proc[p].id] /\ Take(p, proc[p].id)
    /\ Looks /\ UNCHANGED excused
-----------------------------------------------------------------------------
(* The write probe. *)

CleansOnSuccess(p) == Idle           \* mutant: a probe whose upload failed is not cleaned up
Cleans(p) == [proc[p] EXCEPT !.pc = "cleanup", !.id = gen']
Upload(p) ==
    /\ At(p, "probe") /\ gen < MaxIds /\ gen' = gen + 1
    /\ IF Found(proc[p].in)
       THEN \/ /\ Created(gen', New("probe", proc[p].in)) /\ UNCHANGED <<late, faults>>
               /\ proc' = [proc EXCEPT ![p].pc = "cleanup", ![p].id = gen']
            \/ Lost(gen', New("probe", proc[p].in)) /\ proc' = [proc EXCEPT ![p] = Cleans(p)]
       ELSE UNCHANGED <<drive, late, faults>> /\ proc' = [proc EXCEPT ![p] = Cleans(p)]
    /\ UNCHANGED <<token, asked, root, google, excused, tasks, events>>
\* Not found counts as cleaned up, also where another account is asked.
Cleanup(p) ==
    /\ At(p, "cleanup") /\ LET i == proc[p].id IN
       /\ proc' = [proc EXCEPT ![p] = Idle]
       /\ IF Found(i) /\ drive[i].what = "probe" /\ drive[drive[i].in].what = "root"
          THEN drive' = [drive EXCEPT ![i].what = "purged"] /\ UNCHANGED excused
          ELSE UNCHANGED drive /\ excused' = IF Found(i) \/ drive[i].of \notin {None, account[token]}
                                             THEN excused \cup {i} ELSE excused
    /\ UNCHANGED <<late, token, asked, root, google, gen, bounds>>
-----------------------------------------------------------------------------
(* What fails, and what the account and its owner do. *)

Unanswered(p) ==
    /\ proc[p].pc \in Asking /\ Fault /\ Fails(p)
    /\ UNCHANGED <<drive, late, token, asked, root, google, gen, tasks, events>>
Crash(p) ==
    /\ proc[p].pc # "idle" /\ Fault /\ Fails(p)
    /\ UNCHANGED <<drive, late, token, asked, root, google, gen, tasks, events>>
Arrive ==
    /\ \E l \in late : /\ late' = late \ {l} /\ Created(l.id, l.object)
                       /\ excused' = excused \cup {l.id}
    /\ UNCHANGED <<token, asked, root, google, gen, proc, bounds>>
Event == events < MaxEvents /\ events' = events + 1
Approve(a) ==
    /\ Event /\ \E c \in 1..codes : account[c] = None /\ account' = [account EXCEPT ![c] = a]
    /\ UNCHANGED <<drive, late, token, asked, root, codes, spent, revoked, gen, proc, excused, tasks, faults>>
Revoke(c) ==
    /\ Event /\ c \in spent /\ revoked' = revoked \cup {c}
    /\ UNCHANGED <<drive, late, token, asked, root, account, codes, spent, gen, proc, excused, tasks, faults>>
\* The owner moves the folder to the trash, or empties the trash.
Remove(i, what) ==
    /\ Event /\ drive[i].what \in {"root", "trashed"} \ {what}
    /\ drive' = [j \in Ids |-> IF j = i \/ (what = "purged" /\ drive[j].in = i) THEN [drive[j] EXCEPT !.what = what] ELSE drive[j]]
    /\ UNCHANGED <<late, token, asked, root, google, gen, proc, excused, tasks, faults>>

ProcStep(p) ==
    \/ BeginAuth(p) \/ CompleteAuth(p) \/ Poll(p) \/ Unlink(p)
    \/ Expired(p) \/ Refreshed(p) \/ Revoked(p) \/ RefreshFails(p) \/ Unauthorized(p)
    \/ Validate(p) \/ CheckFolder(p) \/ CheckPending(p) \/ ListRoots(p) \/ Make(p) \/ Create(p) \/ Record(p)
    \/ Upload(p) \/ Cleanup(p) \/ Unanswered(p) \/ Crash(p)
World ==
    \/ Arrive
    \/ \E a \in Accounts : Approve(a)
    \/ \E c \in Codes : Revoke(c)
    \/ \E i \in Ids, what \in {"trashed", "purged"} : Remove(i, what)
Watch(p) ==
    /\ alone' = IF proc[p].pc \in {"idle", "unlink"} THEN alone \cup {p}
                ELSE IF root' = root /\ token' = token THEN alone ELSE alone \cap {p}
    /\ crossed' = \/ crossed \/ (token' # token /\ late # {})
                  \/ p \notin alone /\ (root' # root \/ (proc[p].pc = "create" /\ <<drive', late'>> # <<drive, late>>))
Next == (\E p \in Procs : ProcStep(p) /\ Watch(p)) \/ (World /\ UNCHANGED <<alone, crossed>>)
Spec == Init /\ [][Next]_vars
-----------------------------------------------------------------------------
TypeOK ==
    /\ drive \in [Ids -> [what : {"none", "root", "probe", "trashed", "purged"}, of : Accounts \cup {None}, in : 0..MaxIds]]
    /\ late \subseteq [id : Ids, object : [what : {"root", "probe"}, of : Accounts, in : 0..MaxIds]]
    /\ {token, asked, codes} \subseteq 0..MaxCodes /\ spent \subseteq Codes /\ revoked \subseteq spent
    /\ root \in [folder : 0..MaxIds, pending : 0..MaxIds] /\ account \in [Codes -> Accounts \cup {None}]
    /\ gen \in 0..MaxIds /\ alone \subseteq Procs /\ crossed \in BOOLEAN /\ excused \subseteq 0..MaxIds
    /\ proc \in [Procs -> [pc : Asking \cup {"idle", "poll", "unlink", "record"}, had : 0..MaxIds, id : Nat, in : 0..MaxIds, held : 0..MaxCodes]]
    /\ tasks \in 0..MaxTasks /\ faults \in 0..MaxFaults /\ events \in 0..MaxEvents

RootsOf(a) == {i \in Ids : drive[i].of = a /\ drive[i].what = "root"}
\* An account never has two folders of the device, whatever answers are lost or
\* late and wherever a process ends, unless a process wrote or created over what
\* another had changed since it loaded root.json, for no lock guards them, or the
\* account was changed while a creation was under way (ensure_app_root).
OneRoot == ~crossed => \A a \in Accounts : Cardinality(RootsOf(a)) <= 1

\* A probe that is left in an account was reported by the validation that left it,
\* but for a crash, a request that took effect late and a change of the account
\* in between (validate_access, cleanup_verified).
LeftoverReported ==
    \A i \in Ids : drive[i].what = "probe" /\ ~(\E p \in Procs : proc[p].pc = "cleanup" /\ proc[p].id = i) => i \in excused

\* A grant that is still good is lost only to a process that holds an older one:
\* an outage while it is refreshed never signs the device out (refresh).
GrantKept == [][token # 0 /\ token' = 0 => token \in revoked \/ \E p \in Procs : proc[p].held \notin {0, token}]_vars
GrantKeptStep == token # 0 /\ token' = 0 => token \in revoked \/ \E p \in Procs : proc[p].held \notin {0, token}
=============================================================================
