---------------------------- MODULE SharedIndex ----------------------------
(***************************************************************************)
(* The shared SaveSync index as files, and the devices that discover each  *)
(* other's changes from it.                                                *)
(*                                                                         *)
(* Next to the payload the remote holds one immutable shard file per       *)
(* layout and generation, one HEAD that names a shard of every layout,     *)
(* the ownership marker and the journal of older clients.  A publisher     *)
(* holds the commit lock, writes shards, then HEAD; a Full Sync rebuilds   *)
(* the whole index and writes the marker last.  Readers take no lock: a    *)
(* Quick Sync or a gameStart pass reads HEAD, then shards, compares the    *)
(* groups of the layouts that advanced beyond its watermark, reconciles    *)
(* the ones that differ and advances the watermark.                        *)
(*                                                                         *)
(* Content is a number: 0 was never observed, 1 is what the payload held   *)
(* first, and the n-th write leaves n + 1.  Payload promotion is one step  *)
(* here; CommitProtocol has its detail, the intent phases and CAS.         *)
(***************************************************************************)
EXTENDS Naturals, FiniteSets

CONSTANTS
  Devices,       \* devices running this code against the remote
  Layouts,       \* save layouts, each with its own shards
  Groups,        \* save groups
  LayoutOf,      \* the layout that owns a group
  NoDevice,      \* nobody
  MaxWrites,     \* bound: commits and writes of older clients
  MaxGen,        \* bound: generations of one layout
  MaxLegacy,     \* bound: writes of older clients
  MaxFaults,     \* bound: failed writes, crashes and losses of HEAD
  MaxPasses      \* bound: discovery passes

ASSUME SharedIndexAssumption ==
  /\ Layouts # {} /\ LayoutOf \in [Groups -> Layouts]
  /\ NoDevice \notin Devices
  /\ {MaxWrites, MaxGen, MaxLegacy, MaxFaults, MaxPasses} \subseteq Nat

VARIABLES
  payload,     \* content of each group's files on the remote
  shards,      \* the shard file of each layout and generation
  head,        \* HEAD
  marker,      \* the dataset the ownership marker names; 0 when there is none
  journal,     \* generation of the older clients' journal
  intent,      \* the shared intent file
  torn,        \* the transaction each device's crash left to roll back
  pub,         \* the publication under way; its device holds the commit lock
  observed,    \* what each device last saw of each group's remote content
  watermark,   \* the generations each device has compared
  pass,        \* the discovery pass of each device
  missed,      \* history: changes that escape a device by a known route
  unindexed,   \* history: groups an older client wrote and no rebuild has seen
  masked,      \* history: a commit took over the generation of such a write
  used         \* what has been spent of each bound

shared == <<payload, shards, head, marker, journal, intent, pub>>
local == <<observed, watermark, pass, torn>>
history == <<missed, unindexed, masked>>
vars == <<shared, local, history, used>>

-----------------------------------------------------------------------------
\* Records

GroupsOf(l) == {g \in Groups : LayoutOf[g] = l}
Contents == 0..MaxWrites + 1

NoShard == [ds |-> 0, holds |-> <<>>]
NoHead == [ok |-> FALSE, ds |-> 0, index |-> 0, journal |-> 0,
           at |-> [l \in Layouts |-> 0]]
NoIntent == [op |-> 0]
NoTorn == [op |-> 0]
NoPub == [kind |-> "none", dev |-> NoDevice, phase |-> "none"]
NoPass == [phase |-> "idle"]

Entries == [content : Contents, op : 0..MaxWrites, dev : Devices]
Shards(l) == [ds : 1..MaxFaults + 1, holds : [GroupsOf(l) -> Entries]]
Heads == [ok : BOOLEAN, ds : 0..MaxFaults + 1, index : Nat,
          journal : 0..MaxWrites, at : [Layouts -> 0..MaxGen]]
Intents == [op : 1..MaxWrites, group : Groups, old : Contents, dev : Devices,
            base : 0..MaxWrites]
Pubs == [kind : {"commit", "forward", "full"}, dev : Devices,
         phase : {"promoted", "headed", "appended"}, base : 0..MaxWrites]
Spent == [writes : 0..MaxWrites, legacy : 0..MaxLegacy, faults : 0..MaxFaults,
          datasets : 0..MaxFaults + 1, passes : 0..MaxPasses]
Watermarks == [ds : 0..MaxFaults + 1, index : Nat, at : [Layouts -> 0..MaxGen]]
Passes == [kind : {"quick", "target"}, head : Heads, excluded : SUBSET Layouts,
           chosen : SUBSET Groups, phase : {"read", "reconcile", "seen"}]

\* The shard HEAD h names for a layout, and a group's entry in it.
ShardAt(h, l) == shards[l][h.at[l]]
Entry(h, g) == ShardAt(h, LayoutOf[g]).holds[g]

\* The marker and an intact HEAD name the same dataset.
Owned == marker # 0 /\ head.ok /\ head.ds = marker

Free == pub = NoPub

\* One operation of a device runs at a time, after its own recovery; a pass
\* may upload once it has reconciled.
Idle(d) == pub.dev # d /\ torn[d] = NoTorn /\ pass[d] = NoPass
\* Mutant: the commit lock is not taken.
MayCommitUnlocked(d) == pub.dev # d /\ Owned /\ torn[d] = NoTorn /\ pass[d] = NoPass

MayCommit(d) ==
  /\ Free /\ Owned /\ torn[d] = NoTorn
  /\ pass[d].phase \in {"idle", "seen"}

\* Groups whose files are not what the index says.
Unsettled ==
  IF head.ok THEN {g \in Groups : payload[g] # Entry(head, g).content} ELSE Groups
Committed(i) == Entry(head, i.group).op = i.op

-----------------------------------------------------------------------------
\* Publication, under the commit lock

\* Mutant: no new identity is drawn when HEAD has none.
DatasetUnnamed == head.ds

\* The dataset a publication writes for: HEAD's, or a new one.
Dataset == IF head.ok THEN head.ds ELSE 1 + used.datasets
NextGen(l) == head.at[l] + 1

\* What a publication puts in a layout's shard.  A commit overlays its group
\* on the shard HEAD names; a Full Sync lists what it scanned.
Wanted(p, l) ==
  IF p.kind = "full"
  THEN [g \in GroupsOf(l) |-> [content |-> observed[p.dev][g], op |-> 0, dev |-> p.dev]]
  ELSE [g \in GroupsOf(l) |->
          IF g = intent.group
          THEN [content |-> intent.op + 1, op |-> intent.op, dev |-> intent.dev]
          ELSE Entry(head, g)]

NextShard(p, l) == [ds |-> Dataset, holds |-> Wanted(p, l)]

\* The layouts that get a new shard: a Full Sync skips those whose entries
\* would not change.
Targets(p) ==
  IF p.kind = "full"
  THEN {l \in Layouts : head.at[l] = 0 \/ ShardAt(head, l).holds # Wanted(p, l)}
  ELSE {LayoutOf[intent.group]}

Written(p, l) == shards[l][NextGen(l)] = NextShard(p, l)

\* A shard file of that name exists already and holds something else.
Clash(p, l) == shards[l][NextGen(l)] # NoShard /\ ~Written(p, l)

\* A device whose local change of a group is planned against what the remote
\* holds takes the lock, checks the index against the payload, leaves its
\* intent and promotes the new content.
BeginCommit(d, g) ==
  /\ MayCommit(d) /\ intent = NoIntent
  /\ used.writes < MaxWrites /\ NextGen(LayoutOf[g]) <= MaxGen
  /\ observed[d][g] = payload[g]
  /\ Entry(head, g).content = payload[g]
  /\ intent' = [op |-> used.writes + 1, group |-> g, old |-> payload[g], dev |-> d,
                base |-> journal]
  /\ payload' = [payload EXCEPT ![g] = used.writes + 2]
  /\ pub' = [kind |-> "commit", dev |-> d, phase |-> "promoted", base |-> journal]
  /\ used' = [used EXCEPT !.writes = @ + 1]
  /\ masked' = (masked \/ unindexed # {})
  /\ UNCHANGED <<shards, head, marker, journal, local, missed, unindexed>>

\* Mutant: recovery stamps the journal generation of now.
ResolveRestamped(d) ==
  LET promoted == payload[intent.group] = intent.op + 1
      withdrawn == payload[intent.group] = intent.old
  IN /\ MayCommit(d) /\ intent # NoIntent
     /\ \/ /\ withdrawn \/ (promoted /\ Committed(intent))
           /\ intent' = NoIntent
           /\ UNCHANGED pub
        \/ /\ promoted /\ ~Committed(intent)
           /\ NextGen(LayoutOf[intent.group]) <= MaxGen
           /\ pub' = [kind |-> "forward", dev |-> d, phase |-> "promoted",
                       base |-> journal]
           /\ UNCHANGED intent
     /\ UNCHANGED <<payload, shards, head, marker, journal, local, history, used>>

\* A device that takes the lock first settles the intent it finds there, by
\* what the payload holds: content that is neither stays where it is.
Resolve(d) ==
  LET promoted == payload[intent.group] = intent.op + 1
      withdrawn == payload[intent.group] = intent.old
  IN /\ MayCommit(d) /\ intent # NoIntent
     /\ \/ /\ withdrawn \/ (promoted /\ Committed(intent))
           /\ intent' = NoIntent
           /\ UNCHANGED pub
        \/ /\ promoted /\ ~Committed(intent)
           /\ NextGen(LayoutOf[intent.group]) <= MaxGen
           /\ pub' = [kind |-> "forward", dev |-> d, phase |-> "promoted",
                       base |-> intent.base]
           /\ UNCHANGED intent
     /\ UNCHANGED <<payload, shards, head, marker, journal, local, history, used>>

\* A Full Sync scans everything under the lock, then publishes.
BeginFullSync(d) ==
  LET p == [kind |-> "full", dev |-> d, phase |-> "promoted", base |-> journal]
  IN /\ Free /\ Idle(d)
     /\ \A l \in Layouts : NextGen(l) <= MaxGen
     /\ pub' = p
     /\ observed' = [observed EXCEPT ![d] = payload]
     /\ missed' = [missed EXCEPT ![d] = Unsettled]
     /\ UNCHANGED <<payload, shards, head, marker, journal, intent,
                    watermark, pass, torn, unindexed, masked, used>>

\* Mutant: a shard file already there is replaced.
WriteShardOver(d, l) ==
  /\ pub.dev = d /\ pub.phase = "promoted"
  /\ l \in Targets(pub) /\ ~Written(pub, l)
  /\ shards' = [shards EXCEPT ![l][NextGen(l)] = NextShard(pub, l)]
  /\ UNCHANGED <<payload, head, marker, journal, intent, pub, local, history, used>>

\* write_shard: a file of that name is written once.
WriteShard(d, l) ==
  /\ pub.dev = d /\ pub.phase = "promoted"
  /\ l \in Targets(pub) /\ shards[l][NextGen(l)] = NoShard
  /\ shards' = [shards EXCEPT ![l][NextGen(l)] = NextShard(pub, l)]
  /\ UNCHANGED <<payload, head, marker, journal, intent, pub, local, history, used>>

\* Mutant: HEAD is published before the shards it names.
WriteHeadFirst(d) ==
  LET T == Targets(pub)
  IN /\ pub.dev = d /\ pub.phase = "promoted"
     /\ head' = [ok |-> TRUE, ds |-> Dataset,
                 index |-> head.index + (IF T = {} THEN 0 ELSE 1),
                 journal |-> pub.base,
                 at |-> [l \in Layouts |-> IF l \in T THEN NextGen(l) ELSE head.at[l]]]
     /\ pub' = [pub EXCEPT !.phase = "headed"]
     /\ used' = [used EXCEPT !.datasets = IF head.ok THEN @ ELSE @ + 1]
     /\ masked' = (masked /\ pub.kind # "full")
     /\ unindexed' = IF pub.kind = "full" THEN {} ELSE unindexed \ {intent.group}
     /\ UNCHANGED <<payload, shards, marker, journal, intent, local, missed>>

\* write_head, once every shard is there.
WriteHead(d) ==
  LET T == Targets(pub)
  IN /\ pub.dev = d /\ pub.phase = "promoted"
     /\ \A l \in T : Written(pub, l)
     /\ head' = [ok |-> TRUE, ds |-> Dataset,
                 index |-> head.index + (IF T = {} THEN 0 ELSE 1),
                 journal |-> pub.base,
                 at |-> [l \in Layouts |-> IF l \in T THEN NextGen(l) ELSE head.at[l]]]
     /\ pub' = [pub EXCEPT !.phase = "headed"]
     /\ used' = [used EXCEPT !.datasets = IF head.ok THEN @ ELSE @ + 1]
     /\ masked' = (masked /\ pub.kind # "full")
     /\ unindexed' = IF pub.kind = "full" THEN {} ELSE unindexed \ {intent.group}
     /\ UNCHANGED <<payload, shards, marker, journal, intent, local, missed>>

\* The device records what it uploaded, then appends to the journal; after
\* the index is published a failed append is only logged.
Append(d) ==
  /\ pub.dev = d /\ pub.kind = "commit" /\ pub.phase = "headed"
  /\ observed' = [observed EXCEPT ![d][intent.group] = payload[intent.group]]
  /\ missed' = [missed EXCEPT ![d] = @ \ {intent.group}]
  /\ \/ /\ journal' = journal + 1
        /\ pub' = [pub EXCEPT !.phase = "appended"]
        /\ UNCHANGED <<intent, used>>
     \/ /\ used.faults < MaxFaults
        /\ used' = [used EXCEPT !.faults = @ + 1]
        /\ intent' = NoIntent
        /\ pub' = NoPub
        /\ UNCHANGED journal
  /\ UNCHANGED <<payload, shards, head, marker, watermark, pass, torn, unindexed, masked>>

\* update_journal_generation, whose failure is swallowed; then the intent is
\* retired and the lock released.
CloseCommit(d) ==
  /\ pub.dev = d /\ pub.kind = "commit" /\ pub.phase = "appended"
  /\ \/ /\ head' = IF head.ok THEN [head EXCEPT !.journal = journal] ELSE head
        /\ UNCHANGED used
     \/ /\ used.faults < MaxFaults
        /\ used' = [used EXCEPT !.faults = @ + 1]
        /\ UNCHANGED head
  /\ intent' = NoIntent
  /\ pub' = NoPub
  /\ UNCHANGED <<payload, shards, marker, journal, local, history>>

\* An intent published forward is retired; its device holds the lock no more.
CloseForward(d) ==
  /\ pub.dev = d /\ pub.kind = "forward" /\ pub.phase = "headed"
  /\ intent' = NoIntent
  /\ pub' = NoPub
  /\ UNCHANGED <<payload, shards, head, marker, journal, local, history, used>>

\* The marker is written after HEAD and every shard were read back.
CloseFullSync(d) ==
  /\ pub.dev = d /\ pub.kind = "full" /\ pub.phase = "headed"
  /\ head.ok
  /\ marker' = head.ds
  /\ intent' = NoIntent
  /\ pub' = NoPub
  /\ UNCHANGED <<payload, shards, head, journal, local, history, used>>

\* Before HEAD names it a commit that fails is rolled back and its intent
\* retired; an intent that could not be published forward stays; a Full Sync
\* only logs that it could not publish.
GiveUp(d) ==
  /\ pub.dev = d /\ pub.phase = "promoted"
  /\ payload' = IF pub.kind = "commit"
                THEN [payload EXCEPT ![intent.group] = intent.old] ELSE payload
  /\ intent' = IF pub.kind = "commit" THEN NoIntent ELSE intent
  /\ pub' = NoPub
  /\ UNCHANGED <<shards, head, marker, journal, local, history>>

Refused(d) ==
  /\ pub.dev = d /\ pub.phase = "promoted"
  /\ \E l \in Targets(pub) : Clash(pub, l)
  /\ GiveUp(d)
  /\ UNCHANGED used

WriteFails(d) ==
  /\ used.faults < MaxFaults
  /\ used' = [used EXCEPT !.faults = @ + 1]
  /\ GiveUp(d)

\* A crash releases the lock and leaves every file as it is, the device's own
\* recovery journal included; once the state file was written that journal
\* says the transaction is complete.
Crash(d) ==
  /\ used.faults < MaxFaults
  /\ used' = [used EXCEPT !.faults = @ + 1]
  /\ pub.dev = d
  /\ pub' = NoPub
  /\ pass' = [pass EXCEPT ![d] = NoPass]
  /\ torn' = IF pub.kind = "commit" /\ pub.phase # "appended"
             THEN [torn EXCEPT ![d] = intent] ELSE torn
  /\ UNCHANGED <<payload, shards, head, marker, journal, intent,
                 observed, watermark, history>>

\* The device's next operation rolls its transaction back, without the remote
\* lock; content it does not know stops it.
RollBack(d) ==
  LET t == torn[d]
  IN /\ t # NoTorn
     /\ payload[t.group] \in {t.old, t.op + 1}
     /\ payload' = [payload EXCEPT ![t.group] = t.old]
     /\ torn' = [torn EXCEPT ![d] = NoTorn]
     /\ UNCHANGED <<shards, head, marker, journal, intent, pub, observed,
                    watermark, pass, history, used>>

\* A client that predates the index writes a save and its journal entry.
LegacyWrite(g) ==
  /\ Free /\ used.legacy < MaxLegacy /\ used.writes < MaxWrites
  /\ payload' = [payload EXCEPT ![g] = used.writes + 2]
  /\ journal' = journal + 1
  /\ unindexed' = unindexed \cup {g}
  /\ used' = [used EXCEPT !.writes = @ + 1, !.legacy = @ + 1]
  /\ UNCHANGED <<shards, head, marker, intent, pub, local, missed, masked>>

\* HEAD is lost or can no longer be read.
LoseHead ==
  /\ Free /\ head.ok /\ used.faults < MaxFaults
  /\ head' = NoHead
  /\ used' = [used EXCEPT !.faults = @ + 1]
  /\ UNCHANGED <<payload, shards, marker, journal, intent, pub, local, history>>

-----------------------------------------------------------------------------
\* Discovery: Quick Sync and the gameStart pass take no remote lock

\* A watermark of another dataset counts for nothing.
Known(d, h) ==
  IF watermark[d].ds = h.ds THEN watermark[d]
  ELSE [ds |-> h.ds, index |-> 0, at |-> [l \in Layouts |-> 0]]

\* HEAD is read; the layouts of a running session may be excluded.
BeginQuickSync(d, excluded) ==
  /\ Idle(d) /\ Owned /\ used.passes < MaxPasses
  /\ pass' = [pass EXCEPT ![d] =
       [kind |-> "quick", head |-> head, excluded |-> excluded,
        chosen |-> {}, phase |-> "read"]]
  /\ used' = [used EXCEPT !.passes = @ + 1]
  /\ UNCHANGED <<shared, observed, watermark, torn, history>>

\* A game is started: its group alone is to be compared.
BeginGameStart(d, g) ==
  /\ Idle(d) /\ Owned /\ used.passes < MaxPasses
  /\ pass' = [pass EXCEPT ![d] =
       [kind |-> "target", head |-> head, excluded |-> Layouts \ {LayoutOf[g]},
        chosen |-> {g}, phase |-> "read"]]
  /\ used' = [used EXCEPT !.passes = @ + 1]
  /\ UNCHANGED <<shared, observed, watermark, torn, history>>

\* The layouts whose shard the pass loads, and their groups.
Advanced(d, h) ==
  {l \in Layouts \ pass[d].excluded : Known(d, h).at[l] < h.at[l]}

InScope(d) ==
  {g \in Groups : /\ LayoutOf[g] \in Advanced(d, pass[d].head)
                  /\ pass[d].kind = "target" => g \in pass[d].chosen}

Differing(d) ==
  {g \in InScope(d) : Entry(pass[d].head, g).content # observed[d][g]}

\* Mutant: excluded layouts are taken for compared.
WatermarkOverExcluded(d, h) ==
  LET old == Known(d, pass[d].head)
      outstanding == \E l \in pass[d].excluded : h.at[l] > old.at[l]
  IN [ds |-> h.ds,
      index |-> IF pass[d].kind = "target" \/ outstanding THEN old.index ELSE h.index,
      at |-> [l \in Layouts |->
                h.at[l]]]

\* Mutant: the index generation advances over what was excluded.
WatermarkForgetful(d, h) ==
  LET old == Known(d, pass[d].head)
  IN [ds |-> h.ds,
      index |-> IF pass[d].kind = "target" THEN old.index ELSE h.index,
      at |-> [l \in Layouts |->
                IF l \in pass[d].excluded THEN old.at[l] ELSE h.at[l]]]

\* What the watermark becomes when a pass ends having read HEAD h.  A
\* gameStart pass leaves the index generation alone; a Quick Sync leaves it
\* behind when an excluded layout has something outstanding.
AdvancedWatermark(d, h) ==
  LET old == Known(d, pass[d].head)
      outstanding == \E l \in pass[d].excluded : h.at[l] > old.at[l]
  IN [ds |-> h.ds,
      index |-> IF pass[d].kind = "target" \/ outstanding THEN old.index ELSE h.index,
      at |-> [l \in Layouts |->
                IF l \in pass[d].excluded THEN old.at[l] ELSE h.at[l]]]

\* The pass ends without having compared anything: the journal moved without
\* the index, or nothing moved since the watermark.
EndEarly(d) ==
  LET h == pass[d].head
  IN /\ pass[d].phase = "read"
     /\ \/ h.journal # journal
        \/ pass[d].kind = "quick" /\ Known(d, h).index = h.index
     /\ pass' = [pass EXCEPT ![d] = NoPass]
     /\ UNCHANGED <<shared, observed, watermark, torn, history, used>>

\* Shards are loaded and their groups compared by manifest hash.
Compare(d) ==
  LET h == pass[d].head
      compared == InScope(d)
      unseen == IF pass[d].kind = "quick" THEN {}
                ELSE {g \in Groups : LayoutOf[g] \in Advanced(d, h)} \ compared
  IN /\ pass[d].phase = "read"
     /\ h.journal = journal
     /\ pass[d].kind = "quick" => Known(d, h).index # h.index
     /\ IF Differing(d) = {}
        THEN /\ watermark' = [watermark EXCEPT ![d] = AdvancedWatermark(d, h)]
             /\ pass' = [pass EXCEPT ![d] = NoPass]
        ELSE /\ pass' = [pass EXCEPT ![d].chosen = Differing(d), ![d].phase = "reconcile"]
             /\ UNCHANGED watermark
     /\ missed' = [missed EXCEPT ![d] = (@ \ compared) \cup unseen]
     /\ UNCHANGED <<shared, observed, torn, unindexed, masked, used>>

\* The chosen groups are scanned on the remote and reconciled.  Content that
\* is promoted and not yet published is read like any other.
Reconcile(d) ==
  /\ pass[d].phase = "reconcile"
  /\ observed' = [observed EXCEPT ![d] =
       [g \in Groups |-> IF g \in pass[d].chosen THEN payload[g] ELSE @[g]]]
  /\ missed' = [missed EXCEPT ![d] = @ \cup
       (pass[d].chosen \cap Unsettled)]
  /\ pass' = [pass EXCEPT ![d].phase = "seen"]
  /\ UNCHANGED <<shared, watermark, torn, unindexed, masked, used>>

\* HEAD is read afresh and the watermark advanced to it, whatever was
\* published since the pass began.
Advance(d) ==
  LET overtaken == {g \in Groups :
        /\ LayoutOf[g] \notin pass[d].excluded
        /\ head.at[LayoutOf[g]] # pass[d].head.at[LayoutOf[g]]}
  IN /\ pass[d].phase = "seen" /\ pub.dev # d
     /\ IF head.ok
        THEN /\ watermark' = [watermark EXCEPT ![d] = AdvancedWatermark(d, head)]
             /\ missed' = [missed EXCEPT ![d] = @ \cup overtaken]
        ELSE UNCHANGED <<watermark, missed>>
     /\ pass' = [pass EXCEPT ![d] = NoPass]
     /\ UNCHANGED <<shared, observed, torn, unindexed, masked, used>>

\* A session holds the chosen saves open: the pass is deferred as it began.
Defer(d) ==
  /\ pass[d].phase = "reconcile"
  /\ pass' = [pass EXCEPT ![d] = NoPass]
  /\ UNCHANGED <<shared, observed, watermark, torn, history, used>>

-----------------------------------------------------------------------------

Init ==
  /\ payload = [g \in Groups |-> 1]
  /\ shards = [l \in Layouts |-> [n \in 1..MaxGen |-> NoShard]]
  /\ head = NoHead
  /\ marker = 0
  /\ journal = 0
  /\ intent = NoIntent
  /\ pub = NoPub
  /\ torn = [d \in Devices |-> NoTorn]
  /\ observed = [d \in Devices |-> [g \in Groups |-> 0]]
  /\ watermark = [d \in Devices |->
                    [ds |-> 0, index |-> 0, at |-> [l \in Layouts |-> 0]]]
  /\ pass = [d \in Devices |-> NoPass]
  /\ missed = [d \in Devices |-> {}]
  /\ unindexed = {}
  /\ masked = FALSE
  /\ used = [writes |-> 0, legacy |-> 0, faults |-> 0, datasets |-> 0,
             passes |-> 0]

Publication(d) ==
  \/ \E g \in Groups : BeginCommit(d, g)
  \/ Resolve(d) \/ BeginFullSync(d)
  \/ \E l \in Layouts : WriteShard(d, l)
  \/ WriteHead(d) \/ Append(d)
  \/ CloseCommit(d) \/ CloseForward(d) \/ CloseFullSync(d) \/ Refused(d)

Trouble(d) == WriteFails(d) \/ Crash(d) \/ RollBack(d)

Discovery(d) ==
  \/ \E excluded \in SUBSET Layouts : BeginQuickSync(d, excluded)
  \/ \E g \in Groups : BeginGameStart(d, g)
  \/ EndEarly(d) \/ Compare(d) \/ Reconcile(d) \/ Advance(d) \/ Defer(d)

Outside == LoseHead \/ \E g \in Groups : LegacyWrite(g)

Next ==
  \/ \E d \in Devices : Publication(d) \/ Trouble(d) \/ Discovery(d)
  \/ Outside

Spec == Init /\ [][Next]_vars

-----------------------------------------------------------------------------
\* Properties

\* Every variable holds what the code can store in it.
TypeOK ==
  /\ payload \in [Groups -> Contents]
  /\ DOMAIN shards = Layouts
  /\ \A l \in Layouts : shards[l] \in [1..MaxGen -> Shards(l) \cup {NoShard}]
  /\ head \in Heads
  /\ marker \in 0..MaxFaults + 1
  /\ journal \in 0..MaxWrites
  /\ intent \in Intents \cup {NoIntent}
  /\ pub \in Pubs \cup {NoPub}
  /\ torn \in [Devices -> Intents \cup {NoTorn}]
  /\ observed \in [Devices -> [Groups -> Contents]]
  /\ watermark \in [Devices -> Watermarks]
  /\ pass \in [Devices -> Passes \cup {NoPass}]
  /\ missed \in [Devices -> SUBSET Groups]
  /\ unindexed \subseteq Groups
  /\ masked \in BOOLEAN
  /\ used \in Spent

\* A reader holds no lock: every shard named by HEAD, or by the HEAD a pass
\* read some time ago, is there and belongs to that HEAD's dataset, whatever
\* was published, refused or rolled back since (write_shard, write_head).
ReadersNeverTorn ==
  \A h \in {head} \cup {pass[d].head : d \in {e \in Devices : pass[e] # NoPass}} :
    h.ok => \A l \in Layouts : h.at[l] > 0 /\ ShardAt(h, l).ds = h.ds

\* A device whose watermark says it compared a layout has seen, of each of its
\* groups, what the index now says, except where one of three
\* routes hid the change: HEAD moved while the pass reconciled, a gameStart
\* pass took the whole layout for compared, or files were read that the index
\* did not describe (_advance_index_watermark).
NothingOverlooked ==
  \A d \in Devices, g \in Groups :
    /\ head.ok /\ watermark[d].ds = head.ds
    /\ watermark[d].at[LayoutOf[g]] >= head.at[LayoutOf[g]]
    /\ g \notin missed[d]
    => observed[d][g] = Entry(head, g).content

\* The empty fast path is taken only when every layout, those excluded before
\* included, was compared (_advance_index_watermark).
FastPathHonest ==
  \A d \in Devices :
    head.ok /\ watermark[d].ds = head.ds /\ watermark[d].index = head.index
    => \A l \in Layouts : watermark[d].at[l] >= head.at[l]

\* While no Full Sync has rebuilt the index over an older client's write, the
\* journal and HEAD disagree, unless a commit stamped HEAD with the journal
\* generation it found (journal_diverged, _RemoteCommit.publish).
DivergenceSeen ==
  head.ok /\ unindexed # {} /\ ~masked => head.journal # journal

\* What a device reads of the index, and what it concludes from it, is true: no
\* torn index, no change overlooked, and an older client's write is noticed.
ReadersHonest == TypeOK /\ ReadersNeverTorn /\ NothingOverlooked /\ FastPathHonest /\ DivergenceSeen

\* A published shard never changes and a dataset's generations never go back
\* (write_shard, publish_group_updates, publish_authoritative_index).
GenerationsOnlyGrow ==
  /\ \A l \in Layouts, n \in 1..MaxGen :
       shards[l][n] # NoShard => shards'[l][n] = shards[l][n]
  /\ head.ok /\ head'.ok /\ head.ds = head'.ds =>
       /\ head'.index >= head.index
       /\ \A l \in Layouts : head'.at[l] >= head.at[l]

\* A Full Sync that meets no failure leaves an index that describes the real
\* files, whatever state it found ("Run a Full Sync to rebuild it from the
\* actual files on disk").
FullSyncRebuilds ==
  [][\A d \in Devices : pub.kind = "full" /\ pub.dev = d => ~Refused(d)]_vars

\* No sequence of operations that meets no failure makes a publication find
\* its shard's name taken: only a failed or interrupted publication, or a lost
\* HEAD, leaves such a file (write_shard).
HealthyNeverRefused == \A d \in Devices : Refused(d) => used.faults > 0

\* No publication takes back what another published, and none is refused that
\* met no failure.
PublicationsGrow == [][GenerationsOnlyGrow /\ HealthyNeverRefused]_vars

=============================================================================
