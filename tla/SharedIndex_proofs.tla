------------------------- MODULE SharedIndex_proofs -------------------------
(***************************************************************************)
(* Proofs about SharedIndex, for any devices, layouts, groups and bounds.  *)
(*                                                                         *)
(* ReadersHonest is not inductive: what a pass concludes depends on the    *)
(* HEAD it read some time ago, on what its device saw before, and on how   *)
(* far the publication under way has come.  IInv says how these relate.    *)
(***************************************************************************)
EXTENDS SharedIndex, TLAPS

(* What is assumed of the constants, fact by fact.                         *)
LEMMA Constants ==
  /\ LayoutOf \in [Groups -> Layouts] /\ Layouts # {} /\ NoDevice \notin Devices
  /\ MaxWrites \in Nat /\ MaxGen \in Nat /\ MaxLegacy \in Nat
  /\ MaxFaults \in Nat /\ MaxPasses \in Nat
BY SharedIndexAssumption

USE Constants

-----------------------------------------------------------------------------
(* The inductive invariant.                                                *)

\* HEAD is there with everything it names, or it is not there at all.  The
\* first generation of every layout carries the first dataset's name for good,
\* so no second dataset is ever completed.
HeadSound ==
  /\ head.ok => /\ head.ds = 1 /\ used.datasets = 1 /\ head.index > 0
                /\ head.journal <= journal
                /\ \A l \in Layouts : head.at[l] > 0 /\ ShardAt(head, l) # NoShard
  /\ ~head.ok => head = NoHead
  /\ used.datasets <= 1
  /\ used.datasets = 1 => MaxGen > 0 /\ \A l \in Layouts : shards[l][1] # NoShard
  /\ \A l \in Layouts, n \in 1..MaxGen :
       shards[l][n] # NoShard => shards[l][n].ds = 1

\* An operation's number is fresh when it begins, and its content with it; an
\* intent carries a journal generation that is past, and one an older client
\* left behind unless a commit took over its generation.
OpsSound ==
  /\ journal <= used.writes
  /\ \A g \in Groups : payload[g] <= used.writes + 1
  /\ intent # NoIntent => /\ intent.op <= used.writes /\ intent.old <= intent.op
                          /\ intent.base <= journal
                          /\ unindexed # {} /\ ~masked => intent.base # journal
  /\ \A e \in Devices : torn[e] # NoTorn =>
       torn[e].op <= used.writes /\ torn[e].old <= torn[e].op

\* The publication under way: its device has no pass that could change what it
\* scanned, a commit's content stays where it was promoted, and once HEAD names
\* it the device's own pass is behind.
PubSound ==
  /\ pub.kind \in {"commit", "forward"} => head.ok /\ intent # NoIntent
  /\ pub.phase = "promoted" =>
       IF pub.kind = "full" THEN \A l \in Layouts : NextGen(l) <= MaxGen
       ELSE NextGen(LayoutOf[intent.group]) <= MaxGen
  /\ pub # NoPub => pub.base <= journal
  /\ pub.kind = "full" => pass[pub.dev] = NoPass
  /\ pub.kind = "forward" => pub.base = intent.base
  /\ pub.kind = "commit" =>
       /\ payload[intent.group] = intent.op + 1
       /\ \A e \in Devices : torn[e] # NoTorn => torn[e].op < intent.op
       /\ masked \/ unindexed = {}
       /\ pub.phase # "appended" => journal < used.writes
       /\ pub.phase # "promoted" =>
            /\ Entry(head, intent.group).content = intent.op + 1
            /\ pass[pub.dev] # NoPass =>
                 pass[pub.dev].head.at[LayoutOf[intent.group]]
                   < head.at[LayoutOf[intent.group]]

\* While nothing has failed, no shard lies beyond HEAD but those the
\* publication under way has written.
NothingAhead ==
  used.faults = 0 =>
    \A l \in Layouts, n \in 1..MaxGen :
      shards[l][n] # NoShard /\ n > head.at[l] =>
        /\ n = NextGen(l) /\ pub.phase = "promoted"
        /\ l \in Targets(pub) /\ Written(pub, l)

\* The HEAD a pass read is one that was published, at or before the one there
\* is now, and the pass's device had not seen a later one before.
PassSound ==
  \A d \in Devices : pass[d] # NoPass =>
    LET h == pass[d].head
    IN /\ h.ok /\ h.ds = 1 /\ used.datasets = 1
       /\ \A l \in Layouts : h.at[l] > 0 /\ ShardAt(h, l) # NoShard
       /\ watermark[d].index <= h.index
       /\ \A l \in Layouts : watermark[d].at[l] <= h.at[l]
       /\ head.ok => /\ h.index <= head.index
                     /\ \A l \in Layouts : h.at[l] <= head.at[l]
                     /\ h.index = head.index => h.at = head.at

\* A watermark is never ahead of HEAD.
WatermarkSound ==
  \A d \in Devices :
    /\ watermark[d].ds <= used.datasets
    /\ watermark[d].ds = 0 =>
         watermark[d].index = 0 /\ \A l \in Layouts : watermark[d].at[l] = 0
    /\ head.ok => /\ watermark[d].index <= head.index
                  /\ \A l \in Layouts : watermark[d].at[l] <= head.at[l]

\* What a pass has compared, or reconciled, agrees with the HEAD it read, as
\* long as that HEAD's shard of the layout is the one there is now.
CompareSound ==
  \A d \in Devices, g \in Groups :
    LET l == LayoutOf[g]
        h == pass[d].head
    IN /\ pass[d] # NoPass /\ pass[d].phase \in {"reconcile", "seen"}
       /\ l \notin pass[d].excluded /\ Known(d, h).at[l] < h.at[l]
       /\ g \notin missed[d]
       /\ head.ok /\ head.at[l] = h.at[l]
       => \/ observed[d][g] = Entry(h, g).content
          \/ pass[d].phase = "reconcile" /\ g \in pass[d].chosen

IInv ==
  /\ TypeOK /\ NothingOverlooked /\ FastPathHonest /\ DivergenceSeen
  /\ HeadSound /\ OpsSound /\ PubSound /\ NothingAhead /\ PassSound
  /\ WatermarkSound /\ CompareSound

LEMMA InitInv == Init => IInv
<1> SUFFICES ASSUME Init PROVE IInv
  OBVIOUS
<1> USE DEF Init
<1>1. TypeOK
  <2>1. head \in Heads
    BY DEF NoHead, Heads
  <2>2. watermark \in [Devices -> Watermarks]
    BY DEF Watermarks
  <2>3. used \in Spent
    BY DEF Spent
  <2>4. payload \in [Groups -> Contents] /\ observed \in [Devices -> [Groups -> Contents]]
    BY DEF Contents
  <2>5. missed \in [Devices -> SUBSET Groups] /\ pass \in [Devices -> Passes \cup {NoPass}]
        /\ torn \in [Devices -> Intents \cup {NoTorn}]
    OBVIOUS
  <2>6. /\ DOMAIN shards = Layouts
        /\ \A l \in Layouts : shards[l] \in [1..MaxGen -> Shards(l) \cup {NoShard}]
    OBVIOUS
  <2>7. journal \in 0..MaxWrites /\ marker \in 0..MaxFaults + 1
    OBVIOUS
  <2>8. unindexed \subseteq Groups /\ masked \in BOOLEAN
    OBVIOUS
  <2>9. QED
    BY <2>1, <2>2, <2>3, <2>4, <2>5, <2>6, <2>7, <2>8 DEF TypeOK
<1>2. HeadSound /\ OpsSound /\ PubSound /\ NothingAhead
  BY DEF HeadSound, OpsSound, PubSound, NothingAhead, NoHead, NoIntent, NoPub, NoTorn, NoShard
<1>3. PassSound /\ WatermarkSound /\ CompareSound
  BY DEF PassSound, WatermarkSound, CompareSound, NoHead, NoPass
<1>4. NothingOverlooked /\ FastPathHonest /\ DivergenceSeen
  BY DEF NothingOverlooked, FastPathHonest, DivergenceSeen, NoHead, NoPass
<1>5. QED
  BY <1>1, <1>2, <1>3, <1>4 DEF IInv

-----------------------------------------------------------------------------
(* What a publication writes.                                              *)

(* The entry that an existing shard has of a group.                        *)
LEMMA EntryType ==
  ASSUME TypeOK, NEW h \in Heads, NEW g \in Groups,
         h.at[LayoutOf[g]] > 0, ShardAt(h, LayoutOf[g]) # NoShard
  PROVE  Entry(h, g) \in Entries
<1> DEFINE l == LayoutOf[g]
<1>1. l \in Layouts /\ h.at[l] \in 1..MaxGen
  BY DEF Heads
<1>2. shards[l][h.at[l]] \in Shards(l)
  BY <1>1 DEF TypeOK, ShardAt
<1>3. g \in GroupsOf(l)
  BY DEF GroupsOf
<1>4. shards[l][h.at[l]].holds \in [GroupsOf(l) -> Entries]
  BY <1>2 DEF Shards
<1>5. QED
  BY <1>3, <1>4 DEF Entry, ShardAt

(* A publication that promotes is one, and knows its intent.               *)
LEMMA PubType ==
  ASSUME TypeOK, PubSound, pub.phase = "promoted"
  PROVE  /\ pub \in Pubs
         /\ pub.kind # "full" => intent \in Intents /\ head.ok
<1>1. pub \in Pubs
  BY DEF TypeOK, NoPub
<1>2. QED
  BY <1>1 DEF TypeOK, PubSound, Pubs

(* Its targets are layouts that have a generation left.                    *)
LEMMA TargetsType ==
  ASSUME TypeOK, PubSound, pub.phase = "promoted"
  PROVE  /\ Targets(pub) \subseteq Layouts
         /\ \A l \in Targets(pub) : NextGen(l) \in 1..MaxGen
<1>1. head.at \in [Layouts -> 0..MaxGen]
  BY DEF TypeOK, Heads
<1>2. CASE pub.kind = "full"
  BY <1>1, <1>2 DEF PubSound, Targets, NextGen
<1>3. CASE pub.kind # "full"
  <2>1. LayoutOf[intent.group] \in Layouts
    BY <1>3, PubType DEF Intents
  <2>2. QED
    BY <1>1, <1>3, <2>1 DEF PubSound, Targets, NextGen
<1>4. QED
  BY <1>2, <1>3

(* What a layout's new shard holds.                                        *)
LEMMA WantedType ==
  ASSUME TypeOK, HeadSound, PubSound, pub.phase = "promoted", NEW l \in Layouts
  PROVE  Wanted(pub, l) \in [GroupsOf(l) -> Entries]
<1>0. \A g \in GroupsOf(l) : g \in Groups /\ LayoutOf[g] = l
  BY DEF GroupsOf
<1>1. CASE pub.kind = "full"
  <2>1. pub.dev \in Devices
    BY PubType DEF Pubs
  <2>2. \A g \in GroupsOf(l) :
          [content |-> observed[pub.dev][g], op |-> 0, dev |-> pub.dev] \in Entries
    BY <1>0, <2>1 DEF TypeOK, Entries
  <2>3. QED
    BY <1>1, <2>2 DEF Wanted
<1>2. CASE pub.kind # "full"
  <2>1. head.ok /\ intent \in Intents
    BY <1>2, PubType
  <2>2. [content |-> intent.op + 1, op |-> intent.op, dev |-> intent.dev] \in Entries
    BY <2>1 DEF Intents, Entries, Contents
  <2>3. \A g \in GroupsOf(l) : Entry(head, g) \in Entries
    BY <1>0, <2>1, EntryType DEF HeadSound, TypeOK
  <2>4. QED
    BY <1>2, <2>2, <2>3 DEF Wanted
<1>3. QED
  BY <1>1, <1>2

(* There is one dataset: a new one would need a first generation that no   *)
(* layout has left.                                                        *)
LEMMA DatasetFirst ==
  ASSUME TypeOK, HeadSound, PubSound, pub.phase = "promoted",
         NEW l \in Targets(pub), shards[l][NextGen(l)] = NoShard \/ Written(pub, l)
  PROVE  Dataset = 1 /\ (~head.ok => used.datasets = 0)
<1>1. l \in Layouts /\ NextGen(l) \in 1..MaxGen
  BY TargetsType
<1>2. CASE head.ok
  BY <1>2 DEF HeadSound, Dataset
<1>3. CASE ~head.ok
  <2>1. NextGen(l) = 1
    BY <1>1, <1>3 DEF HeadSound, NoHead, NextGen
  <2>2. used.datasets \in {0, 1}
    BY DEF TypeOK, HeadSound, Spent
  <2>3. Dataset = 1 + used.datasets
    BY <1>3 DEF Dataset
  <2>4. used.datasets # 1
    <3>1. SUFFICES ASSUME used.datasets = 1 PROVE FALSE
      OBVIOUS
    <3>2. shards[l][1] # NoShard /\ shards[l][1].ds = 1
      BY <1>1, <2>1, <3>1 DEF HeadSound
    <3>3. shards[l][1] = NextShard(pub, l)
      BY <2>1, <3>2 DEF Written
    <3>4. shards[l][1].ds = 2
      BY <2>3, <3>1, <3>3 DEF NextShard
    <3>5. QED
      BY <3>2, <3>4
  <2>5. QED
    BY <2>2, <2>3, <2>4
<1>4. QED
  BY <1>2, <1>3

(* A shard that is written is one of its layout, and the first of its name.*)
LEMMA NextShardType ==
  ASSUME TypeOK, HeadSound, PubSound, pub.phase = "promoted",
         NEW l \in Targets(pub), shards[l][NextGen(l)] = NoShard
  PROVE  /\ l \in Layouts /\ NextGen(l) \in 1..MaxGen
         /\ NextShard(pub, l) \in Shards(l)
         /\ NextShard(pub, l).ds = 1
<1>1. l \in Layouts /\ NextGen(l) \in 1..MaxGen
  BY TargetsType
<1>2. Dataset = 1
  BY DatasetFirst
<1>3. QED
  BY <1>1, <1>2, WantedType DEF NextShard, Shards

(* HEAD as a publication leaves it.                                        *)
LEMMA HeadWritten ==
  ASSUME IInv, NEW d \in Devices, WriteHead(d)
  PROVE  /\ head' \in Heads /\ head'.ok /\ head'.ds = 1
         /\ used' = [used EXCEPT !.datasets = 1]
         /\ ~head.ok => used.datasets = 0 /\ Targets(pub) = Layouts
         /\ Targets(pub) \subseteq Layouts
         /\ \A l \in Layouts :
              IF l \in Targets(pub)
              THEN /\ head'.at[l] = head.at[l] + 1 /\ head'.at[l] \in 1..MaxGen
                   /\ shards[l][head'.at[l]] = NextShard(pub, l)
              ELSE head'.at[l] = head.at[l] /\ head.ok
         /\ head'.index = head.index + (IF Targets(pub) = {} THEN 0 ELSE 1)
         /\ head'.journal = pub.base
<1> USE DEF IInv
<1>0. pub.phase = "promoted" /\ \A l \in Targets(pub) : Written(pub, l)
  BY DEF WriteHead
<1>1. pub \in Pubs /\ (pub.kind # "full" => intent \in Intents /\ head.ok)
  BY <1>0, PubType
<1>2. Targets(pub) \subseteq Layouts /\ \A l \in Targets(pub) : NextGen(l) \in 1..MaxGen
  BY <1>0, TargetsType
<1>3. ~head.ok => Targets(pub) = Layouts
  BY <1>1 DEF HeadSound, NoHead, Targets
<1>4. \A l \in Layouts : l \notin Targets(pub) => head.ok
  BY <1>3
<1>5. Dataset = 1 /\ (~head.ok => used.datasets = 0)
  <2>1. CASE Targets(pub) = {}
    BY <1>3, <2>1 DEF HeadSound, Dataset
  <2>2. CASE Targets(pub) # {}
    BY <1>0, <2>2, DatasetFirst
  <2>3. QED
    BY <2>1, <2>2
<1>6. head' = [ok |-> TRUE, ds |-> 1,
               index |-> head.index + (IF Targets(pub) = {} THEN 0 ELSE 1),
               journal |-> pub.base,
               at |-> [l \in Layouts |->
                         IF l \in Targets(pub) THEN NextGen(l) ELSE head.at[l]]]
  BY <1>5 DEF WriteHead
<1>7. head' \in Heads
  <2>1. head.index \in Nat /\ head.at \in [Layouts -> 0..MaxGen]
    BY DEF TypeOK, Heads
  <2>2. [l \in Layouts |-> IF l \in Targets(pub) THEN NextGen(l) ELSE head.at[l]]
          \in [Layouts -> 0..MaxGen]
    BY <1>2, <2>1
  <2>3. pub.base \in 0..MaxWrites
    BY <1>1 DEF Pubs
  <2>4. QED
    BY <1>6, <2>1, <2>2, <2>3 DEF Heads
<1>8. used' = [used EXCEPT !.datasets = 1]
  <2>1. CASE head.ok
    BY <2>1 DEF WriteHead, HeadSound, TypeOK
  <2>2. CASE ~head.ok
    BY <1>5, <2>2 DEF WriteHead
  <2>3. QED
    BY <2>1, <2>2
<1>9. \A l \in Targets(pub) : shards[l][NextGen(l)] = NextShard(pub, l)
  BY <1>0 DEF Written
<1>10. QED
  BY <1>2, <1>3, <1>4, <1>5, <1>6, <1>7, <1>8, <1>9 DEF NextGen

-----------------------------------------------------------------------------
(* Type correctness, a lemma for each part of the next-state relation.     *)

(* What is spent of a bound stays within it.                               *)
LEMMA SpentType ==
  ASSUME NEW u \in Spent
  PROVE  /\ u.writes < MaxWrites => [u EXCEPT !.writes = @ + 1] \in Spent
         /\ u.writes < MaxWrites /\ u.legacy < MaxLegacy =>
              [u EXCEPT !.writes = @ + 1, !.legacy = @ + 1] \in Spent
         /\ u.faults < MaxFaults => [u EXCEPT !.faults = @ + 1] \in Spent
         /\ u.passes < MaxPasses => [u EXCEPT !.passes = @ + 1] \in Spent
         /\ [u EXCEPT !.datasets = 1] \in Spent
<1>1. /\ u.writes \in 0..MaxWrites /\ u.legacy \in 0..MaxLegacy
      /\ u.faults \in 0..MaxFaults /\ u.passes \in 0..MaxPasses
  BY DEF Spent
<1>2. u.writes < MaxWrites => u.writes + 1 \in 0..MaxWrites
  BY <1>1
<1>3. u.legacy < MaxLegacy => u.legacy + 1 \in 0..MaxLegacy
  BY <1>1
<1>4. u.faults < MaxFaults => u.faults + 1 \in 0..MaxFaults
  BY <1>1
<1>5. u.passes < MaxPasses => u.passes + 1 \in 0..MaxPasses
  BY <1>1
<1>6. 1 \in 0..MaxFaults + 1
  OBVIOUS
<1>7. QED
  BY <1>2, <1>3, <1>4, <1>5, <1>6 DEF Spent

LEMMA PublicationType ==
  ASSUME IInv, NEW d \in Devices, Publication(d)
  PROVE  TypeOK'
<1> USE DEF IInv
<1>u. used \in Spent
  BY DEF TypeOK
<1>1. ASSUME NEW g \in Groups, BeginCommit(d, g) PROVE TypeOK'
  <2>1. used.writes + 1 \in 1..MaxWrites /\ journal \in 0..MaxWrites /\ payload[g] \in Contents
    BY <1>1, <1>u DEF BeginCommit, TypeOK, Spent
  <2>2. intent' \in Intents /\ pub' \in Pubs
    BY <1>1, <2>1 DEF BeginCommit, Intents, Pubs
  <2>3. payload' \in [Groups -> Contents]
    <3>1. used.writes + 2 \in Contents
      BY <2>1, <1>u DEF Contents, Spent
    <3>2. payload \in [Groups -> Contents]
      BY DEF TypeOK
    <3>3. QED
      BY <1>1, <3>1, <3>2 DEF BeginCommit
  <2>4. used' \in Spent
    BY <1>1, <1>u, SpentType DEF BeginCommit
  <2>5. QED
    BY <1>1, <2>2, <2>3, <2>4 DEF BeginCommit, TypeOK, local
<1>2. CASE Resolve(d)
  <2>1. intent \in Intents
    BY <1>2 DEF Resolve, TypeOK
  <2>2. pub' \in Pubs \cup {NoPub}
    BY <1>2, <2>1 DEF Resolve, TypeOK, Pubs, Intents
  <2>3. QED
    BY <1>2, <2>2 DEF Resolve, TypeOK, local, history
<1>3. CASE BeginFullSync(d)
  <2>1. pub' \in Pubs /\ Unsettled \subseteq Groups
    BY <1>3 DEF BeginFullSync, Pubs, TypeOK, Unsettled
  <2>2. QED
    BY <1>3, <2>1 DEF BeginFullSync, TypeOK
<1>4. ASSUME NEW l \in Layouts, WriteShard(d, l) PROVE TypeOK'
  <2>1. NextGen(l) \in 1..MaxGen /\ NextShard(pub, l) \in Shards(l)
    BY <1>4, NextShardType DEF WriteShard
  <2>2. /\ DOMAIN shards' = Layouts
        /\ \A k \in Layouts : shards'[k] \in [1..MaxGen -> Shards(k) \cup {NoShard}]
    BY <1>4, <2>1 DEF WriteShard, TypeOK
  <2>3. QED
    BY <1>4, <2>2 DEF WriteShard, TypeOK, local, history
<1>5. CASE WriteHead(d)
  <2>1. head' \in Heads /\ used' = [used EXCEPT !.datasets = 1]
    BY <1>5, HeadWritten
  <2>2. pub \in Pubs
    BY <1>5 DEF WriteHead, TypeOK, NoPub
  <2>3. pub' \in Pubs /\ unindexed' \subseteq Groups /\ masked' \in BOOLEAN
    BY <1>5, <2>2 DEF WriteHead, TypeOK, Pubs
  <2>4. used' \in Spent
    BY <2>1, <1>u, SpentType
  <2>5. QED
    BY <1>5, <2>1, <2>3, <2>4 DEF WriteHead, TypeOK, local
<1>6. CASE Append(d)
  <2>1. pub \in Pubs /\ intent \in Intents
    BY <1>6 DEF Append, TypeOK, NoPub, PubSound
  <2>2. journal' \in 0..MaxWrites
    <3>1. journal \in Nat /\ used.writes \in 0..MaxWrites /\ journal < used.writes
      BY <1>6, <1>u DEF Append, TypeOK, PubSound, Spent
    <3>2. journal' \in {journal, journal + 1}
      BY <1>6 DEF Append
    <3>3. QED
      BY <3>1, <3>2
  <2>3. pub' \in Pubs \cup {NoPub} /\ intent' \in Intents \cup {NoIntent}
    BY <1>6, <2>1 DEF Append, Pubs
  <2>4. observed' \in [Devices -> [Groups -> Contents]]
    BY <1>6, <2>1 DEF Append, TypeOK, Intents
  <2>5. missed' \in [Devices -> SUBSET Groups]
    BY <1>6 DEF Append, TypeOK
  <2>6. used' \in Spent
    BY <1>6, <1>u, SpentType DEF Append
  <2>7. QED
    BY <1>6, <2>2, <2>3, <2>4, <2>5, <2>6 DEF Append, TypeOK
<1>7. CASE CloseCommit(d)
  <2>1. head' \in Heads
    BY <1>7 DEF CloseCommit, TypeOK, Heads
  <2>2. used' \in Spent
    BY <1>7, <1>u, SpentType DEF CloseCommit
  <2>3. QED
    BY <1>7, <2>1, <2>2 DEF CloseCommit, TypeOK, local, history
<1>8. CASE CloseForward(d)
  BY <1>8 DEF CloseForward, TypeOK, local, history
<1>9. CASE CloseFullSync(d)
  <2>1. marker' \in 0..MaxFaults + 1
    BY <1>9 DEF CloseFullSync, TypeOK, Heads
  <2>2. QED
    BY <1>9, <2>1 DEF CloseFullSync, TypeOK, local, history
<1>10. CASE Refused(d)
  <2>1. payload' \in [Groups -> Contents]
    BY <1>10 DEF Refused, GiveUp, TypeOK, PubSound, Intents
  <2>2. QED
    BY <1>10, <2>1 DEF Refused, GiveUp, TypeOK, local, history
<1>11. QED
  BY <1>1, <1>2, <1>3, <1>4, <1>5, <1>6, <1>7, <1>8, <1>9, <1>10 DEF Publication

LEMMA TroubleType ==
  ASSUME IInv, NEW d \in Devices, Trouble(d)
  PROVE  TypeOK'
<1> USE DEF IInv
<1>u. used \in Spent
  BY DEF TypeOK
<1>1. CASE WriteFails(d)
  <2>1. payload' \in [Groups -> Contents]
    BY <1>1 DEF WriteFails, GiveUp, TypeOK, PubSound, Intents
  <2>2. used' \in Spent
    BY <1>1, <1>u, SpentType DEF WriteFails
  <2>3. QED
    BY <1>1, <2>1, <2>2 DEF WriteFails, GiveUp, TypeOK, local, history
<1>2. CASE Crash(d)
  <2>1. torn' \in [Devices -> Intents \cup {NoTorn}]
    BY <1>2 DEF Crash, TypeOK, NoIntent, NoTorn
  <2>2. used' \in Spent
    BY <1>2, <1>u, SpentType DEF Crash
  <2>3. QED
    BY <1>2, <2>1, <2>2 DEF Crash, TypeOK, history
<1>3. CASE RollBack(d)
  <2>1. torn[d] \in Intents
    BY <1>3 DEF RollBack, TypeOK
  <2>2. payload' \in [Groups -> Contents]
    BY <1>3, <2>1 DEF RollBack, TypeOK, Intents
  <2>3. QED
    BY <1>3, <2>2 DEF RollBack, TypeOK, history
<1>4. QED
  BY <1>1, <1>2, <1>3 DEF Trouble

(* What a device has compared, and what its watermark may become.          *)
LEMMA WatermarkType ==
  ASSUME TypeOK, NEW d \in Devices, pass[d] # NoPass, NEW h \in Heads
  PROVE  AdvancedWatermark(d, h) \in Watermarks
<1>1. pass[d] \in Passes /\ pass[d].head \in Heads
  BY DEF TypeOK, Passes
<1>2. Known(d, pass[d].head) \in Watermarks
  <2>1. watermark[d] \in Watermarks
    BY DEF TypeOK
  <2>2. [ds |-> pass[d].head.ds, index |-> 0, at |-> [l \in Layouts |-> 0]] \in Watermarks
    BY <1>1 DEF Heads, Watermarks
  <2>3. QED
    BY <2>1, <2>2 DEF Known
<1> DEFINE old == Known(d, pass[d].head)
           w == AdvancedWatermark(d, h)
<1>3. w.ds \in 0..MaxFaults + 1 /\ w.index \in Nat
  BY <1>2 DEF AdvancedWatermark, Heads, Watermarks
<1>4. w.at \in [Layouts -> 0..MaxGen]
  BY <1>2 DEF AdvancedWatermark, Heads, Watermarks
<1>5. QED
  BY <1>3, <1>4 DEF AdvancedWatermark, Watermarks

LEMMA DiscoveryType ==
  ASSUME IInv, NEW d \in Devices, Discovery(d)
  PROVE  TypeOK'
<1> USE DEF IInv
<1>u. used \in Spent
  BY DEF TypeOK
<1>0. pass[d] # NoPass => pass[d] \in Passes /\ pass[d].head \in Heads
  BY DEF TypeOK, Passes
<1>1. ASSUME NEW excluded \in SUBSET Layouts, BeginQuickSync(d, excluded) PROVE TypeOK'
  <2>1. pass' \in [Devices -> Passes \cup {NoPass}]
    BY <1>1 DEF BeginQuickSync, TypeOK, Passes
  <2>2. used' \in Spent
    BY <1>1, <1>u, SpentType DEF BeginQuickSync
  <2>3. QED
    BY <1>1, <2>1, <2>2 DEF BeginQuickSync, TypeOK, shared, history
<1>2. ASSUME NEW g \in Groups, BeginGameStart(d, g) PROVE TypeOK'
  <2>1. pass' \in [Devices -> Passes \cup {NoPass}]
    BY <1>2 DEF BeginGameStart, TypeOK, Passes
  <2>2. used' \in Spent
    BY <1>2, <1>u, SpentType DEF BeginGameStart
  <2>3. QED
    BY <1>2, <2>1, <2>2 DEF BeginGameStart, TypeOK, shared, history
<1>3. CASE EndEarly(d)
  BY <1>3 DEF EndEarly, TypeOK, shared, history
<1>4. CASE Compare(d)
  <2>1. pass[d] \in Passes /\ pass[d].head \in Heads
    BY <1>0, <1>4 DEF Compare, NoPass
  <2>2. AdvancedWatermark(d, pass[d].head) \in Watermarks
    BY <1>4, <2>1, WatermarkType DEF Compare, NoPass
  <2>3. watermark' \in [Devices -> Watermarks]
    BY <1>4, <2>2 DEF Compare, TypeOK
  <2>4. Differing(d) \subseteq Groups
    BY DEF Differing, InScope
  <2>5. pass' \in [Devices -> Passes \cup {NoPass}]
    <3>1. pass \in [Devices -> Passes \cup {NoPass}]
      BY DEF TypeOK
    <3>2. [pass[d] EXCEPT !.chosen = Differing(d), !.phase = "reconcile"] \in Passes
      BY <2>1, <2>4 DEF Passes
    <3>3. \/ pass' = [pass EXCEPT ![d] = NoPass]
          \/ pass' = [pass EXCEPT ![d] =
                        [pass[d] EXCEPT !.chosen = Differing(d), !.phase = "reconcile"]]
      BY <1>4, <3>1 DEF Compare
    <3>4. QED
      BY <3>1, <3>2, <3>3
  <2>6. missed' \in [Devices -> SUBSET Groups]
    BY <1>4 DEF Compare, TypeOK
  <2>7. QED
    BY <1>4, <2>3, <2>5, <2>6 DEF Compare, TypeOK, shared
<1>5. CASE Reconcile(d)
  <2>1. pass[d] \in Passes
    BY <1>0, <1>5 DEF Reconcile, NoPass
  <2>2. pass' \in [Devices -> Passes \cup {NoPass}]
    BY <1>5, <2>1 DEF Reconcile, TypeOK, Passes
  <2>3. missed' \in [Devices -> SUBSET Groups]
    BY <1>5, <2>1 DEF Reconcile, TypeOK, Passes
  <2>4. observed' \in [Devices -> [Groups -> Contents]]
    BY <1>5 DEF Reconcile, TypeOK
  <2>5. QED
    BY <1>5, <2>2, <2>3, <2>4 DEF Reconcile, TypeOK, shared
<1>6. CASE Advance(d)
  <2>1. AdvancedWatermark(d, head) \in Watermarks
    BY <1>6, WatermarkType DEF Advance, NoPass, TypeOK
  <2>2. watermark' \in [Devices -> Watermarks]
    BY <1>6, <2>1 DEF Advance, TypeOK
  <2>3. missed' \in [Devices -> SUBSET Groups]
    BY <1>6 DEF Advance, TypeOK
  <2>4. QED
    BY <1>6, <2>2, <2>3 DEF Advance, TypeOK, shared
<1>7. CASE Defer(d)
  BY <1>7 DEF Defer, TypeOK, shared, history
<1>8. QED
  BY <1>1, <1>2, <1>3, <1>4, <1>5, <1>6, <1>7 DEF Discovery

LEMMA OutsideType ==
  ASSUME IInv, Outside
  PROVE  TypeOK'
<1> USE DEF IInv
<1>u. used \in Spent
  BY DEF TypeOK
<1>1. CASE LoseHead
  <2>1. head' \in Heads
    BY <1>1 DEF LoseHead, NoHead, Heads
  <2>2. used' \in Spent
    BY <1>1, <1>u, SpentType DEF LoseHead
  <2>3. QED
    BY <1>1, <2>1, <2>2 DEF LoseHead, TypeOK, local, history
<1>2. ASSUME NEW g \in Groups, LegacyWrite(g) PROVE TypeOK'
  <2>1. payload' \in [Groups -> Contents]
    <3>1. used.writes + 2 \in Contents
      BY <1>2, <1>u DEF LegacyWrite, Contents, Spent
    <3>2. payload \in [Groups -> Contents]
      BY DEF TypeOK
    <3>3. QED
      BY <1>2, <3>1, <3>2 DEF LegacyWrite
  <2>2. journal' \in 0..MaxWrites
    <3>1. journal \in Nat /\ used.writes \in Nat /\ journal <= used.writes
      BY <1>u DEF TypeOK, OpsSound, Spent
    <3>2. journal' = journal + 1 /\ used.writes < MaxWrites
      BY <1>2 DEF LegacyWrite
    <3>3. QED
      BY <3>1, <3>2
  <2>3. used' \in Spent
    BY <1>2, <1>u, SpentType DEF LegacyWrite
  <2>4. QED
    BY <1>2, <2>1, <2>2, <2>3 DEF LegacyWrite, TypeOK, local
<1>3. QED
  BY <1>1, <1>2 DEF Outside

(* TypeOK with the lemmas above, for every step.                           *)
LEMMA TypeStep ==
  ASSUME IInv, [Next]_vars
  PROVE  TypeOK'
<1>1. CASE UNCHANGED vars
  BY <1>1 DEF IInv, TypeOK, vars, shared, local, history
<1>2. QED
  BY <1>1, PublicationType, TroubleType, DiscoveryType, OutsideType DEF Next

-----------------------------------------------------------------------------
(* Which step changes what.                                                *)

WhoChanges ==
  /\ shards' # shards => \E d \in Devices, l \in Layouts : WriteShard(d, l)
  /\ head' # head \/ used'.datasets # used.datasets =>
       LoseHead \/ \E d \in Devices : WriteHead(d) \/ CloseCommit(d)
  /\ journal' # journal =>
       (\E d \in Devices : Append(d)) \/ (\E g \in Groups : LegacyWrite(g))
  /\ payload' # payload \/ used'.writes # used.writes =>
       \/ \E d \in Devices, g \in Groups : BeginCommit(d, g)
       \/ \E d \in Devices : Refused(d) \/ WriteFails(d) \/ RollBack(d)
       \/ \E g \in Groups : LegacyWrite(g)
  /\ intent' # intent \/ pub' # pub =>
       \/ \E d \in Devices, g \in Groups : BeginCommit(d, g)
       \/ \E d \in Devices :
            \/ Resolve(d) \/ BeginFullSync(d) \/ WriteHead(d) \/ Append(d)
            \/ CloseCommit(d) \/ CloseForward(d) \/ CloseFullSync(d)
            \/ Refused(d) \/ WriteFails(d) \/ Crash(d)
  /\ torn' # torn => \E d \in Devices : Crash(d) \/ RollBack(d)
  /\ unindexed' # unindexed \/ masked' # masked =>
       \/ \E d \in Devices, g \in Groups : BeginCommit(d, g)
       \/ \E d \in Devices : WriteHead(d)
       \/ \E g \in Groups : LegacyWrite(g)
  /\ observed' # observed =>
       \E d \in Devices : BeginFullSync(d) \/ Append(d) \/ Reconcile(d)
  /\ missed' # missed =>
       \E d \in Devices : \/ BeginFullSync(d) \/ Append(d) \/ Compare(d)
                          \/ Reconcile(d) \/ Advance(d)
  /\ watermark' # watermark => \E d \in Devices : Compare(d) \/ Advance(d)
  /\ pass' # pass => \E d \in Devices : Discovery(d) \/ Crash(d)
  /\ used'.faults >= used.faults

(* No other step does: each lemma lists what the steps of one kind leave.  *)
LEMMA PublicationChanges ==
  ASSUME IInv, NEW d \in Devices, Publication(d) \/ Trouble(d)
  PROVE  WhoChanges
<1>u. used \in Spent /\ used.faults \in Nat
  BY DEF IInv, TypeOK, Spent
<1>1. ASSUME NEW g \in Groups, BeginCommit(d, g) PROVE WhoChanges
  <2>1. /\ UNCHANGED <<shards, head, journal, torn, observed,
                           missed, watermark, pass>>
        /\ used'.datasets = used.datasets /\ used'.faults = used.faults
    BY <1>1, <1>u DEF BeginCommit, local, history, Spent
  <2>2. QED
    BY <1>1, <2>1, <1>u DEF WhoChanges
<1>2. CASE Resolve(d)
  <2>1. UNCHANGED <<shards, head, journal, payload, torn,
                        unindexed, masked, observed, missed,
                        watermark, pass, used>>
    BY <1>2, <1>u DEF Resolve, local, history
  <2>2. QED
    BY <1>2, <2>1, <1>u DEF WhoChanges
<1>3. CASE BeginFullSync(d)
  <2>1. UNCHANGED <<shards, head, journal, payload, torn,
                        unindexed, masked, watermark, pass, used>>
    BY <1>3, <1>u DEF BeginFullSync, local, history
  <2>2. QED
    BY <1>3, <2>1, <1>u DEF WhoChanges
<1>4. ASSUME NEW l \in Layouts, WriteShard(d, l) PROVE WhoChanges
  <2>1. UNCHANGED <<head, journal, payload, intent, pub, torn,
                        unindexed, masked, observed, missed,
                        watermark, pass, used>>
    BY <1>4, <1>u DEF WriteShard, local, history
  <2>2. QED
    BY <1>4, <2>1, <1>u DEF WhoChanges
<1>5. CASE WriteHead(d)
  <2>1. /\ UNCHANGED <<shards, journal, payload, intent, torn,
                           observed, missed, watermark, pass>>
        /\ used'.writes = used.writes /\ used'.faults = used.faults
    BY <1>5, <1>u DEF WriteHead, local, history, Spent
  <2>2. QED
    BY <1>5, <2>1, <1>u DEF WhoChanges
<1>6. CASE Append(d)
  <2>1. /\ UNCHANGED <<shards, head, payload, torn, unindexed,
                           masked, watermark, pass>>
        /\ used'.datasets = used.datasets /\ used'.writes = used.writes /\ used'.faults >= used.faults
    BY <1>6, <1>u DEF Append, local, history, Spent
  <2>2. QED
    BY <1>6, <2>1, <1>u DEF WhoChanges
<1>7. CASE CloseCommit(d)
  <2>1. /\ UNCHANGED <<shards, journal, payload, torn, unindexed,
                           masked, observed, missed, watermark, pass>>
        /\ used'.datasets = used.datasets /\ used'.writes = used.writes /\ used'.faults >= used.faults
    BY <1>7, <1>u DEF CloseCommit, local, history, Spent
  <2>2. QED
    BY <1>7, <2>1, <1>u DEF WhoChanges
<1>8. CASE CloseForward(d)
  <2>1. UNCHANGED <<shards, head, journal, payload, torn,
                        unindexed, masked, observed, missed,
                        watermark, pass, used>>
    BY <1>8, <1>u DEF CloseForward, local, history
  <2>2. QED
    BY <1>8, <2>1, <1>u DEF WhoChanges
<1>9. CASE CloseFullSync(d)
  <2>1. UNCHANGED <<shards, head, journal, payload, torn,
                        unindexed, masked, observed, missed,
                        watermark, pass, used>>
    BY <1>9, <1>u DEF CloseFullSync, local, history
  <2>2. QED
    BY <1>9, <2>1, <1>u DEF WhoChanges
<1>10. CASE Refused(d)
  <2>1. UNCHANGED <<shards, head, journal, torn, unindexed,
                        masked, observed, missed, watermark, pass,
                        used>>
    BY <1>10, <1>u DEF Refused, GiveUp, local, history
  <2>2. QED
    BY <1>10, <2>1, <1>u DEF WhoChanges
<1>11. CASE WriteFails(d)
  <2>1. /\ UNCHANGED <<shards, head, journal, torn, unindexed,
                           masked, observed, missed, watermark, pass>>
        /\ used'.datasets = used.datasets /\ used'.writes = used.writes /\ used'.faults >= used.faults
    BY <1>11, <1>u DEF WriteFails, GiveUp, local, history, Spent
  <2>2. QED
    BY <1>11, <2>1, <1>u DEF WhoChanges
<1>12. CASE Crash(d)
  <2>1. /\ UNCHANGED <<shards, head, journal, payload, unindexed,
                           masked, observed, missed, watermark>>
        /\ used'.datasets = used.datasets /\ used'.writes = used.writes /\ used'.faults >= used.faults
    BY <1>12, <1>u DEF Crash, local, history, Spent
  <2>2. QED
    BY <1>12, <2>1, <1>u DEF WhoChanges
<1>13. CASE RollBack(d)
  <2>1. UNCHANGED <<shards, head, journal, intent, pub,
                        unindexed, masked, observed, missed,
                        watermark, pass, used>>
    BY <1>13, <1>u DEF RollBack, local, history
  <2>2. QED
    BY <1>13, <2>1, <1>u DEF WhoChanges
<1>14. QED
  BY <1>1, <1>2, <1>3, <1>4, <1>5, <1>6, <1>7, <1>8, <1>9, <1>10, <1>11, <1>12, <1>13 DEF Publication, Trouble

LEMMA DiscoveryChanges ==
  ASSUME IInv, NEW d \in Devices, Discovery(d)
  PROVE  WhoChanges
<1>u. used \in Spent /\ used.faults \in Nat
  BY DEF IInv, TypeOK, Spent
<1>0. UNCHANGED <<payload, shards, head, journal, intent, pub, torn, unindexed, masked>>
  BY DEF Discovery, BeginQuickSync, BeginGameStart, EndEarly, Compare, Reconcile, Advance,
         Defer, shared, history
<1>1. ASSUME NEW excluded \in SUBSET Layouts, BeginQuickSync(d, excluded) PROVE WhoChanges
  <2>1. /\ UNCHANGED <<observed, missed, watermark>>
        /\ used'.datasets = used.datasets /\ used'.writes = used.writes /\ used'.faults >= used.faults
    BY <1>1, <1>u DEF BeginQuickSync, history, Spent
  <2>2. QED
    BY <1>1, <1>0, <2>1, <1>u DEF WhoChanges
<1>2. ASSUME NEW g \in Groups, BeginGameStart(d, g) PROVE WhoChanges
  <2>1. /\ UNCHANGED <<observed, missed, watermark>>
        /\ used'.datasets = used.datasets /\ used'.writes = used.writes /\ used'.faults >= used.faults
    BY <1>2, <1>u DEF BeginGameStart, history, Spent
  <2>2. QED
    BY <1>2, <1>0, <2>1, <1>u DEF WhoChanges
<1>3. CASE EndEarly(d)
  <2>1. UNCHANGED <<observed, missed, watermark, used>>
    BY <1>3 DEF EndEarly, history
  <2>2. QED
    BY <1>3, <1>0, <2>1, <1>u DEF WhoChanges
<1>4. CASE Compare(d)
  <2>1. UNCHANGED <<observed, used>>
    BY <1>4 DEF Compare, history
  <2>2. QED
    BY <1>4, <1>0, <2>1, <1>u DEF WhoChanges
<1>5. CASE Reconcile(d)
  <2>1. UNCHANGED <<watermark, used>>
    BY <1>5 DEF Reconcile, history
  <2>2. QED
    BY <1>5, <1>0, <2>1, <1>u DEF WhoChanges
<1>6. CASE Advance(d)
  <2>1. UNCHANGED <<observed, used>>
    BY <1>6 DEF Advance, history
  <2>2. QED
    BY <1>6, <1>0, <2>1, <1>u DEF WhoChanges
<1>7. CASE Defer(d)
  <2>1. UNCHANGED <<observed, missed, watermark, used>>
    BY <1>7 DEF Defer, history
  <2>2. QED
    BY <1>7, <1>0, <2>1, <1>u DEF WhoChanges
<1>8. QED
  BY <1>1, <1>2, <1>3, <1>4, <1>5, <1>6, <1>7 DEF Discovery

LEMMA Changes ==
  ASSUME IInv, [Next]_vars
  PROVE  WhoChanges
<1>u. used \in Spent /\ used.faults \in Nat
  BY DEF IInv, TypeOK, Spent
<1>1. CASE UNCHANGED vars
  BY <1>1, <1>u DEF WhoChanges, vars, shared, local, history
<1>2. CASE LoseHead
  <2>1. /\ UNCHANGED <<payload, shards, journal, intent, pub, torn, unindexed, masked,
                        observed, missed, watermark, pass>>
        /\ used'.writes = used.writes /\ used'.faults >= used.faults
    BY <1>2, <1>u DEF LoseHead, local, history, Spent
  <2>2. QED
    BY <1>2, <2>1, <1>u DEF WhoChanges
<1>3. ASSUME NEW g \in Groups, LegacyWrite(g) PROVE WhoChanges
  <2>1. /\ UNCHANGED <<shards, head, intent, pub, torn, observed, missed, watermark, pass>>
        /\ used'.datasets = used.datasets /\ used'.faults = used.faults
    BY <1>3, <1>u DEF LegacyWrite, local, Spent
  <2>2. QED
    BY <1>3, <2>1, <1>u DEF WhoChanges
<1>4. QED
  BY <1>1, <1>2, <1>3, PublicationChanges, DiscoveryChanges DEF Next, Outside

-----------------------------------------------------------------------------
(* Shards are written once, and carry the one dataset there is.            *)

LEMMA ShardsGrow ==
  ASSUME IInv, [Next]_vars
  PROVE  \A l \in Layouts, n \in 1..MaxGen :
           /\ shards[l][n] # NoShard => shards'[l][n] = shards[l][n]
           /\ shards'[l][n] # NoShard => shards'[l][n].ds = 1
<1> USE DEF IInv
<1>1. CASE shards' = shards
  BY <1>1 DEF HeadSound
<1>2. ASSUME NEW d \in Devices, NEW k \in Layouts, WriteShard(d, k)
      PROVE  \A l \in Layouts, n \in 1..MaxGen :
               /\ shards[l][n] # NoShard => shards'[l][n] = shards[l][n]
               /\ shards'[l][n] # NoShard => shards'[l][n].ds = 1
  <2>1. /\ NextGen(k) \in 1..MaxGen /\ shards[k][NextGen(k)] = NoShard
        /\ NextShard(pub, k).ds = 1
    BY <1>2, NextShardType DEF WriteShard
  <2>2. shards' = [shards EXCEPT ![k][NextGen(k)] = NextShard(pub, k)]
    BY <1>2 DEF WriteShard
  <2>3. QED
    BY <2>1, <2>2 DEF HeadSound, TypeOK
<1>3. QED
  BY <1>1, <1>2, Changes DEF WhoChanges

LEMMA HeadStep ==
  ASSUME IInv, [Next]_vars
  PROVE  HeadSound'
<1> USE DEF IInv
<1>0. /\ used.datasets \in {0, 1} /\ journal \in Nat
      /\ head \in Heads /\ head.at \in [Layouts -> 0..MaxGen] /\ head.index \in Nat
  BY DEF TypeOK, HeadSound, Heads, Spent
<1>j. journal' \in Nat /\ journal' >= journal
  <2>1. ASSUME NEW d \in Devices, Append(d) PROVE journal' \in {journal, journal + 1}
    BY <2>1 DEF Append
  <2>2. ASSUME NEW g \in Groups, LegacyWrite(g) PROVE journal' = journal + 1
    BY <2>2 DEF LegacyWrite
  <2>3. QED
    BY <1>0, <2>1, <2>2, Changes DEF WhoChanges
<1>s. /\ \A l \in Layouts, n \in 1..MaxGen :
           shards[l][n] # NoShard => shards'[l][n] = shards[l][n]
      /\ \A l \in Layouts, n \in 1..MaxGen :
           shards'[l][n] # NoShard => shards'[l][n].ds = 1
  BY ShardsGrow
<1>1. CASE head' = head /\ used'.datasets = used.datasets
  <2>1. head.ok => \A l \in Layouts : head.at[l] > 0 /\ ShardAt(head, l)' # NoShard
    BY <1>0, <1>1, <1>s DEF HeadSound, ShardAt
  <2>2. used.datasets = 1 => MaxGen > 0 /\ \A l \in Layouts : shards'[l][1] # NoShard
    BY <1>0, <1>s DEF HeadSound
  <2>3. head.ok => head.journal <= journal'
    BY <1>0, <1>j DEF HeadSound, Heads
  <2>4. QED
    BY <1>1, <1>s, <2>1, <2>2, <2>3 DEF HeadSound
<1>2. ASSUME NEW d \in Devices, WriteHead(d) PROVE HeadSound'
  <2>0. shards' = shards /\ journal' = journal
    BY <1>2 DEF WriteHead
  <2>1. /\ head' \in Heads /\ head'.ok /\ head'.ds = 1 /\ used'.datasets = 1
        /\ head'.index = head.index + (IF Targets(pub) = {} THEN 0 ELSE 1)
        /\ head'.journal = pub.base
        /\ ~head.ok => used.datasets = 0 /\ Targets(pub) = Layouts
    <3>1. used' = [used EXCEPT !.datasets = 1] /\ used \in Spent
      BY <1>2, HeadWritten DEF TypeOK
    <3>2. used'.datasets = 1
      BY <3>1 DEF Spent
    <3>3. QED
      BY <1>2, <3>2, HeadWritten
  <2>2. \A l \in Layouts : head'.at[l] > 0 /\ shards[l][head'.at[l]] # NoShard
    <3>1. TAKE l \in Layouts
    <3>2. CASE l \in Targets(pub)
      <4>1. head'.at[l] \in 1..MaxGen /\ shards[l][head'.at[l]] = NextShard(pub, l)
        BY <1>2, <3>2, HeadWritten
      <4>2. Dataset = 1
        BY <1>2, <3>2, DatasetFirst DEF WriteHead
      <4>3. NextShard(pub, l) # NoShard
        BY <4>2 DEF NextShard, NoShard
      <4>4. QED
        BY <4>1, <4>3
    <3>3. CASE l \notin Targets(pub)
      <4>1. head'.at[l] = head.at[l] /\ head.ok
        BY <1>2, <3>3, HeadWritten
      <4>2. QED
        BY <4>1 DEF HeadSound, ShardAt
    <3>4. QED
      BY <3>2, <3>3
  <2>3. MaxGen > 0 /\ \A l \in Layouts : shards[l][1] # NoShard
    <3>1. CASE used.datasets = 1
      BY <3>1 DEF HeadSound
    <3>2. CASE used.datasets = 0
      <4>1. ~head.ok
        BY <3>2 DEF HeadSound
      <4>2. \A l \in Layouts : head'.at[l] = 1 /\ head'.at[l] \in 1..MaxGen
        BY <1>2, <2>1, <4>1, HeadWritten DEF HeadSound, NoHead
      <4>3. QED
        BY <2>2, <4>2
    <3>3. QED
      BY <1>0, <3>1, <3>2
  <2>4. head'.index > 0
    BY <1>0, <2>1 DEF HeadSound
  <2>5. head'.journal <= journal
    BY <1>2, <2>1 DEF WriteHead, PubSound, NoPub
  <2>6. QED
    BY <1>s, <2>0, <2>1, <2>2, <2>3, <2>4, <2>5 DEF HeadSound, ShardAt
<1>3. ASSUME NEW d \in Devices, CloseCommit(d) PROVE HeadSound'
  <2>1. /\ shards' = shards /\ journal' = journal /\ head.ok
        /\ head' \in {head, [head EXCEPT !.journal = journal]}
        /\ used' \in {used, [used EXCEPT !.faults = @ + 1]} /\ used \in Spent
    BY <1>3 DEF CloseCommit, PubSound, TypeOK
  <2>2. used'.datasets = used.datasets
    BY <2>1 DEF Spent
  <2>3. /\ head'.ok /\ head'.ds = head.ds /\ head'.index = head.index /\ head'.at = head.at
        /\ head'.journal \in {head.journal, journal}
    BY <1>0, <2>1 DEF Heads
  <2>4. QED
    BY <1>0, <1>s, <2>1, <2>2, <2>3 DEF HeadSound, ShardAt
<1>4. CASE LoseHead
  <2>1. shards' = shards /\ head' = NoHead /\ used' = [used EXCEPT !.faults = @ + 1] /\ used \in Spent
    BY <1>4 DEF LoseHead, TypeOK
  <2>2. used'.datasets = used.datasets
    BY <2>1 DEF Spent
  <2>3. QED
    BY <1>s, <2>1, <2>2 DEF HeadSound, NoHead
<1>5. QED
  BY <1>1, <1>2, <1>3, <1>4, Changes DEF WhoChanges

-----------------------------------------------------------------------------
(* Operations, intents and what crashes left of them.                      *)

LEMMA OpsTypes ==
  ASSUME IInv
  PROVE  /\ used \in Spent /\ used.writes \in Nat /\ journal \in Nat
         /\ payload \in [Groups -> Contents]
         /\ \A g \in Groups : payload[g] \in Nat
         /\ intent # NoIntent => /\ intent \in Intents /\ intent.group \in Groups
                                 /\ intent.op \in Nat /\ intent.old \in Nat
                                 /\ intent.base \in Nat
         /\ \A e \in Devices : torn[e] # NoTorn =>
              /\ torn[e] \in Intents /\ torn[e].group \in Groups
              /\ torn[e].op \in Nat /\ torn[e].old \in Nat
<1> USE DEF IInv
<1>1. used.writes \in Nat /\ journal \in Nat /\ used \in Spent
  BY DEF TypeOK, Spent
<1>2. payload \in [Groups -> Contents] /\ \A g \in Groups : payload[g] \in Nat
  BY DEF TypeOK, Contents
<1>3. \A i \in Intents : i.group \in Groups /\ i.op \in Nat /\ i.old \in Nat /\ i.base \in Nat
  BY DEF Intents, Contents
<1>4. /\ intent # NoIntent => intent \in Intents
      /\ \A e \in Devices : torn[e] # NoTorn => torn[e] \in Intents
  BY DEF TypeOK
<1>5. QED
  BY <1>1, <1>2, <1>3, <1>4

LEMMA OpsStep ==
  ASSUME IInv, [Next]_vars
  PROVE  OpsSound'
<1> USE DEF IInv
<1>u. /\ used \in Spent /\ used.writes \in Nat /\ journal \in Nat
      /\ payload \in [Groups -> Contents] /\ \A g \in Groups : payload[g] \in Nat
  BY OpsTypes
<1>i. intent # NoIntent => /\ intent \in Intents /\ intent.group \in Groups
                           /\ intent.op \in Nat /\ intent.old \in Nat /\ intent.base \in Nat
  BY OpsTypes
<1>t. \A e \in Devices : torn[e] # NoTorn =>
        /\ torn[e] \in Intents /\ torn[e].group \in Groups
        /\ torn[e].op \in Nat /\ torn[e].old \in Nat
  BY OpsTypes
<1>p. torn \in [Devices -> Intents \cup {NoTorn}]
  BY DEF TypeOK
<1>1. ASSUME NEW d \in Devices, NEW g \in Groups, BeginCommit(d, g) PROVE OpsSound'
  <2>1. used'.writes = used.writes + 1 /\ UNCHANGED <<journal, torn>>
    BY <1>1, <1>u DEF BeginCommit, Spent, local
  <2>2. /\ intent'.op = used.writes + 1 /\ intent'.old = payload[g] /\ intent'.base = journal
        /\ unindexed' = unindexed /\ (masked' <=> masked \/ unindexed # {})
    BY <1>1 DEF BeginCommit
  <2>3. payload' = [payload EXCEPT ![g] = used.writes + 2]
    BY <1>1 DEF BeginCommit
  <2>4. QED
    BY <1>u, <1>t, <2>1, <2>2, <2>3 DEF OpsSound
<1>2. ASSUME NEW d \in Devices, WriteHead(d) PROVE OpsSound'
  <2>1. UNCHANGED <<journal, torn, payload, intent>>
    BY <1>2 DEF WriteHead, local
  <2>2. used'.writes = used.writes
    BY <1>2, <1>u, HeadWritten DEF Spent
  <2>3. \/ unindexed' = {}
        \/ unindexed' = unindexed \ {intent.group} /\ (masked' <=> masked)
    BY <1>2 DEF WriteHead
  <2>4. QED
    BY <2>1, <2>2, <2>3 DEF OpsSound
<1>3. ASSUME NEW d \in Devices, Append(d) PROVE OpsSound'
  <2>1. /\ UNCHANGED <<payload, torn, unindexed, masked>> /\ intent' \in {intent, NoIntent}
        /\ journal' = journal \/ journal' = journal + 1
        /\ used' \in {used, [used EXCEPT !.faults = @ + 1]}
    BY <1>3 DEF Append
  <2>2. used'.writes = used.writes /\ journal < used.writes
    BY <1>3, <1>u, <2>1 DEF Append, PubSound, Spent
  <2>3. QED
    BY <1>u, <1>i, <2>1, <2>2 DEF OpsSound
<1>4. ASSUME NEW d \in Devices,
             Resolve(d) \/ CloseCommit(d) \/ CloseForward(d) \/ CloseFullSync(d)
      PROVE  OpsSound'
  <2>1. /\ UNCHANGED <<payload, torn, unindexed, masked, journal>> /\ intent' \in {intent, NoIntent}
        /\ used' \in {used, [used EXCEPT !.faults = @ + 1]}
    BY <1>4 DEF Resolve, CloseCommit, CloseForward, CloseFullSync, local, history
  <2>2. used'.writes = used.writes
    BY <1>u, <2>1 DEF Spent
  <2>3. QED
    BY <2>1, <2>2 DEF OpsSound
<1>5. ASSUME NEW d \in Devices, Refused(d) \/ WriteFails(d) PROVE OpsSound'
  <2>1. /\ GiveUp(d) /\ used' \in {used, [used EXCEPT !.faults = @ + 1]}
    BY <1>5 DEF Refused, WriteFails
  <2>2. used'.writes = used.writes
    BY <1>u, <2>1 DEF Spent
  <2>3. UNCHANGED <<torn, unindexed, masked, journal>> /\ intent' \in {intent, NoIntent}
    BY <2>1 DEF GiveUp, local, history
  <2>4. \A g \in Groups : payload'[g] <= used.writes + 1
    <3>1. CASE pub.kind = "commit"
      <4>1. intent # NoIntent /\ payload' = [payload EXCEPT ![intent.group] = intent.old]
        BY <2>1, <3>1 DEF GiveUp, PubSound
      <4>2. QED
        BY <1>u, <1>i, <4>1 DEF OpsSound
    <3>2. CASE pub.kind # "commit"
      BY <2>1, <3>2 DEF GiveUp, OpsSound
    <3>3. QED
      BY <3>1, <3>2
  <2>5. QED
    BY <2>2, <2>3, <2>4 DEF OpsSound
<1>6. ASSUME NEW d \in Devices, Crash(d) PROVE OpsSound'
  <2>1. /\ UNCHANGED <<payload, intent, unindexed, masked, journal>>
        /\ used' = [used EXCEPT !.faults = @ + 1]
        /\ torn' = torn \/ (pub.kind = "commit" /\ torn' = [torn EXCEPT ![d] = intent])
    BY <1>6 DEF Crash, history
  <2>2. used'.writes = used.writes
    BY <1>u, <2>1 DEF Spent
  <2>3. \A e \in Devices : torn'[e] # NoTorn =>
          torn'[e].op <= used.writes /\ torn'[e].old <= torn'[e].op
    <3>1. CASE torn' = torn
      BY <3>1 DEF OpsSound
    <3>2. CASE pub.kind = "commit" /\ torn' = [torn EXCEPT ![d] = intent]
      BY <1>p, <3>2 DEF OpsSound, PubSound
    <3>3. QED
      BY <2>1, <3>1, <3>2
  <2>4. QED
    BY <2>1, <2>2, <2>3 DEF OpsSound
<1>7. ASSUME NEW d \in Devices, RollBack(d) PROVE OpsSound'
  <2>1. /\ UNCHANGED <<intent, unindexed, masked, journal, used>> /\ torn[d] # NoTorn
        /\ payload' = [payload EXCEPT ![torn[d].group] = torn[d].old]
        /\ torn' = [torn EXCEPT ![d] = NoTorn]
    BY <1>7 DEF RollBack, history
  <2>2. \A g \in Groups : payload'[g] <= used.writes + 1
    BY <1>u, <1>t, <2>1 DEF OpsSound
  <2>3. QED
    BY <1>p, <2>1, <2>2 DEF OpsSound
<1>8. ASSUME NEW g \in Groups, LegacyWrite(g) PROVE OpsSound'
  <2>1. used'.writes = used.writes + 1
    BY <1>8, <1>u DEF LegacyWrite, Spent
  <2>2. /\ UNCHANGED <<torn, intent, masked>> /\ journal' = journal + 1
        /\ payload' = [payload EXCEPT ![g] = used.writes + 2]
    BY <1>8 DEF LegacyWrite, local
  <2>3. QED
    BY <1>u, <1>i, <1>t, <2>1, <2>2 DEF OpsSound
<1>9. CASE UNCHANGED <<payload, intent, torn, unindexed, masked, journal>>
           /\ used'.writes = used.writes
  BY <1>9 DEF OpsSound
<1>10. ASSUME NEW d \in Devices, BeginFullSync(d) PROVE OpsSound'
  BY <1>10 DEF BeginFullSync, OpsSound
<1>11. QED
  BY <1>1, <1>2, <1>3, <1>4, <1>5, <1>6, <1>7, <1>8, <1>9, <1>10, Changes DEF WhoChanges

-----------------------------------------------------------------------------
(* The publication under way.                                              *)

(* How a pass of a device may go on: it begins at HEAD while the device    *)
(* publishes nothing, it keeps the HEAD it read, or it is over.            *)
LEMMA PassMoves ==
  ASSUME TypeOK, NEW d \in Devices, Discovery(d) \/ Crash(d)
  PROVE  /\ \A e \in Devices : e # d => pass'[e] = pass[e]
         /\ \/ pass'[d] = NoPass
            \/ pass[d] # NoPass /\ pass'[d].head = pass[d].head
            \/ Idle(d) /\ Owned /\ pass'[d].head = head /\ pass'[d].phase = "read"
<1>p. pass \in [Devices -> Passes \cup {NoPass}]
  BY DEF TypeOK
<1>n. \A p \in {pass[d]} : p.phase \in {"read", "reconcile", "seen"} => p # NoPass
  BY DEF NoPass
<1>1. ASSUME NEW excluded \in SUBSET Layouts, BeginQuickSync(d, excluded)
      PROVE  /\ \A e \in Devices : e # d => pass'[e] = pass[e]
             /\ Idle(d) /\ Owned /\ pass'[d].head = head /\ pass'[d].phase = "read"
  BY <1>p, <1>1 DEF BeginQuickSync
<1>2. ASSUME NEW g \in Groups, BeginGameStart(d, g)
      PROVE  /\ \A e \in Devices : e # d => pass'[e] = pass[e]
             /\ Idle(d) /\ Owned /\ pass'[d].head = head /\ pass'[d].phase = "read"
  BY <1>p, <1>2 DEF BeginGameStart
<1>3. ASSUME EndEarly(d) \/ Advance(d) \/ Defer(d) \/ Crash(d)
      PROVE  (\A e \in Devices : e # d => pass'[e] = pass[e]) /\ pass'[d] = NoPass
  BY <1>p, <1>3 DEF EndEarly, Advance, Defer, Crash
<1>4. ASSUME Compare(d) \/ Reconcile(d)
      PROVE  /\ \A e \in Devices : e # d => pass'[e] = pass[e]
             /\ pass'[d] = NoPass \/ (pass[d] # NoPass /\ pass'[d].head = pass[d].head)
  <2>1. pass[d].phase \in {"read", "reconcile"}
    BY <1>4 DEF Compare, Reconcile
  <2>2. pass[d] \in Passes
    BY <1>p, <1>n, <2>1
  <2>3. CASE Compare(d)
    <3>1. \/ pass' = [pass EXCEPT ![d] = NoPass]
          \/ pass' = [pass EXCEPT ![d] =
                        [pass[d] EXCEPT !.chosen = Differing(d), !.phase = "reconcile"]]
      BY <1>p, <2>3 DEF Compare
    <3>2. [pass[d] EXCEPT !.chosen = Differing(d), !.phase = "reconcile"].head = pass[d].head
      BY <2>2 DEF Passes
    <3>3. QED
      BY <1>p, <1>n, <2>1, <3>1, <3>2
  <2>4. CASE Reconcile(d)
    <3>1. pass' = [pass EXCEPT ![d] = [pass[d] EXCEPT !.phase = "seen"]]
      BY <1>p, <2>4 DEF Reconcile
    <3>2. [pass[d] EXCEPT !.phase = "seen"].head = pass[d].head
      BY <2>2 DEF Passes
    <3>3. QED
      BY <1>p, <1>n, <2>1, <3>1, <3>2
  <2>5. QED
    BY <1>4, <2>3, <2>4
<1>5. QED
  BY <1>1, <1>2, <1>3, <1>4 DEF Discovery

LEMMA PubOver ==
  ASSUME pub' = NoPub
  PROVE  PubSound'
BY DEF PubSound, NoPub

LEMMA PubBegins ==
  ASSUME IInv, NEW d \in Devices,
         (\E g \in Groups : BeginCommit(d, g)) \/ Resolve(d) \/ BeginFullSync(d)
  PROVE  PubSound'
<1> USE DEF IInv
<1>u. /\ used \in Spent /\ used.writes \in Nat /\ journal \in Nat
      /\ payload \in [Groups -> Contents]
      /\ \A e \in Devices : torn[e] # NoTorn => torn[e].op \in Nat
  BY OpsTypes
<1>i. intent # NoIntent => intent \in Intents /\ intent.base \in Nat
  BY OpsTypes
<1>1. ASSUME NEW g \in Groups, BeginCommit(d, g) PROVE PubSound'
  <2>1. /\ head.ok /\ used.writes < MaxWrites /\ NextGen(LayoutOf[g]) <= MaxGen
        /\ intent' = [op |-> used.writes + 1, group |-> g, old |-> payload[g], dev |-> d,
                      base |-> journal]
        /\ payload' = [payload EXCEPT ![g] = used.writes + 2]
        /\ pub' = [kind |-> "commit", dev |-> d, phase |-> "promoted", base |-> journal]
        /\ used' = [used EXCEPT !.writes = @ + 1]
        /\ (masked' <=> masked \/ unindexed # {})
        /\ UNCHANGED <<shards, head, journal, torn, pass, unindexed>>
    BY <1>1 DEF BeginCommit, MayCommit, Owned, local
  <2>2. used'.writes = used.writes + 1
    BY <1>u, <2>1 DEF Spent
  <2>3. intent' # NoIntent
    BY <1>u, <2>1 DEF NoIntent
  <2>4. NextGen(LayoutOf[intent.group])' <= MaxGen
    BY <2>1 DEF NextGen
  <2>5. payload'[intent'.group] = intent'.op + 1
    BY <1>u, <2>1
  <2>6. \A e \in Devices : torn'[e] # NoTorn => torn'[e].op < intent'.op
    BY <1>u, <2>1 DEF OpsSound
  <2>7. journal' < used'.writes
    BY <1>u, <2>1, <2>2 DEF OpsSound
  <2>8. pub'.base <= journal' /\ (masked' \/ unindexed' = {})
    BY <1>u, <2>1
  <2>9. pub'.kind = "commit" /\ pub'.phase = "promoted"
    BY <2>1
  <2>10. QED
    BY <2>1, <2>3, <2>4, <2>5, <2>6, <2>7, <2>8, <2>9 DEF PubSound
<1>2. CASE Resolve(d)
  <2>1. CASE pub' = pub
    BY <1>2, <2>1, PubOver DEF Resolve, MayCommit, Free
  <2>2. CASE pub' # pub
    <3>1. /\ head.ok /\ intent # NoIntent /\ NextGen(LayoutOf[intent.group]) <= MaxGen
          /\ pub' = [kind |-> "forward", dev |-> d, phase |-> "promoted", base |-> intent.base]
          /\ UNCHANGED <<intent, head, journal>>
      BY <1>2, <2>2 DEF Resolve, MayCommit, Owned
    <3>2. intent.base <= journal
      BY <3>1 DEF OpsSound
    <3>3. NextGen(LayoutOf[intent.group])' <= MaxGen
      BY <3>1 DEF NextGen
    <3>4. QED
      BY <3>1, <3>2, <3>3 DEF PubSound
  <2>3. QED
    BY <2>1, <2>2
<1>3. CASE BeginFullSync(d)
  <2>1. /\ pub' = [kind |-> "full", dev |-> d, phase |-> "promoted", base |-> journal]
        /\ pass[d] = NoPass /\ UNCHANGED <<pass, head, journal>>
        /\ \A l \in Layouts : NextGen(l) <= MaxGen
    BY <1>3 DEF BeginFullSync, Idle
  <2>2. QED
    BY <1>u, <2>1 DEF PubSound, NextGen
<1>4. QED
  BY <1>1, <1>2, <1>3

LEMMA PubAdvances ==
  ASSUME IInv, NEW d \in Devices, WriteHead(d) \/ Append(d)
  PROVE  PubSound'
<1> USE DEF IInv
<1>0. pub # NoPub /\ pub \in Pubs /\ pub.dev = d
  BY DEF WriteHead, Append, NoPub, TypeOK
<1>u. /\ used \in Spent /\ used.writes \in Nat /\ journal \in Nat
      /\ payload \in [Groups -> Contents]
  BY OpsTypes
<1>1. CASE WriteHead(d)
  <2>1. /\ UNCHANGED <<payload, shards, journal, intent, torn, pass>>
        /\ pub' = [pub EXCEPT !.phase = "headed"] /\ pub.phase = "promoted"
        /\ pub.kind = "commit" => unindexed' = unindexed \ {intent.group} /\ (masked' <=> masked)
    BY <1>1 DEF WriteHead, local
  <2>2. pub'.kind = pub.kind /\ pub'.dev = pub.dev /\ pub'.base = pub.base /\ pub'.phase = "headed"
    BY <1>0, <2>1 DEF Pubs
  <2>3. used'.writes = used.writes
    BY <1>1, <1>u, HeadWritten DEF Spent
  <2>4. head'.ok
    BY <1>1, HeadWritten
  <2>5. ASSUME pub.kind = "commit"
        PROVE  /\ Entry(head, intent.group)'.content = intent.op + 1
               /\ pass[pub.dev] # NoPass =>
                    pass[pub.dev].head.at[LayoutOf[intent.group]]
                      < head'.at[LayoutOf[intent.group]]
    <3> DEFINE k == LayoutOf[intent.group]
    <3>1. intent \in Intents /\ intent.group \in Groups /\ k \in Layouts
      BY <2>5, OpsTypes DEF PubSound
    <3>2. k \in Targets(pub)
      BY <2>5 DEF Targets
    <3>3. /\ head'.at[k] = head.at[k] + 1 /\ head'.at[k] \in 1..MaxGen
          /\ shards[k][head'.at[k]] = NextShard(pub, k)
      BY <1>1, <3>1, <3>2, HeadWritten
    <3>4. intent.group \in GroupsOf(k)
      BY <3>1 DEF GroupsOf
    <3>5. NextShard(pub, k).holds[intent.group] =
            [content |-> intent.op + 1, op |-> intent.op, dev |-> intent.dev]
      BY <2>5, <3>4 DEF NextShard, Wanted
    <3>6. Entry(head, intent.group)'.content = intent.op + 1
      BY <2>1, <3>3, <3>5 DEF Entry, ShardAt
    <3>7. head.at[k] \in Nat /\ head.ok
      BY <2>5, <3>1 DEF TypeOK, Heads, PubSound
    <3>8. ASSUME pass[d] # NoPass
          PROVE  pass[d].head.at[k] \in Nat /\ pass[d].head.at[k] <= head.at[k]
      BY <3>1, <3>7, <3>8 DEF TypeOK, Passes, Heads, PassSound
    <3>9. QED
      BY <1>0, <3>3, <3>6, <3>7, <3>8
  <2>6. QED
    BY <1>0, <2>1, <2>2, <2>3, <2>4, <2>5 DEF PubSound
<1>2. CASE Append(d)
  <2>1. /\ UNCHANGED <<payload, shards, head, torn, pass, unindexed, masked>>
        /\ pub.kind = "commit" /\ pub.phase = "headed"
        /\ \/ pub' = NoPub
           \/ /\ pub' = [pub EXCEPT !.phase = "appended"] /\ journal' = journal + 1
              /\ UNCHANGED <<intent, used>>
    BY <1>2 DEF Append
  <2>2. CASE pub' = NoPub
    BY <2>2, PubOver
  <2>3. CASE pub' # NoPub
    <3>1. /\ pub'.kind = "commit" /\ pub'.dev = pub.dev /\ pub'.base = pub.base
          /\ pub'.phase = "appended"
      BY <1>0, <2>1, <2>3 DEF Pubs
    <3>2. pub.base <= journal' /\ pub.base \in Nat
      BY <1>0, <1>u, <2>1, <2>3 DEF PubSound, Pubs
    <3>3. Entry(head, intent.group)' = Entry(head, intent.group)
      BY <2>1, <2>3 DEF Entry, ShardAt
    <3>4. QED
      BY <2>1, <2>3, <3>1, <3>2, <3>3 DEF PubSound
  <2>4. QED
    BY <2>2, <2>3
<1>3. QED
  BY <1>1, <1>2

(* What a HEAD names stays what it is.                                     *)
LEMMA EntryKept ==
  ASSUME IInv, [Next]_vars, NEW h \in Heads, NEW l \in Layouts,
         h.at[l] > 0, ShardAt(h, l) # NoShard
  PROVE  shards'[l][h.at[l]] = shards[l][h.at[l]] /\ h.at[l] \in 1..MaxGen
<1>1. h.at[l] \in 1..MaxGen
  BY DEF Heads
<1>2. QED
  BY <1>1, ShardsGrow DEF ShardAt

(* A step that leaves the publication, HEAD and the intent alone.          *)
LEMMA PubKeeps ==
  ASSUME IInv, [Next]_vars,
         UNCHANGED <<pub, head, intent, journal, unindexed, masked>>,
         used'.writes = used.writes,
         pub.kind = "commit" => payload'[intent.group] = payload[intent.group],
         \A e \in Devices : torn'[e] # NoTorn => torn'[e] = torn[e],
         pub # NoPub =>
           \/ pass'[pub.dev] = NoPass
           \/ pass[pub.dev] # NoPass /\ pass'[pub.dev].head = pass[pub.dev].head
  PROVE  PubSound'
<1> USE DEF IInv
<1>1. CASE pub = NoPub
  BY <1>1, PubOver
<1>2. CASE pub # NoPub
  <2>1. pub.kind = "commit" => Entry(head, intent.group)' = Entry(head, intent.group)
    <3>1. SUFFICES ASSUME pub.kind = "commit"
                   PROVE  Entry(head, intent.group)' = Entry(head, intent.group)
      OBVIOUS
    <3>2. intent.group \in Groups /\ LayoutOf[intent.group] \in Layouts /\ head.ok
      BY <3>1, OpsTypes DEF PubSound
    <3>3. head \in Heads
      BY DEF TypeOK
    <3>4. QED
      BY <3>2, <3>3, EntryKept DEF HeadSound, Entry, ShardAt
  <2>2. \A l \in Layouts : NextGen(l)' = NextGen(l)
    BY DEF NextGen
  <2>3. NextGen(LayoutOf[intent.group])' = NextGen(LayoutOf[intent.group])
    BY DEF NextGen
  <2>4. QED
    BY <1>2, <2>1, <2>2, <2>3 DEF PubSound
<1>3. QED
  BY <1>1, <1>2

LEMMA PubStep ==
  ASSUME IInv, [Next]_vars
  PROVE  PubSound'
<1> USE DEF IInv
<1>u. used \in Spent /\ used.writes \in Nat
  BY OpsTypes
<1>p. /\ torn \in [Devices -> Intents \cup {NoTorn}]
      /\ payload \in [Groups -> Contents]
      /\ pub # NoPub => pub.dev \in Devices /\ pub \in Pubs
  BY DEF TypeOK, Pubs
<1>1. CASE UNCHANGED vars
  <2>1. /\ UNCHANGED <<pub, head, intent, journal, unindexed, masked, payload, torn, pass, used>>
    BY <1>1 DEF vars, shared, local, history
  <2>2. QED
    BY <2>1, PubKeeps
<1>2. ASSUME NEW d \in Devices, NEW l \in Layouts, WriteShard(d, l) PROVE PubSound'
  <2>1. UNCHANGED <<pub, head, intent, journal, unindexed, masked, payload, torn, pass, used>>
    BY <1>2 DEF WriteShard, local, history
  <2>2. QED
    BY <2>1, PubKeeps
<1>3. ASSUME NEW d \in Devices, RollBack(d) PROVE PubSound'
  <2>1. /\ UNCHANGED <<pub, head, intent, journal, unindexed, masked, pass, used>>
        /\ torn[d] # NoTorn /\ payload[torn[d].group] \in {torn[d].old, torn[d].op + 1}
        /\ payload' = [payload EXCEPT ![torn[d].group] = torn[d].old]
        /\ torn' = [torn EXCEPT ![d] = NoTorn]
    BY <1>3 DEF RollBack, history
  <2>2. \A e \in Devices : torn'[e] # NoTorn => torn'[e] = torn[e]
    BY <1>p, <2>1
  <2>3. pub.kind = "commit" => payload'[intent.group] = payload[intent.group]
    <3>1. SUFFICES ASSUME pub.kind = "commit"
                   PROVE  payload'[intent.group] = payload[intent.group]
      OBVIOUS
    <3>2. intent.op \in Nat /\ payload[intent.group] = intent.op + 1
      BY <3>1, OpsTypes DEF PubSound
    <3>3. torn[d].op \in Nat /\ torn[d].old \in Nat
      BY <2>1, OpsTypes
    <3>4. torn[d].op < intent.op /\ torn[d].old <= torn[d].op
      BY <2>1, <3>1 DEF PubSound, OpsSound
    <3>5. torn[d].group # intent.group
      BY <2>1, <3>2, <3>3, <3>4
    <3>6. QED
      BY <1>p, <2>1, <3>5
  <2>4. QED
    BY <2>1, <2>2, <2>3, PubKeeps
<1>4. ASSUME NEW d \in Devices, Discovery(d) PROVE PubSound'
  <2>1. UNCHANGED <<pub, head, intent, journal, unindexed, masked, payload, torn>>
    BY <1>4 DEF Discovery, BeginQuickSync, BeginGameStart, EndEarly, Compare, Reconcile, Advance,
         Defer, shared, history
  <2>2. used'.writes = used.writes
    <3>1. used' = used \/ used' = [used EXCEPT !.passes = @ + 1]
      BY <1>4 DEF Discovery, BeginQuickSync, BeginGameStart, EndEarly, Compare, Reconcile,
           Advance, Defer
    <3>2. QED
      BY <1>u, <3>1 DEF Spent
  <2>3. pub # NoPub =>
           \/ pass'[pub.dev] = NoPass
           \/ pass[pub.dev] # NoPass /\ pass'[pub.dev].head = pass[pub.dev].head
    BY <1>4, <1>p, PassMoves DEF Idle
  <2>4. QED
    BY <2>1, <2>2, <2>3, PubKeeps
<1>5. ASSUME NEW d \in Devices,
             CloseCommit(d) \/ CloseForward(d) \/ CloseFullSync(d) \/ Refused(d)
               \/ WriteFails(d) \/ Crash(d)
      PROVE  PubSound'
  BY <1>5, PubOver DEF CloseCommit, CloseForward, CloseFullSync, Refused, WriteFails, GiveUp, Crash
<1>6. CASE Outside
  BY <1>6, PubOver DEF Outside, LoseHead, LegacyWrite, Free
<1>7. QED
  BY <1>1, <1>2, <1>3, <1>4, <1>5, <1>6, PubBegins, PubAdvances DEF Next, Publication, Trouble

-----------------------------------------------------------------------------
(* Shards beyond HEAD.                                                     *)

(* A step that leaves a publication alone leaves what it has to write.     *)
LEMMA NextStable ==
  ASSUME IInv, [Next]_vars, pub.phase = "promoted", UNCHANGED <<pub, head, intent>>,
         used'.datasets = used.datasets,
         pub.kind = "full" => observed'[pub.dev] = observed[pub.dev]
  PROVE  /\ Targets(pub)' = Targets(pub)
         /\ \A l \in Layouts : NextGen(l)' = NextGen(l) /\ NextShard(pub, l)' = NextShard(pub, l)
<1> USE DEF IInv
<1>1. Dataset' = Dataset /\ \A l \in Layouts : NextGen(l)' = NextGen(l)
  BY DEF Dataset, NextGen
<1>2. head \in Heads
  BY DEF TypeOK
<1>3. \A l \in Layouts : head.at[l] # 0 => head.ok /\ ShardAt(head, l)' = ShardAt(head, l)
  BY <1>2, EntryKept DEF HeadSound, NoHead, Heads, ShardAt
<1>4. \A l \in Layouts : Wanted(pub, l)' = Wanted(pub, l)
  <2>1. CASE pub.kind = "full"
    BY <2>1 DEF Wanted
  <2>2. CASE pub.kind # "full"
    <3>1. head.ok
      BY <2>2, PubType
    <3>2. \A g \in Groups : LayoutOf[g] \in Layouts /\ head.at[LayoutOf[g]] # 0
      BY <3>1 DEF HeadSound
    <3>3. \A g \in Groups : Entry(head, g)' = Entry(head, g)
      BY <1>3, <3>2 DEF Entry
    <3>4. QED
      BY <2>2, <3>3 DEF Wanted, GroupsOf
  <2>3. QED
    BY <2>1, <2>2
<1>5. Targets(pub)' = Targets(pub)
  <2>1. CASE pub.kind = "full"
    BY <1>3, <1>4, <2>1 DEF Targets
  <2>2. CASE pub.kind # "full"
    BY <2>2 DEF Targets
  <2>3. QED
    BY <2>1, <2>2
<1>6. \A l \in Layouts : NextShard(pub, l)' = NextShard(pub, l)
  BY <1>1, <1>4 DEF NextShard
<1>7. QED
  BY <1>1, <1>5, <1>6

(* Nothing lies beyond HEAD.                                               *)
NoneAhead == \A l \in Layouts, n \in 1..MaxGen : shards[l][n] # NoShard => n <= head.at[l]

LEMMA HealthyRefusal ==
  ASSUME IInv, NEW d \in Devices, Refused(d)
  PROVE  used.faults > 0
<1> USE DEF IInv
<1>1. PICK l \in Targets(pub) : Clash(pub, l)
  BY DEF Refused
<1>2. pub.phase = "promoted"
  BY DEF Refused
<1>3. l \in Layouts /\ NextGen(l) \in 1..MaxGen /\ NextGen(l) > head.at[l]
  BY <1>2, TargetsType DEF NextGen, TypeOK, Heads
<1>4. shards[l][NextGen(l)] # NoShard /\ ~Written(pub, l)
  BY <1>1 DEF Clash
<1>5. used.faults \in Nat
  BY DEF TypeOK, Spent
<1>6. used.faults # 0
  BY <1>3, <1>4 DEF NothingAhead
<1>7. QED
  BY <1>5, <1>6

LEMMA AheadStep ==
  ASSUME IInv, [Next]_vars
  PROVE  NothingAhead'
<1> USE DEF IInv
<1>u. used \in Spent /\ used.faults \in Nat /\ head.at \in [Layouts -> 0..MaxGen]
  BY DEF TypeOK, Spent, Heads
<1>f. used'.faults >= used.faults /\ used'.faults \in Nat
  <2>1. used'.faults >= used.faults
    BY Changes DEF WhoChanges
  <2>2. used' \in Spent
    BY TypeStep DEF TypeOK
  <2>3. QED
    BY <2>1, <2>2 DEF Spent
<1>0. SUFFICES ASSUME used'.faults = 0
               PROVE  NothingAhead'
  BY DEF NothingAhead
<1>a. used.faults = 0
  BY <1>0, <1>f, <1>u
<1>b. \A l \in Layouts, n \in 1..MaxGen :
        shards[l][n] # NoShard /\ ~(n <= head.at[l]) =>
          /\ n = NextGen(l) /\ pub.phase = "promoted"
          /\ l \in Targets(pub) /\ Written(pub, l)
  BY <1>a, <1>u DEF NothingAhead
<1>c. pub.phase # "promoted" => NoneAhead
  BY <1>b DEF NoneAhead
<1>n. ASSUME NoneAhead, shards' = shards, \A l \in Layouts : head'.at[l] = head.at[l]
      PROVE  NothingAhead'
  BY <1>n, <1>u DEF NoneAhead, NothingAhead
<1>k. ASSUME UNCHANGED <<shards, pub, head, intent>>, used'.datasets = used.datasets,
             pub.kind = "full" => observed'[pub.dev] = observed[pub.dev]
      PROVE  NothingAhead'
  <2>1. CASE pub.phase = "promoted"
    <3>1. Targets(pub)' = Targets(pub) /\ \A l \in Layouts : NextGen(l)' = NextGen(l) /\ NextShard(pub, l)' = NextShard(pub, l)
      BY <1>k, <2>1, NextStable
    <3>2. \A l \in Layouts : Written(pub, l)' <=> Written(pub, l)
      BY <1>k, <3>1 DEF Written
    <3>3. QED
      BY <1>a, <1>k, <3>1, <3>2 DEF NothingAhead
  <2>2. CASE pub.phase # "promoted"
    BY <1>c, <1>k, <1>n, <2>2
  <2>3. QED
    BY <2>1, <2>2
<1>1. CASE UNCHANGED vars
  BY <1>1, <1>k DEF vars, shared, local
<1>2. ASSUME NEW d \in Devices, NEW k \in Layouts, WriteShard(d, k) PROVE NothingAhead'
  <2>1. /\ pub.phase = "promoted" /\ k \in Targets(pub)
        /\ shards' = [shards EXCEPT ![k][NextGen(k)] = NextShard(pub, k)]
        /\ UNCHANGED <<pub, head, intent, used, observed>>
    BY <1>2 DEF WriteShard, local
  <2>2. /\ Targets(pub)' = Targets(pub)
        /\ \A l \in Layouts : NextGen(l)' = NextGen(l) /\ NextShard(pub, l)' = NextShard(pub, l)
    BY <2>1, NextStable
  <2>3. NextGen(k) \in 1..MaxGen
    BY <2>1, TargetsType
  <2>4. shards'[k][NextGen(k)] = NextShard(pub, k)
    <3>1. DOMAIN shards = Layouts /\ shards[k] \in [1..MaxGen -> Shards(k) \cup {NoShard}]
      BY DEF TypeOK
    <3>2. QED
      BY <2>1, <2>3, <3>1
  <2>5. \A l \in Layouts, n \in 1..MaxGen :
           l # k \/ n # NextGen(k) => shards'[l][n] = shards[l][n]
    BY <2>1, <2>3 DEF TypeOK
  <2>6. Written(pub, k)'
    BY <2>2, <2>4 DEF Written
  <2>7. \A l \in Layouts : Written(pub, l) => Written(pub, l)'
    <3>1. TAKE l \in Layouts
    <3>2. CASE l = k
      BY <2>6, <3>2
    <3>3. CASE l # k
      BY <2>1, <2>2, <3>3 DEF Written
    <3>4. QED
      BY <3>2, <3>3
  <2>8. QED
    <3>1. SUFFICES ASSUME NEW l \in Layouts, NEW n \in 1..MaxGen,
                          shards'[l][n] # NoShard, n > head'.at[l]
                   PROVE  /\ n = NextGen(l)' /\ pub'.phase = "promoted"
                          /\ l \in Targets(pub)' /\ Written(pub, l)'
      BY DEF NothingAhead
    <3>2. CASE l = k /\ n = NextGen(k)
      BY <2>1, <2>2, <2>6, <3>2
    <3>3. CASE l # k \/ n # NextGen(k)
      <4>1. shards[l][n] # NoShard /\ ~(n <= head.at[l])
        BY <1>u, <2>1, <2>5, <3>1, <3>3
      <4>2. QED
        BY <1>b, <2>1, <2>2, <2>7, <4>1
    <3>4. QED
      BY <3>2, <3>3
<1>3. ASSUME NEW d \in Devices, WriteHead(d) PROVE NothingAhead'
  <2>1. shards' = shards
    BY <1>3 DEF WriteHead
  <2>2. \A l \in Layouts : head'.at[l] = IF l \in Targets(pub) THEN head.at[l] + 1 ELSE head.at[l]
    BY <1>3, HeadWritten
  <2>3. \A l \in Layouts, n \in 1..MaxGen : shards[l][n] # NoShard => n <= head'.at[l]
    BY <1>b, <1>u, <2>2 DEF NextGen
  <2>4. \A l \in Layouts : head'.at[l] \in 0..MaxGen
    BY <1>u, <2>2, TypeStep DEF TypeOK, Heads
  <2>5. QED
    BY <2>1, <2>3, <2>4 DEF NothingAhead
<1>4. ASSUME NEW d \in Devices, Append(d) \/ CloseCommit(d) \/ CloseForward(d) \/ CloseFullSync(d)
      PROVE  NothingAhead'
  <2>1. shards' = shards /\ pub.phase # "promoted"
    BY <1>4 DEF Append, CloseCommit, CloseForward, CloseFullSync
  <2>2. head' \in {head, [head EXCEPT !.journal = journal]} /\ head \in Heads
    BY <1>4 DEF Append, CloseCommit, CloseForward, CloseFullSync, TypeOK
  <2>3. head'.at = head.at
    BY <2>2 DEF Heads
  <2>4. QED
    BY <1>c, <1>n, <2>1, <2>3
<1>5. ASSUME NEW d \in Devices, Refused(d) PROVE NothingAhead'
  BY <1>5, <1>a, HealthyRefusal
<1>6. ASSUME NEW d \in Devices, WriteFails(d) \/ Crash(d) PROVE NothingAhead'
  BY <1>6, <1>0, <1>a, <1>u DEF WriteFails, Crash, Spent
<1>7. CASE LoseHead
  BY <1>7, <1>0, <1>a, <1>u DEF LoseHead, Spent
<1>8. ASSUME NEW d \in Devices,
             (\E g \in Groups : BeginCommit(d, g)) \/ BeginFullSync(d) \/ Resolve(d)
      PROVE  NothingAhead'
  <2>1. pub = NoPub /\ shards' = shards /\ head' = head
    BY <1>8 DEF BeginCommit, Resolve, BeginFullSync, MayCommit, Free
  <2>2. QED
    BY <1>c, <1>n, <2>1 DEF NoPub
<1>9. ASSUME NEW g \in Groups, LegacyWrite(g) PROVE NothingAhead'
  <2>1. pub = NoPub /\ shards' = shards /\ head' = head
    BY <1>9 DEF LegacyWrite, Free
  <2>2. QED
    BY <1>c, <1>n, <2>1 DEF NoPub
<1>10. ASSUME NEW d \in Devices, RollBack(d) PROVE NothingAhead'
  BY <1>10, <1>k DEF RollBack
<1>11. ASSUME NEW d \in Devices, Discovery(d) PROVE NothingAhead'
  <2>1. UNCHANGED <<shards, pub, head, intent>>
    BY <1>11 DEF Discovery, BeginQuickSync, BeginGameStart, EndEarly, Compare, Reconcile,
         Advance, Defer, shared
  <2>2. used'.datasets = used.datasets
    <3>1. used' = used \/ used' = [used EXCEPT !.passes = @ + 1]
      BY <1>11 DEF Discovery, BeginQuickSync, BeginGameStart, EndEarly, Compare, Reconcile,
           Advance, Defer
    <3>2. QED
      BY <1>u, <3>1 DEF Spent
  <2>3. pub.kind = "full" => observed'[pub.dev] = observed[pub.dev]
    <3>1. CASE Reconcile(d)
      <4>1. pub.kind = "full" => pub.dev # d
        BY <3>1 DEF PubSound, Reconcile, NoPass
      <4>2. observed' = [observed EXCEPT ![d] =
               [g \in Groups |-> IF g \in pass[d].chosen THEN payload[g] ELSE observed[d][g]]]
        BY <3>1 DEF Reconcile, TypeOK
      <4>3. QED
        BY <4>1, <4>2
    <3>2. CASE ~Reconcile(d)
      BY <1>11, <3>2 DEF Discovery, BeginQuickSync, BeginGameStart, EndEarly, Compare,
           Advance, Defer
    <3>3. QED
      BY <3>1, <3>2
  <2>4. QED
    BY <1>k, <2>1, <2>2, <2>3
<1>12. QED
  BY <1>1, <1>2, <1>3, <1>4, <1>5, <1>6, <1>7, <1>8, <1>9, <1>10, <1>11
     DEF Next, Publication, Trouble, Outside

-----------------------------------------------------------------------------
(* Passes and watermarks.                                                  *)

LEMMA HeadTypes ==
  ASSUME IInv
  PROVE  /\ head \in Heads /\ head.index \in Nat /\ \A l \in Layouts : head.at[l] \in Nat
         /\ head.at \in [Layouts -> 0..MaxGen]
         /\ \A d \in Devices :
              /\ watermark[d].index \in Nat /\ \A l \in Layouts : watermark[d].at[l] \in Nat
              /\ watermark[d].ds \in Nat
         /\ \A d \in Devices : pass[d] # NoPass =>
              /\ pass[d] \in Passes /\ pass[d].head \in Heads
              /\ pass[d].head.index \in Nat /\ pass[d].head.ds = 1
              /\ pass[d].head.at \in [Layouts -> 0..MaxGen]
              /\ \A l \in Layouts : pass[d].head.at[l] \in Nat /\ pass[d].head.at[l] > 0
         /\ used \in Spent /\ used.datasets \in {0, 1}
<1> USE DEF IInv
<1>1. /\ head \in Heads /\ head.index \in Nat /\ \A l \in Layouts : head.at[l] \in Nat
      /\ head.at \in [Layouts -> 0..MaxGen]
  BY DEF TypeOK, Heads
<1>2. \A d \in Devices : watermark[d] \in Watermarks
  BY DEF TypeOK
<1>3. \A d \in Devices : pass[d] # NoPass => pass[d] \in Passes
  BY DEF TypeOK
<1>4. \A p \in Passes : /\ p.head \in Heads /\ p.head.index \in Nat
                        /\ p.head.at \in [Layouts -> 0..MaxGen]
                        /\ \A l \in Layouts : p.head.at[l] \in Nat
  BY DEF Passes, Heads
<1>5. used \in Spent /\ used.datasets \in {0, 1}
  BY DEF TypeOK, HeadSound, Spent
<1>6. \A w \in Watermarks : /\ w.index \in Nat /\ \A l \in Layouts : w.at[l] \in Nat
                            /\ w.ds \in Nat
  BY DEF Watermarks
<1>7. \A d \in Devices : pass[d] # NoPass =>
         pass[d].head.ds = 1 /\ \A l \in Layouts : pass[d].head.at[l] > 0
  BY DEF PassSound
<1>8. QED
  BY <1>1, <1>2, <1>3, <1>4, <1>5, <1>6, <1>7

(* What a device knows of its pass's dataset: its watermark, or nothing.   *)
LEMMA KnownIs ==
  ASSUME IInv, NEW d \in Devices, NEW h \in Heads, h.ds = 1
  PROVE  /\ watermark[d].ds = 1 => Known(d, h) = watermark[d]
         /\ watermark[d].ds # 1 =>
              Known(d, h).index = 0 /\ \A l \in Layouts : Known(d, h).at[l] = 0
         /\ Known(d, h).index \in Nat /\ Known(d, h).index <= watermark[d].index
         /\ \A l \in Layouts : Known(d, h).at[l] \in Nat /\ Known(d, h).at[l] <= watermark[d].at[l]
<1>1. watermark[d].ds = 1 => Known(d, h) = watermark[d]
  BY DEF Known
<1>2. watermark[d].ds # 1 =>
        Known(d, h).index = 0 /\ \A l \in Layouts : Known(d, h).at[l] = 0
  BY DEF Known
<1>3. watermark[d].index \in Nat /\ \A l \in Layouts : watermark[d].at[l] \in Nat
  BY HeadTypes
<1>4. QED
  BY <1>1, <1>2, <1>3

(* How a device's pass comes to be what it is.                             *)
LEMMA PassCont ==
  ASSUME IInv, [Next]_vars, NEW e \in Devices, pass'[e] # NoPass
  PROVE  /\ watermark'[e] = watermark[e]
         /\ \/ pass[e] # NoPass /\ pass'[e] = pass[e]
               /\ ~Compare(e) /\ ~Reconcile(e) /\ ~Advance(e)
            \/ /\ Compare(e) /\ pass[e] \in Passes /\ Differing(e) # {}
               /\ pass'[e] = [pass[e] EXCEPT !.chosen = Differing(e), !.phase = "reconcile"]
            \/ /\ Reconcile(e) /\ pass[e] \in Passes
               /\ pass'[e] = [pass[e] EXCEPT !.phase = "seen"]
            \/ /\ Owned /\ UNCHANGED shared /\ used'.datasets = used.datasets
               /\ pass'[e].head = head /\ pass'[e].phase = "read"
<1> USE DEF IInv
<1>p. pass \in [Devices -> Passes \cup {NoPass}] /\ watermark \in [Devices -> Watermarks]
  BY DEF TypeOK
<1>n. NoPass.phase = "idle"
  BY DEF NoPass
<1>c. ASSUME Compare(e) \/ Reconcile(e) \/ Advance(e)
      PROVE  pass[e] # NoPass /\ pass[e] \in Passes /\ pass[e].phase \in {"read", "reconcile", "seen"}
  BY <1>c, <1>n, <1>p DEF Compare, Reconcile, Advance
<1>o. ASSUME ~(Discovery(e) \/ Crash(e)) PROVE pass'[e] = pass[e] /\ watermark'[e] = watermark[e]
  <2>1. pass'[e] = pass[e]
    <3>1. CASE pass' = pass
      BY <3>1
    <3>2. ASSUME NEW d \in Devices, Discovery(d) \/ Crash(d) PROVE pass'[e] = pass[e]
      BY <1>o, <3>2, PassMoves
    <3>3. QED
      BY <3>1, <3>2, Changes DEF WhoChanges
  <2>2. watermark'[e] = watermark[e]
    <3>1. ASSUME NEW d \in Devices, Compare(d) \/ Advance(d) PROVE watermark'[e] = watermark[e]
      <4>1. d # e
        BY <1>o, <3>1 DEF Discovery
      <4>2. QED
        BY <1>p, <3>1, <4>1 DEF Compare, Advance
    <3>2. QED
      BY <3>1, Changes DEF WhoChanges
  <2>3. QED
    BY <2>1, <2>2
<1>1. CASE ~(Discovery(e) \/ Crash(e))
  BY <1>1, <1>o DEF Discovery
<1>2. CASE Crash(e) \/ EndEarly(e) \/ Advance(e) \/ Defer(e)
  BY <1>2, <1>p DEF Crash, EndEarly, Advance, Defer
<1>3. CASE Compare(e)
  <2>1. \/ pass' = [pass EXCEPT ![e] = NoPass]
        \/ /\ Differing(e) # {} /\ watermark' = watermark
           /\ pass' = [pass EXCEPT ![e] =
                        [pass[e] EXCEPT !.chosen = Differing(e), !.phase = "reconcile"]]
    BY <1>p, <1>3 DEF Compare
  <2>2. QED
    BY <1>3, <1>c, <1>p, <2>1
<1>4. CASE Reconcile(e)
  <2>1. watermark' = watermark /\ pass' = [pass EXCEPT ![e] = [pass[e] EXCEPT !.phase = "seen"]]
    BY <1>p, <1>4 DEF Reconcile
  <2>2. QED
    BY <1>4, <1>c, <1>p, <2>1
<1>5. CASE (\E excluded \in SUBSET Layouts : BeginQuickSync(e, excluded))
             \/ \E g \in Groups : BeginGameStart(e, g)
  <2>1. /\ Owned /\ UNCHANGED <<shared, watermark>> /\ used' = [used EXCEPT !.passes = @ + 1]
        /\ pass'[e].head = head /\ pass'[e].phase = "read"
    BY <1>p, <1>5 DEF BeginQuickSync, BeginGameStart
  <2>2. used'.datasets = used.datasets
    BY <2>1, HeadTypes DEF Spent
  <2>3. QED
    BY <2>1, <2>2
<1>6. QED
  BY <1>1, <1>2, <1>3, <1>4, <1>5 DEF Discovery

(* A HEAD that is there is followed by itself, by one it was updated to, or *)
(* by none; where there is none it is the first of the first dataset.      *)
LEMMA HeadGrows ==
  ASSUME IInv, [Next]_vars, head'.ok
  PROVE  /\ ~head.ok => used.datasets = 0
         /\ head.ok => /\ head'.index >= head.index
                       /\ \A l \in Layouts : head'.at[l] >= head.at[l]
                       /\ head'.index = head.index => head'.at = head.at
<1> USE DEF IInv
<1>0. /\ head \in Heads /\ head.index \in Nat /\ \A l \in Layouts : head.at[l] \in Nat
      /\ head.at \in [Layouts -> 0..MaxGen]
  BY HeadTypes
<1>1. CASE head' = head
  BY <1>0, <1>1
<1>2. CASE LoseHead
  BY <1>2 DEF LoseHead, NoHead
<1>3. ASSUME NEW d \in Devices, CloseCommit(d)
      PROVE  head.ok /\ head'.index = head.index /\ head'.at = head.at
  <2>1. head' \in {head, [head EXCEPT !.journal = journal]} /\ head.ok
    BY <1>3 DEF CloseCommit, PubSound
  <2>2. QED
    BY <1>0, <2>1 DEF Heads
<1>4. ASSUME NEW d \in Devices, WriteHead(d)
      PROVE  /\ ~head.ok => used.datasets = 0
             /\ head'.index >= head.index
             /\ \A l \in Layouts : head'.at[l] >= head.at[l]
             /\ head'.index = head.index => head'.at = head.at
  <2>1. /\ ~head.ok => used.datasets = 0
        /\ Targets(pub) \subseteq Layouts
        /\ head'.index = head.index + (IF Targets(pub) = {} THEN 0 ELSE 1)
    BY <1>4, HeadWritten
  <2>2. \A l \in Layouts :
          head'.at[l] = IF l \in Targets(pub) THEN head.at[l] + 1 ELSE head.at[l]
    BY <1>4, HeadWritten
  <2>3. head'.at \in [Layouts -> 0..MaxGen]
    BY <1>4, HeadWritten DEF Heads
  <2>4. ASSUME head'.index = head.index PROVE head'.at = head.at
    <3>1. Targets(pub) = {}
      BY <1>0, <2>1, <2>4
    <3>2. QED
      BY <1>0, <2>2, <2>3, <3>1
  <2>5. QED
    BY <1>0, <2>1, <2>2, <2>4
<1>5. QED
  BY <1>0, <1>1, <1>2, <1>3, <1>4, Changes DEF WhoChanges

(* The dataset there is is never taken back.                               *)
LEMMA DatasetKept ==
  ASSUME IInv, [Next]_vars
  PROVE  /\ used'.datasets \in {0, 1} /\ used'.datasets >= used.datasets
         /\ head'.ok => used'.datasets = 1
<1>1. used'.datasets \in {0, 1} /\ (head'.ok => used'.datasets = 1)
  BY TypeStep, HeadStep DEF TypeOK, HeadSound, Spent
<1>2. used \in Spent /\ used.datasets \in {0, 1}
  BY HeadTypes
<1>3. ASSUME NEW d \in Devices, WriteHead(d) PROVE used'.datasets >= used.datasets
  <2>1. used' = [used EXCEPT !.datasets = 1]
    BY <1>3, HeadWritten
  <2>2. QED
    BY <1>2, <2>1 DEF Spent
<1>4. ASSUME NEW d \in Devices, CloseCommit(d) PROVE used'.datasets >= used.datasets
  <2>1. used' \in {used, [used EXCEPT !.faults = @ + 1]}
    BY <1>4 DEF CloseCommit
  <2>2. QED
    BY <1>2, <2>1 DEF Spent
<1>5. ASSUME LoseHead PROVE used'.datasets >= used.datasets
  <2>1. used' = [used EXCEPT !.faults = @ + 1]
    BY <1>5 DEF LoseHead
  <2>2. QED
    BY <1>2, <2>1 DEF Spent
<1>6. QED
  BY <1>1, <1>2, <1>3, <1>4, <1>5, Changes DEF WhoChanges

LEMMA PassStep ==
  ASSUME IInv, [Next]_vars
  PROVE  PassSound'
<1> USE DEF IInv
<1>0. SUFFICES ASSUME NEW e \in Devices, pass'[e] # NoPass, NEW h, h = pass'[e].head
               PROVE  /\ h.ok /\ h.ds = 1 /\ used'.datasets = 1
                      /\ \A l \in Layouts : h.at[l] > 0 /\ shards'[l][h.at[l]] # NoShard
                      /\ watermark'[e].index <= h.index
                      /\ \A l \in Layouts : watermark'[e].at[l] <= h.at[l]
                      /\ head'.ok => /\ h.index <= head'.index
                                     /\ \A l \in Layouts : h.at[l] <= head'.at[l]
                                     /\ h.index = head'.index => h.at = head'.at
  BY DEF PassSound, ShardAt
<1>t. /\ head'.ok => /\ head'.index \in Nat /\ \A l \in Layouts : head'.at[l] \in Nat
      /\ head \in Heads /\ head.index \in Nat /\ \A l \in Layouts : head.at[l] \in Nat
  BY TypeStep, HeadTypes DEF TypeOK, Heads
<1>1. CASE pass[e] # NoPass /\ h = pass[e].head
  <2>1. h \in Heads /\ h.index \in Nat /\ \A l \in Layouts : h.at[l] \in Nat
    BY <1>1, HeadTypes
  <2>2. /\ h.ok /\ h.ds = 1 /\ used.datasets = 1
        /\ \A l \in Layouts : h.at[l] > 0 /\ ShardAt(h, l) # NoShard
        /\ watermark[e].index <= h.index
        /\ \A l \in Layouts : watermark[e].at[l] <= h.at[l]
        /\ head.ok => /\ h.index <= head.index
                      /\ \A l \in Layouts : h.at[l] <= head.at[l]
                      /\ h.index = head.index => h.at = head.at
    BY <1>1 DEF PassSound
  <2>3. \A l \in Layouts : shards'[l][h.at[l]] # NoShard
    BY <2>1, <2>2, EntryKept DEF ShardAt
  <2>4. watermark'[e] = watermark[e]
    BY <1>0, PassCont
  <2>5. used'.datasets = 1
    BY <2>2, DatasetKept
  <2>6. head'.ok => /\ h.index <= head'.index
                    /\ \A l \in Layouts : h.at[l] <= head'.at[l]
                    /\ h.index = head'.index => h.at = head'.at
    <3>1. SUFFICES ASSUME head'.ok
                   PROVE  /\ h.index <= head'.index
                          /\ \A l \in Layouts : h.at[l] <= head'.at[l]
                          /\ h.index = head'.index => h.at = head'.at
      OBVIOUS
    <3>2. /\ head.ok /\ head'.index >= head.index
          /\ \A l \in Layouts : head'.at[l] >= head.at[l]
          /\ head'.index = head.index => head'.at = head.at
      BY <2>2, <3>1, HeadGrows
    <3>3. QED
      BY <1>t, <2>1, <2>2, <3>1, <3>2
  <2>7. QED
    BY <2>2, <2>3, <2>4, <2>5, <2>6
<1>2. CASE Owned /\ UNCHANGED shared /\ used'.datasets = used.datasets
           /\ h = head /\ watermark'[e] = watermark[e]
  <2>1. /\ head.ok /\ head.ds = 1 /\ used'.datasets = 1 /\ head' = head /\ shards' = shards
        /\ \A l \in Layouts : head.at[l] > 0 /\ shards[l][head.at[l]] # NoShard
    BY <1>2 DEF Owned, HeadSound, ShardAt, shared
  <2>2. watermark[e].index <= head.index /\ \A l \in Layouts : watermark[e].at[l] <= head.at[l]
    BY <2>1 DEF WatermarkSound
  <2>3. QED
    BY <1>2, <1>t, <2>1, <2>2
<1>3. QED
  <2>1. CASE pass'[e] = pass[e] /\ pass[e] # NoPass
    BY <1>0, <1>1, <2>1
  <2>2. CASE pass[e] \in Passes /\ pass'[e] = [pass[e] EXCEPT !.chosen = Differing(e), !.phase = "reconcile"]
             /\ Compare(e)
    <3>1. pass'[e].head = pass[e].head /\ pass[e] # NoPass
      BY <2>2 DEF Passes, Compare, NoPass
    <3>2. QED
      BY <1>0, <1>1, <3>1
  <2>3. CASE pass[e] \in Passes /\ pass'[e] = [pass[e] EXCEPT !.phase = "seen"] /\ Reconcile(e)
    <3>1. pass'[e].head = pass[e].head /\ pass[e] # NoPass
      BY <2>3 DEF Passes, Reconcile, NoPass
    <3>2. QED
      BY <1>0, <1>1, <3>1
  <2>4. QED
    BY <1>0, <1>2, <2>1, <2>2, <2>3, PassCont

(* What a watermark becomes.                                               *)
LEMMA AdvancedIs ==
  ASSUME IInv, NEW d \in Devices, pass[d] # NoPass, NEW h \in Heads, h.ds = 1,
         pass[d].head.index <= h.index,
         \A l \in Layouts : pass[d].head.at[l] <= h.at[l]
  PROVE  /\ AdvancedWatermark(d, h).ds = 1
         /\ AdvancedWatermark(d, h).index <= h.index
         /\ \A l \in Layouts : AdvancedWatermark(d, h).at[l] <= h.at[l]
<1> DEFINE k == Known(d, pass[d].head)
           w == AdvancedWatermark(d, h)
<1>1. /\ pass[d].head \in Heads /\ pass[d].head.ds = 1 /\ pass[d].head.index \in Nat
      /\ \A l \in Layouts : pass[d].head.at[l] \in Nat
  BY HeadTypes
<1>2. /\ k.index \in Nat /\ k.index <= watermark[d].index
      /\ \A l \in Layouts : k.at[l] \in Nat /\ k.at[l] <= watermark[d].at[l]
  BY <1>1, KnownIs
<1>3. /\ watermark[d].index <= pass[d].head.index /\ watermark[d].index \in Nat
      /\ \A l \in Layouts : watermark[d].at[l] <= pass[d].head.at[l] /\ watermark[d].at[l] \in Nat
  BY HeadTypes DEF IInv, PassSound
<1>4. h.index \in Nat /\ \A l \in Layouts : h.at[l] \in Nat
  BY DEF Heads
<1>5. w.ds = 1 /\ w.index \in {k.index, h.index}
      /\ \A l \in Layouts : w.at[l] \in {k.at[l], h.at[l]}
  BY DEF AdvancedWatermark
<1> HIDE DEF k, w
<1>6. k.index <= h.index /\ \A l \in Layouts : k.at[l] <= h.at[l]
  BY <1>1, <1>2, <1>3, <1>4
<1>7. w.ds = 1 /\ w.index <= h.index /\ \A l \in Layouts : w.at[l] <= h.at[l]
  BY <1>4, <1>5, <1>6
<1>8. QED
  BY <1>7 DEF w

(* Which device moves its watermark, and to what.                          *)
LEMMA WatermarkMoves ==
  ASSUME IInv, [Next]_vars, NEW e \in Devices, watermark'[e] # watermark[e]
  PROVE  /\ pass[e] # NoPass /\ UNCHANGED shared /\ used' = used
         /\ \/ /\ Compare(e) /\ Differing(e) = {}
               /\ watermark'[e] = AdvancedWatermark(e, pass[e].head)
            \/ Advance(e) /\ head.ok /\ watermark'[e] = AdvancedWatermark(e, head)
<1>p. watermark \in [Devices -> Watermarks]
  BY DEF IInv, TypeOK
<1>1. PICK d \in Devices : Compare(d) \/ Advance(d)
  BY Changes DEF WhoChanges
<1>2. d = e
  BY <1>p, <1>1 DEF Compare, Advance
<1>3. pass[e] # NoPass
  BY <1>1, <1>2 DEF Compare, Advance, NoPass
<1>4. UNCHANGED shared /\ used' = used
  BY <1>1 DEF Compare, Advance
<1>5. CASE Compare(e)
  BY <1>p, <1>3, <1>4, <1>5 DEF Compare
<1>6. CASE Advance(e)
  BY <1>p, <1>3, <1>4, <1>6 DEF Advance
<1>7. QED
  BY <1>1, <1>2, <1>5, <1>6

LEMMA WatermarkStep ==
  ASSUME IInv, [Next]_vars
  PROVE  WatermarkSound'
<1> USE DEF IInv
<1>0. SUFFICES ASSUME NEW e \in Devices
               PROVE  /\ watermark'[e].ds <= used'.datasets
                      /\ watermark'[e].ds = 0 => watermark'[e].index = 0
                                                 /\ \A l \in Layouts : watermark'[e].at[l] = 0
                      /\ head'.ok => /\ watermark'[e].index <= head'.index
                                     /\ \A l \in Layouts : watermark'[e].at[l] <= head'.at[l]
  BY DEF WatermarkSound
<1>t. /\ watermark[e].ds \in Nat /\ watermark[e].index \in Nat
      /\ \A l \in Layouts : watermark[e].at[l] \in Nat
      /\ head.index \in Nat /\ \A l \in Layouts : head.at[l] \in Nat
      /\ used.datasets \in Nat
  BY HeadTypes
<1>h. head' \in Heads /\ head'.index \in Nat /\ \A l \in Layouts : head'.at[l] \in Nat
  BY TypeStep DEF TypeOK, Heads
<1>1. CASE watermark'[e] = watermark[e]
  <2>1. watermark[e].ds <= used'.datasets
    BY <1>t, DatasetKept DEF WatermarkSound
  <2>2. head'.ok => /\ watermark[e].index <= head'.index
                    /\ \A l \in Layouts : watermark[e].at[l] <= head'.at[l]
    <3>1. CASE head.ok
      BY <1>t, <1>h, <3>1, HeadGrows DEF WatermarkSound
    <3>2. CASE ~head.ok /\ head'.ok
      <4>1. used.datasets = 0
        BY <3>2, HeadGrows
      <4>2. watermark[e].ds = 0
        BY <1>t, <4>1 DEF WatermarkSound
      <4>3. watermark[e].index = 0 /\ \A l \in Layouts : watermark[e].at[l] = 0
        BY <4>2 DEF WatermarkSound
      <4>4. QED
        BY <1>h, <4>3
    <3>3. QED
      BY <3>1, <3>2
  <2>3. QED
    BY <1>1, <2>1, <2>2 DEF WatermarkSound
<1>2. CASE watermark'[e] # watermark[e]
  <2>1. /\ pass[e] # NoPass /\ head' = head /\ used' = used
        /\ pass[e].head \in Heads /\ pass[e].head.ds = 1
        /\ pass[e].head.index \in Nat /\ \A l \in Layouts : pass[e].head.at[l] \in Nat
    BY <1>2, WatermarkMoves, HeadTypes DEF shared
  <2>2. /\ used.datasets = 1
        /\ head.ok => /\ head.ds = 1 /\ pass[e].head.index <= head.index
                      /\ \A l \in Layouts : pass[e].head.at[l] <= head.at[l]
    BY <2>1 DEF PassSound, HeadSound
  <2>3. CASE watermark'[e] = AdvancedWatermark(e, pass[e].head)
    <3>1. /\ watermark'[e].ds = 1 /\ watermark'[e].index <= pass[e].head.index
          /\ \A l \in Layouts : watermark'[e].at[l] <= pass[e].head.at[l]
      BY <2>1, <2>3, AdvancedIs
    <3>2. watermark'[e].index \in Nat /\ \A l \in Layouts : watermark'[e].at[l] \in Nat
      BY TypeStep DEF TypeOK, Watermarks
    <3>3. QED
      BY <1>t, <2>1, <2>2, <3>1, <3>2
  <2>4. CASE head.ok /\ watermark'[e] = AdvancedWatermark(e, head)
    <3>1. /\ watermark'[e].ds = 1 /\ watermark'[e].index <= head.index
          /\ \A l \in Layouts : watermark'[e].at[l] <= head.at[l]
      BY <2>1, <2>2, <2>4, AdvancedIs, HeadTypes
    <3>2. QED
      BY <2>1, <2>2, <3>1
  <2>5. QED
    BY <1>2, <2>3, <2>4, WatermarkMoves
<1>3. QED
  BY <1>1, <1>2

-----------------------------------------------------------------------------
(* What the watermark stands for.                                          *)

(* A watermark that reaches HEAD's index generation has every layout.      *)
LEMMA FastAdvanced ==
  ASSUME IInv, NEW d \in Devices, pass[d] # NoPass, head.ok, NEW h \in Heads, h.ds = 1,
         \A l \in Layouts : pass[d].head.at[l] <= h.at[l],
         h.index = head.index => h.at = head.at,
         AdvancedWatermark(d, h).index = head.index
  PROVE  \A l \in Layouts : AdvancedWatermark(d, h).at[l] >= head.at[l]
<1> USE DEF IInv
<1> DEFINE k == Known(d, pass[d].head)
           w == AdvancedWatermark(d, h)
           outstanding == \E l \in pass[d].excluded : h.at[l] > k.at[l]
<1>1. /\ pass[d] \in Passes /\ pass[d].head \in Heads /\ pass[d].head.ds = 1
      /\ \A l \in Layouts : pass[d].head.at[l] \in Nat
      /\ head.index \in Nat /\ \A l \in Layouts : head.at[l] \in Nat
      /\ watermark[d].index \in Nat /\ \A l \in Layouts : watermark[d].at[l] \in Nat
  BY HeadTypes
<1>2. h.index \in Nat /\ \A l \in Layouts : h.at[l] \in Nat
  BY DEF Heads
<1>3. /\ watermark[d].ds = 1 => k = watermark[d]
      /\ watermark[d].ds # 1 => k.index = 0
      /\ \A l \in Layouts : k.at[l] \in Nat
  BY <1>1, KnownIs
<1>4. w.index = IF pass[d].kind = "target" \/ outstanding THEN k.index ELSE h.index
  BY DEF AdvancedWatermark
<1>5. \A l \in Layouts : w.at[l] = IF l \in pass[d].excluded THEN k.at[l] ELSE h.at[l]
  BY DEF AdvancedWatermark
<1>6. head.ds = 1 /\ head.index > 0
  BY DEF HeadSound
<1>7. CASE pass[d].kind = "target" \/ outstanding
  <2>1. k.index = head.index
    BY <1>4, <1>7
  <2>2. watermark[d].ds = 1 /\ k = watermark[d]
    BY <1>1, <1>3, <1>6, <2>1
  <2>3. \A l \in Layouts : watermark[d].at[l] >= head.at[l]
    BY <1>6, <2>1, <2>2 DEF FastPathHonest
  <2>4. \A l \in Layouts : h.at[l] >= watermark[d].at[l]
    BY <1>1, <1>2 DEF PassSound
  <2> HIDE DEF k, w
  <2>5. \A l \in Layouts : w.at[l] >= head.at[l]
    BY <1>1, <1>2, <1>5, <2>2, <2>3, <2>4
  <2>6. QED
    BY <2>5 DEF w
<1>8. CASE ~(pass[d].kind = "target" \/ outstanding)
  <2>1. h.at = head.at
    BY <1>4, <1>8
  <2>2. \A l \in pass[d].excluded : ~(h.at[l] > k.at[l])
    BY <1>8
  <2> HIDE DEF k, w
  <2>3. \A l \in Layouts : w.at[l] >= head.at[l]
    BY <1>1, <1>2, <1>3, <1>5, <2>1, <2>2
  <2>4. QED
    BY <2>3 DEF w
<1>9. QED
  BY <1>7, <1>8

LEMMA FastStep ==
  ASSUME IInv, [Next]_vars
  PROVE  FastPathHonest'
<1> USE DEF IInv
<1>0. SUFFICES ASSUME NEW e \in Devices, head'.ok, watermark'[e].ds = head'.ds,
                      watermark'[e].index = head'.index
               PROVE  \A l \in Layouts : watermark'[e].at[l] >= head'.at[l]
  BY DEF FastPathHonest
<1>t. /\ watermark[e].ds \in Nat /\ watermark[e].index \in Nat
      /\ head.index \in Nat /\ head'.index \in Nat
  BY HeadTypes, TypeStep DEF TypeOK, Heads
<1>s. head'.ds = 1
  BY <1>0, HeadStep DEF HeadSound
<1>1. CASE watermark'[e] = watermark[e]
  <2>1. used.datasets # 0
    BY <1>0, <1>1, <1>s DEF WatermarkSound
  <2>2. head.ok /\ head.ds = 1
    BY <1>0, <2>1, HeadGrows DEF HeadSound
  <2>3. watermark[e].index <= head.index /\ head.index <= head'.index
    BY <1>0, <2>2, HeadGrows DEF WatermarkSound
  <2>4. head'.index = head.index
    BY <1>0, <1>1, <1>t, <2>3
  <2>5. head'.at = head.at
    BY <1>0, <2>2, <2>4, HeadGrows
  <2>6. QED
    BY <1>0, <1>1, <1>s, <2>2, <2>4, <2>5 DEF FastPathHonest
<1>2. CASE watermark'[e] # watermark[e]
  <2>1. /\ pass[e] # NoPass /\ head' = head
        /\ pass[e].head \in Heads /\ pass[e].head.ds = 1
        /\ pass[e].head.index \in Nat /\ \A l \in Layouts : pass[e].head.at[l] \in Nat
    BY <1>2, WatermarkMoves, HeadTypes DEF shared
  <2>2. /\ head.ok /\ head.ds = 1 /\ head \in Heads
        /\ \A l \in Layouts : pass[e].head.at[l] <= head.at[l]
        /\ pass[e].head.index = head.index => pass[e].head.at = head.at
    BY <1>0, <2>1, HeadTypes DEF PassSound, HeadSound
  <2>3. CASE watermark'[e] = AdvancedWatermark(e, pass[e].head)
    BY <1>0, <2>1, <2>2, <2>3, FastAdvanced
  <2>4. CASE watermark'[e] = AdvancedWatermark(e, head)
    BY <1>0, <2>1, <2>2, <2>4, FastAdvanced
  <2>5. QED
    BY <1>2, <2>3, <2>4, WatermarkMoves
<1>3. QED
  BY <1>1, <1>2

LEMMA DivergenceStep ==
  ASSUME IInv, [Next]_vars
  PROVE  DivergenceSeen'
<1> USE DEF IInv
<1>t. journal \in Nat /\ head \in Heads /\ head.journal \in Nat
  BY HeadTypes DEF TypeOK, Heads
<1>1. ASSUME NEW d \in Devices, NEW g \in Groups, BeginCommit(d, g) PROVE DivergenceSeen'
  BY <1>1 DEF BeginCommit, DivergenceSeen
<1>2. ASSUME NEW d \in Devices, WriteHead(d) PROVE DivergenceSeen'
  <2>1. /\ head'.journal = pub.base /\ journal' = journal
        /\ pub.kind = "full" => unindexed' = {}
        /\ pub.kind # "full" => unindexed' = unindexed \ {intent.group} /\ (masked' <=> masked)
    BY <1>2 DEF WriteHead
  <2>2. pub \in Pubs
    BY <1>2 DEF WriteHead, TypeOK, NoPub
  <2>3. CASE pub.kind = "forward"
    BY <2>1, <2>3 DEF PubSound, OpsSound, DivergenceSeen
  <2>4. CASE pub.kind = "commit"
    BY <2>1, <2>4 DEF PubSound, DivergenceSeen
  <2>5. CASE pub.kind = "full"
    BY <2>1, <2>5 DEF DivergenceSeen
  <2>6. QED
    BY <2>2, <2>3, <2>4, <2>5 DEF Pubs
<1>3. ASSUME NEW d \in Devices, CloseCommit(d) \/ Append(d) PROVE DivergenceSeen'
  <2>1. pub.kind = "commit" /\ UNCHANGED <<unindexed, masked>>
    BY <1>3 DEF CloseCommit, Append, history
  <2>2. QED
    BY <2>1 DEF PubSound, DivergenceSeen
<1>4. ASSUME NEW g \in Groups, LegacyWrite(g) PROVE DivergenceSeen'
  <2>1. head' = head /\ journal' = journal + 1
    BY <1>4 DEF LegacyWrite
  <2>2. head.ok => head.journal <= journal
    BY DEF HeadSound
  <2>3. QED
    BY <1>t, <2>1, <2>2 DEF DivergenceSeen
<1>5. CASE LoseHead
  BY <1>5 DEF LoseHead, NoHead, DivergenceSeen
<1>6. CASE UNCHANGED <<head, journal, unindexed, masked>>
  BY <1>6 DEF DivergenceSeen
<1>7. QED
  BY <1>1, <1>2, <1>3, <1>4, <1>5, <1>6, Changes DEF WhoChanges

-----------------------------------------------------------------------------
(* What a device has compared is what it has seen.                         *)

(* Only these steps change what a device observed or is excused of.        *)
LEMMA SeenMoves ==
  ASSUME IInv, [Next]_vars, NEW e \in Devices,
         observed'[e] # observed[e] \/ missed'[e] # missed[e]
  PROVE  BeginFullSync(e) \/ Append(e) \/ Compare(e) \/ Reconcile(e) \/ Advance(e)
<1>p. /\ observed \in [Devices -> [Groups -> Contents]]
      /\ missed \in [Devices -> SUBSET Groups]
  BY DEF IInv, TypeOK
<1>1. observed' # observed \/ missed' # missed
  OBVIOUS
<1>2. PICK d \in Devices :
        BeginFullSync(d) \/ Append(d) \/ Compare(d) \/ Reconcile(d) \/ Advance(d)
  BY <1>1, Changes DEF WhoChanges
<1>3. d # e => observed'[e] = observed[e] /\ missed'[e] = missed[e]
  BY <1>p, <1>2 DEF BeginFullSync, Append, Compare, Reconcile, Advance
<1>4. QED
  BY <1>2, <1>3

LEMMA CompareStep ==
  ASSUME IInv, [Next]_vars
  PROVE  CompareSound'
<1> USE DEF IInv
<1>0. SUFFICES ASSUME NEW e \in Devices, NEW g \in Groups, NEW h, h = pass'[e].head,
                      NEW l, l = LayoutOf[g],
                      pass'[e] # NoPass, pass'[e].phase \in {"reconcile", "seen"},
                      l \notin pass'[e].excluded, Known(e, h)'.at[l] < h.at[l],
                      g \notin missed'[e], head'.ok, head'.at[l] = h.at[l]
               PROVE  \/ observed'[e][g] = shards'[l][h.at[l]].holds[g].content
                      \/ pass'[e].phase = "reconcile" /\ g \in pass'[e].chosen
  BY DEF CompareSound, Entry, ShardAt, Known
<1>p. /\ observed \in [Devices -> [Groups -> Contents]]
      /\ missed \in [Devices -> SUBSET Groups] /\ l \in Layouts
  BY <1>0 DEF TypeOK
<1>r. NoPass.phase = "idle"
  BY DEF NoPass
<1>a. /\ watermark'[e] = watermark[e]
      /\ \/ pass[e] # NoPass /\ pass'[e] = pass[e]
            /\ ~Compare(e) /\ ~Reconcile(e) /\ ~Advance(e)
         \/ /\ Compare(e) /\ pass[e] \in Passes
            /\ pass'[e] = [pass[e] EXCEPT !.chosen = Differing(e), !.phase = "reconcile"]
         \/ /\ Reconcile(e) /\ pass[e] \in Passes
            /\ pass'[e] = [pass[e] EXCEPT !.phase = "seen"]
  BY <1>0, PassCont
<1>b. /\ pass[e] # NoPass /\ pass[e].head = h /\ pass[e] \in Passes
      /\ pass'[e].excluded = pass[e].excluded
  <2>1. pass[e] # NoPass /\ pass[e] \in Passes
    BY <1>a, <1>r, HeadTypes DEF Compare, Reconcile
  <2>2. QED
    BY <1>0, <1>a, <2>1 DEF Passes
<1>c. /\ h \in Heads /\ h.ds = 1 /\ h.ok /\ h.at[l] \in Nat /\ h.at[l] > 0
      /\ ShardAt(h, l) # NoShard
  BY <1>b, <1>p, HeadTypes DEF PassSound
<1>d. Known(e, h).at[l] < h.at[l]
  BY <1>0, <1>a DEF Known
<1>e. head.ok /\ head.at[l] = h.at[l]
  <2>1. used.datasets = 1
    BY <1>b DEF PassSound
  <2>2. head.ok /\ head'.at[l] >= head.at[l]
    BY <1>0, <1>p, <2>1, HeadGrows
  <2>3. h.at[l] <= head.at[l]
    BY <1>b, <1>p, <2>2 DEF PassSound
  <2>4. head.at[l] \in Nat /\ h.at[l] \in Nat /\ head'.at[l] = h.at[l]
    BY <1>0, <1>c, <1>p, HeadTypes
  <2>5. QED
    BY <2>2, <2>3, <2>4
<1>f. shards'[l][h.at[l]] = shards[l][h.at[l]]
  BY <1>c, <1>p, EntryKept
<1>g. Entry(h, g) = shards[l][h.at[l]].holds[g] /\ Entry(head, g) = shards[l][h.at[l]].holds[g]
  BY <1>0, <1>e DEF Entry, ShardAt
<1>h. \/ pass[e].phase \notin {"reconcile", "seen"}
      \/ g \in missed[e]
      \/ observed[e][g] = Entry(h, g).content
      \/ pass[e].phase = "reconcile" /\ g \in pass[e].chosen
  BY <1>0, <1>b, <1>d, <1>e DEF CompareSound
<1>1. CASE pass'[e] = pass[e] /\ ~Compare(e) /\ ~Reconcile(e) /\ ~Advance(e)
  <2>1. CASE observed'[e] = observed[e] /\ missed'[e] = missed[e]
    BY <1>0, <1>1, <1>f, <1>g, <1>h, <2>1
  <2>2. CASE BeginFullSync(e)
    BY <1>b, <2>2 DEF BeginFullSync, Idle
  <2>3. CASE Append(e)
    <3>1. /\ pub.dev = e /\ pub.kind = "commit" /\ pub.phase = "headed"
          /\ observed' = [observed EXCEPT ![e][intent.group] = payload[intent.group]]
          /\ missed' = [missed EXCEPT ![e] = missed[e] \ {intent.group}]
      BY <1>p, <2>3 DEF Append
    <3>2. g # intent.group
      <4>1. SUFFICES ASSUME g = intent.group PROVE FALSE
        OBVIOUS
      <4>2. pass[pub.dev].head.at[LayoutOf[intent.group]] < head.at[LayoutOf[intent.group]]
        BY <1>b, <3>1 DEF PubSound
      <4>3. h.at[l] < head.at[l]
        BY <1>0, <1>b, <3>1, <4>1, <4>2
      <4>4. QED
        BY <1>c, <1>e, <4>3
    <3>3. observed'[e][g] = observed[e][g] /\ g \notin missed[e]
      BY <1>0, <1>p, <3>1, <3>2
    <3>4. QED
      BY <1>0, <1>1, <1>f, <1>g, <1>h, <3>3
  <2>4. QED
    BY <1>1, <2>1, <2>2, <2>3, SeenMoves
<1>2. CASE /\ Compare(e)
           /\ pass'[e] = [pass[e] EXCEPT !.chosen = Differing(e), !.phase = "reconcile"]
  <2>1. pass'[e].phase = "reconcile" /\ pass'[e].chosen = Differing(e)
    BY <1>2, <1>b DEF Passes
  <2>2. l \in Advanced(e, h)
    BY <1>0, <1>b, <1>d, <1>p DEF Advanced
  <2>3. g \in InScope(e)
    <3>1. SUFFICES ASSUME g \notin InScope(e) PROVE FALSE
      OBVIOUS
    <3>2. pass[e].kind = "target"
      BY <1>0, <1>b, <2>2, <3>1 DEF InScope
    <3>3. g \in {j \in Groups : LayoutOf[j] \in Advanced(e, h)} \ InScope(e)
      BY <1>0, <2>2, <3>1
    <3>4. g \in missed'[e]
      BY <1>2, <1>b, <1>p, <3>2, <3>3 DEF Compare
    <3>5. QED
      BY <1>0, <3>4
  <2>4. observed' = observed
    BY <1>2 DEF Compare
  <2>5. g \in Differing(e) \/ Entry(h, g).content = observed[e][g]
    BY <1>b, <2>3 DEF Differing
  <2>6. QED
    BY <1>f, <1>g, <2>1, <2>4, <2>5
<1>3. CASE Reconcile(e) /\ pass'[e] = [pass[e] EXCEPT !.phase = "seen"]
  <2>1. /\ observed'[e] = [j \in Groups |-> IF j \in pass[e].chosen THEN payload[j]
                                            ELSE observed[e][j]]
        /\ missed'[e] = missed[e] \cup (pass[e].chosen \cap Unsettled)
        /\ pass[e].phase = "reconcile"
    BY <1>3, <1>p DEF Reconcile
  <2>2. CASE g \in pass[e].chosen
    <3>1. g \notin Unsettled
      BY <1>0, <2>1, <2>2
    <3>2. payload[g] = Entry(head, g).content
      BY <1>e, <3>1 DEF Unsettled
    <3>3. QED
      BY <1>f, <1>g, <2>1, <2>2, <3>2
  <2>3. CASE g \notin pass[e].chosen
    <3>1. observed'[e][g] = observed[e][g] /\ g \notin missed[e]
      BY <1>0, <2>1, <2>3
    <3>2. QED
      BY <1>f, <1>g, <1>h, <2>1, <2>3, <3>1
  <2>4. QED
    BY <2>2, <2>3
<1>4. QED
  BY <1>1, <1>2, <1>3, <1>a

LEMMA OverlookedStep ==
  ASSUME IInv, [Next]_vars
  PROVE  NothingOverlooked'
<1> USE DEF IInv
<1>0. SUFFICES ASSUME NEW e \in Devices, NEW g \in Groups, NEW l, l = LayoutOf[g],
                      head'.ok, watermark'[e].ds = 1,
                      watermark'[e].at[l] >= head'.at[l], g \notin missed'[e]
               PROVE  observed'[e][g] = shards'[l][head'.at[l]].holds[g].content
  BY HeadStep DEF NothingOverlooked, HeadSound, Entry, ShardAt
<1>p. /\ observed \in [Devices -> [Groups -> Contents]]
      /\ missed \in [Devices -> SUBSET Groups] /\ l \in Layouts
  BY <1>0 DEF TypeOK
<1>t. /\ watermark[e].at[l] \in Nat /\ head.at[l] \in Nat /\ head'.at[l] \in Nat
      /\ watermark[e].ds \in Nat /\ head \in Heads
  <2>1. head' \in Heads
    BY TypeStep DEF TypeOK
  <2>2. head'.at[l] \in Nat
    BY <1>p, <2>1 DEF Heads
  <2>3. QED
    BY <1>p, <2>2, HeadTypes
\* HEAD was there, and names the same shard of the layout.
<1>a. head.ok /\ head.ds = 1 /\ head'.at[l] = head.at[l]
  <2>1. CASE watermark'[e] = watermark[e]
    <3>1. used.datasets # 0
      BY <1>0, <2>1 DEF WatermarkSound
    <3>2. head.ok /\ head.ds = 1 /\ head'.at[l] >= head.at[l]
      BY <1>0, <1>p, <3>1, HeadGrows DEF HeadSound
    <3>3. watermark[e].at[l] <= head.at[l]
      BY <1>p, <3>2 DEF WatermarkSound
    <3>4. watermark[e].at[l] >= head'.at[l]
      BY <1>0, <2>1
    <3>5. QED
      BY <1>t, <3>2, <3>3, <3>4
  <2>2. CASE watermark'[e] # watermark[e]
    <3>1. head' = head
      BY <2>2, WatermarkMoves DEF shared
    <3>2. QED
      BY <1>0, <3>1 DEF HeadSound
  <2>3. QED
    BY <2>1, <2>2
<1>b. head.at[l] > 0 /\ shards'[l][head'.at[l]] = shards[l][head.at[l]]
  <2>1. head.at[l] > 0 /\ ShardAt(head, l) # NoShard
    BY <1>a, <1>p DEF HeadSound
  <2>2. QED
    BY <1>a, <1>p, <1>t, <2>1, EntryKept
<1>c. Entry(head, g) = shards[l][head.at[l]].holds[g]
  BY <1>0 DEF Entry, ShardAt
\* What the invariant says of a group that was compared before.
<1>d. watermark[e].ds = 1 /\ watermark[e].at[l] >= head.at[l] /\ g \notin missed[e] =>
        observed[e][g] = Entry(head, g).content
  BY <1>0, <1>a DEF NothingOverlooked
<1>k. ASSUME pass[e] # NoPass
      PROVE  /\ pass[e] \in Passes /\ pass[e].head \in Heads /\ pass[e].head.ds = 1
             /\ Known(e, pass[e].head).at[l] \in Nat /\ pass[e].head.at[l] \in Nat
             /\ Known(e, pass[e].head).at[l] > 0 =>
                  watermark[e].ds = 1 /\ Known(e, pass[e].head) = watermark[e]
             /\ watermark[e].ds = 1 => Known(e, pass[e].head) = watermark[e]
             /\ pass[e].head.at[l] <= head.at[l]
  <2>1. /\ pass[e] \in Passes /\ pass[e].head \in Heads /\ pass[e].head.ds = 1
        /\ pass[e].head.at[l] \in Nat
    BY <1>k, <1>p, HeadTypes
  <2>2. /\ watermark[e].ds = 1 => Known(e, pass[e].head) = watermark[e]
        /\ watermark[e].ds # 1 => Known(e, pass[e].head).at[l] = 0
        /\ Known(e, pass[e].head).at[l] \in Nat
    BY <1>p, <2>1, KnownIs
  <2>3. pass[e].head.at[l] <= head.at[l]
    BY <1>a, <1>k, <1>p DEF PassSound
  <2>4. QED
    BY <2>1, <2>2, <2>3
<1>w. ASSUME NEW h \in Heads
      PROVE  AdvancedWatermark(e, h).at[l] =
               IF l \in pass[e].excluded THEN Known(e, pass[e].head).at[l] ELSE h.at[l]
  BY <1>p DEF AdvancedWatermark
<1>n. NoPass.phase = "idle"
  BY DEF NoPass
<1>1. CASE observed'[e] = observed[e] /\ missed'[e] = missed[e] /\ watermark'[e] = watermark[e]
  BY <1>0, <1>1, <1>a, <1>b, <1>c, <1>d
<1>2. CASE BeginFullSync(e)
  <2>1. observed'[e] = payload /\ missed'[e] = Unsettled
    BY <1>2, <1>p DEF BeginFullSync
  <2>2. QED
    BY <1>0, <1>a, <1>b, <1>c, <2>1 DEF Unsettled
<1>3. CASE Append(e)
  <2>1. /\ pub.dev = e /\ pub.kind = "commit" /\ pub.phase = "headed"
        /\ observed'[e] = [observed[e] EXCEPT ![intent.group] = payload[intent.group]]
        /\ missed'[e] = missed[e] \ {intent.group}
        /\ watermark' = watermark
    BY <1>3, <1>p DEF Append
  <2>2. CASE g = intent.group
    <3>1. payload[g] = intent.op + 1 /\ Entry(head, g).content = intent.op + 1
      BY <2>1, <2>2 DEF PubSound
    <3>2. observed'[e][g] = payload[g]
      BY <1>p, <2>1, <2>2
    <3>3. QED
      BY <1>b, <1>c, <3>1, <3>2
  <2>3. CASE g # intent.group
    <3>1. observed'[e][g] = observed[e][g] /\ g \notin missed[e]
      BY <1>0, <1>p, <2>1, <2>3
    <3>2. QED
      BY <1>0, <1>a, <1>b, <1>c, <1>d, <2>1, <3>1
  <2>4. QED
    BY <2>2, <2>3
<1>4. CASE Compare(e)
  <2> DEFINE h == pass[e].head
             unseen == IF pass[e].kind = "quick" THEN {}
                       ELSE {j \in Groups : LayoutOf[j] \in Advanced(e, h)} \ InScope(e)
  <2>1. /\ pass[e] # NoPass /\ observed' = observed
        /\ missed'[e] = (missed[e] \ InScope(e)) \cup unseen
    BY <1>4, <1>n, <1>p DEF Compare
  <2>2. /\ g \notin unseen /\ (g \in InScope(e) \/ g \notin missed[e])
    BY <1>0, <2>1
  <2>3. g \in InScope(e) <=> l \in Advanced(e, h)
    BY <1>0, <1>k, <2>1, <2>2 DEF InScope, Passes
  <2>4. l \in Advanced(e, h) <=> l \notin pass[e].excluded /\ Known(e, h).at[l] < h.at[l]
    BY <1>p DEF Advanced
  <2>5. CASE g \notin InScope(e) /\ watermark[e].ds = 1 /\ watermark[e].at[l] >= head.at[l]
    BY <1>b, <1>c, <1>d, <2>1, <2>2, <2>5
  <2>6. CASE watermark'[e] = watermark[e]
    <3>1. watermark[e].ds = 1 /\ watermark[e].at[l] >= head.at[l]
      BY <1>0, <1>a, <2>6
    <3>2. ~(Known(e, h).at[l] < h.at[l])
      BY <1>k, <1>t, <2>1, <3>1
    <3>3. QED
      BY <2>3, <2>4, <2>5, <3>1, <3>2
  <2>7. CASE watermark'[e] # watermark[e]
    <3>1. Differing(e) = {} /\ watermark'[e] = AdvancedWatermark(e, h)
      <4>1. Differing(e) = {} \/ watermark' = watermark
        BY <1>4 DEF Compare
      <4>2. Differing(e) = {} => watermark' = [watermark EXCEPT ![e] = AdvancedWatermark(e, h)]
        BY <1>4 DEF Compare
      <4>3. watermark \in [Devices -> Watermarks]
        BY DEF TypeOK
      <4>4. QED
        BY <2>7, <4>1, <4>2, <4>3
    <3>2. AdvancedWatermark(e, h).at[l] =
            IF l \in pass[e].excluded THEN Known(e, h).at[l] ELSE h.at[l]
      BY <1>k, <1>w, <2>1
    <3>3. AdvancedWatermark(e, h).at[l] >= head.at[l]
      BY <1>0, <1>a, <3>1
    <3>4. CASE g \in InScope(e)
      <4>1. Entry(h, g).content = observed[e][g]
        BY <3>1, <3>4 DEF Differing
      <4>2. h.at[l] >= head.at[l]
        BY <2>3, <2>4, <3>2, <3>3, <3>4
      <4>3. h.at[l] = head.at[l]
        BY <1>k, <1>t, <2>1, <4>2
      <4>4. Entry(h, g) = Entry(head, g)
        BY <1>0, <4>3 DEF Entry, ShardAt
      <4>5. QED
        BY <1>b, <1>c, <2>1, <4>1, <4>4
    <3>5. CASE g \notin InScope(e)
      <4>1. Known(e, h).at[l] >= head.at[l]
        <5>1. CASE l \in pass[e].excluded
          BY <3>2, <3>3, <5>1
        <5>2. CASE l \notin pass[e].excluded
          <6>1. ~(Known(e, h).at[l] < h.at[l]) /\ h.at[l] >= head.at[l]
            BY <2>3, <2>4, <3>2, <3>3, <3>5, <5>2
          <6>2. QED
            BY <1>k, <1>t, <2>1, <6>1
        <5>3. QED
          BY <5>1, <5>2
      <4>2. Known(e, h).at[l] > 0
        BY <1>b, <1>k, <1>t, <2>1, <4>1
      <4>3. watermark[e].ds = 1 /\ watermark[e].at[l] >= head.at[l]
        BY <1>k, <2>1, <4>1, <4>2
      <4>4. QED
        BY <2>5, <3>5, <4>3
    <3>6. QED
      BY <3>4, <3>5
  <2>8. QED
    BY <2>6, <2>7
<1>5. CASE Reconcile(e)
  <2>1. /\ observed'[e] = [j \in Groups |-> IF j \in pass[e].chosen THEN payload[j]
                                            ELSE observed[e][j]]
        /\ missed'[e] = missed[e] \cup (pass[e].chosen \cap Unsettled)
        /\ watermark' = watermark
    BY <1>5, <1>p DEF Reconcile
  <2>2. g \notin missed[e] /\ (g \in pass[e].chosen => g \notin Unsettled)
    BY <1>0, <2>1
  <2>3. CASE g \in pass[e].chosen
    BY <1>a, <1>b, <1>c, <2>1, <2>2, <2>3 DEF Unsettled
  <2>4. CASE g \notin pass[e].chosen
    BY <1>0, <1>a, <1>b, <1>c, <1>d, <2>1, <2>2, <2>4
  <2>5. QED
    BY <2>3, <2>4
<1>6. CASE Advance(e)
  <2> DEFINE h == pass[e].head
             overtaken == {j \in Groups : /\ LayoutOf[j] \notin pass[e].excluded
                                          /\ head.at[LayoutOf[j]] # h.at[LayoutOf[j]]}
  <2>1. /\ pass[e] # NoPass /\ pass[e].phase = "seen" /\ observed' = observed
        /\ missed'[e] = missed[e] \cup overtaken
        /\ watermark'[e] = AdvancedWatermark(e, head)
    <3>1. watermark \in [Devices -> Watermarks]
      BY DEF TypeOK
    <3>2. QED
      BY <1>6, <1>a, <1>n, <1>p, <3>1 DEF Advance
  <2>2. g \notin missed[e] /\ (l \notin pass[e].excluded => head.at[l] = h.at[l])
    BY <1>0, <2>1
  <2>3. AdvancedWatermark(e, head).at[l] =
          IF l \in pass[e].excluded THEN Known(e, h).at[l] ELSE head.at[l]
    BY <1>t, <1>w
  <2>4. CASE l \notin pass[e].excluded /\ Known(e, h).at[l] < h.at[l]
    <3>1. observed[e][g] = Entry(h, g).content
      BY <1>0, <1>a, <2>1, <2>2, <2>4 DEF CompareSound
    <3>2. Entry(h, g) = Entry(head, g)
      BY <1>0, <2>2, <2>4 DEF Entry, ShardAt
    <3>3. QED
      BY <1>b, <1>c, <2>1, <3>1, <3>2
  <2>5. CASE ~(l \notin pass[e].excluded /\ Known(e, h).at[l] < h.at[l])
    <3>1. Known(e, h).at[l] >= head.at[l]
      <4>1. CASE l \in pass[e].excluded
        BY <1>0, <1>a, <2>1, <2>3, <4>1
      <4>2. CASE l \notin pass[e].excluded
        BY <1>k, <2>1, <2>2, <2>5, <4>2
      <4>3. QED
        BY <4>1, <4>2
    <3>2. Known(e, h).at[l] > 0
      BY <1>b, <1>k, <1>t, <2>1, <3>1
    <3>3. watermark[e].ds = 1 /\ watermark[e].at[l] >= head.at[l]
      BY <1>k, <2>1, <3>1, <3>2
    <3>4. QED
      BY <1>b, <1>c, <1>d, <2>1, <2>2, <3>3
  <2>6. QED
    BY <2>4, <2>5
<1>7. QED
  <2>1. CASE observed'[e] # observed[e] \/ missed'[e] # missed[e]
    BY <1>2, <1>3, <1>4, <1>5, <1>6, <2>1, SeenMoves
  <2>2. CASE watermark'[e] # watermark[e]
    BY <1>4, <1>6, <2>2, WatermarkMoves
  <2>3. QED
    BY <1>1, <2>1, <2>2

-----------------------------------------------------------------------------
(* The theorems.                                                           *)

LEMMA InvStep == IInv /\ [Next]_vars => IInv'
<1> SUFFICES ASSUME IInv, [Next]_vars PROVE IInv'
  OBVIOUS
<1>1. TypeOK' /\ HeadSound' /\ OpsSound' /\ PubSound' /\ NothingAhead'
  BY TypeStep, HeadStep, OpsStep, PubStep, AheadStep
<1>2. PassSound' /\ WatermarkSound' /\ CompareSound'
  BY PassStep, WatermarkStep, CompareStep
<1>3. NothingOverlooked' /\ FastPathHonest' /\ DivergenceSeen'
  BY OverlookedStep, FastStep, DivergenceStep
<1>4. QED
  BY <1>1, <1>2, <1>3 DEF IInv

LEMMA Invariant == Spec => []IInv
<1>1. Init => IInv
  BY InitInv
<1>2. IInv /\ [Next]_vars => IInv'
  BY InvStep
<1>3. QED
  BY <1>1, <1>2, PTL DEF Spec

LEMMA NeverTorn == IInv => ReadersNeverTorn
<1> SUFFICES ASSUME IInv, NEW h \in {head} \cup {pass[d].head : d \in {e \in Devices : pass[e] # NoPass}},
                    h.ok, NEW l \in Layouts
             PROVE  h.at[l] > 0 /\ ShardAt(h, l).ds = h.ds
  BY DEF ReadersNeverTorn
<1>1. h \in Heads /\ h.ds = 1 /\ h.at[l] > 0 /\ ShardAt(h, l) # NoShard
  <2>1. CASE h = head
    BY <2>1 DEF IInv, HeadSound, TypeOK
  <2>2. ASSUME NEW d \in Devices, pass[d] # NoPass, h = pass[d].head
        PROVE  h \in Heads /\ h.ds = 1 /\ h.at[l] > 0 /\ ShardAt(h, l) # NoShard
    BY <2>2, HeadTypes DEF IInv, PassSound
  <2>3. QED
    BY <2>1, <2>2
<1>2. h.at[l] \in 1..MaxGen
  BY <1>1 DEF Heads
<1>3. shards[l][h.at[l]].ds = 1
  BY <1>1, <1>2 DEF IInv, HeadSound, ShardAt
<1>4. QED
  BY <1>1, <1>3 DEF ShardAt

\* What a device reads of the index and what it concludes from it are true,
\* for any number of devices, layouts, groups, failures and passes: every
\* variable keeps its type, a reader finds every shard its HEAD names, no
\* change is overlooked but by the three known routes, the empty fast path is
\* honest, and an older client's write is noticed (read_head, load_shard,
\* journal_diverged, _advance_index_watermark).
THEOREM ReadersAreHonest == Spec => []ReadersHonest
<1>1. IInv => ReadersHonest
  BY NeverTorn DEF IInv, ReadersHonest
<1>2. QED
  BY <1>1, Invariant, PTL

\* No publication takes back what another published: a shard file once
\* written stays, a dataset's generations never go back; and a publication is
\* refused its shard's name only after some failure (write_shard, write_head,
\* publish_group_updates, publish_authoritative_index).
THEOREM PublicationsOnlyGrow == Spec => PublicationsGrow
<1>1. IInv /\ [Next]_vars => [GenerationsOnlyGrow /\ HealthyNeverRefused]_vars
  <2>1. SUFFICES ASSUME IInv, [Next]_vars PROVE GenerationsOnlyGrow /\ HealthyNeverRefused
    OBVIOUS
  <2>2. \A l \in Layouts, n \in 1..MaxGen :
          shards[l][n] # NoShard => shards'[l][n] = shards[l][n]
    BY <2>1, ShardsGrow
  <2>3. head.ok /\ head'.ok /\ head.ds = head'.ds =>
          head'.index >= head.index /\ \A l \in Layouts : head'.at[l] >= head.at[l]
    BY <2>1, HeadGrows
  <2>4. HealthyNeverRefused
    BY <2>1, HealthyRefusal DEF HealthyNeverRefused
  <2>5. QED
    BY <2>2, <2>3, <2>4 DEF GenerationsOnlyGrow
<1>2. QED
  BY <1>1, Invariant, PTL DEF Spec, PublicationsGrow
=============================================================================
