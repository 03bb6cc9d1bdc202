---------------------------- MODULE MemoryCard ----------------------------
(***************************************************************************)
(* A raw PlayStation card: a directory that chains blocks into saves.  The *)
(* emulator writes it in its own way; SaveSync reads it only when every    *)
(* chain makes sense, and rebuilds a copy with some saves replaced and     *)
(* some removed, in the blocks that are free or were theirs before.        *)
(***************************************************************************)
EXTENDS Naturals, Sequences, FiniteSets

CONSTANTS NBlocks, NNames, MaxWrites

MemoryCardAssumption == NBlocks \in Nat \ {0} /\ NNames \in Nat \ {0} /\ MaxWrites \in Nat

Blocks == 1..NBlocks
Names == 1..NNames
States == {"live_head", "live_mid", "live_end", "free", "dead_head", "dead_mid", "dead_end"}
Frames == [st : States, nxt : 0..NBlocks, name : 0..NNames, size : 0..NBlocks]  \* nxt = 0: the chain ends
FreeFrame == [st |-> "free", nxt |-> 0, name |-> 0, size |-> 0]

VARIABLES
    dir,        \* the directory: one frame for each block
    data,       \* what each block holds: the number of the write
    writes,     \* counter
    kind        \* history: what the last step was: "game", "rebuilt", "refused", "invalid"

vars == <<dir, data, writes, kind>>

Elements(s) == {s[i] : i \in DOMAIN s}
Chains == {s \in UNION {[1..n -> Blocks] : n \in 1..NBlocks} : Cardinality(Elements(s)) = Len(s)}
-----------------------------------------------------------------------------
(* Reading a card. *)

\* _parse_chain; the empty chain stands for a loop.
RECURSIVE Walk(_, _)
Walk(d, s) ==
    LET n == d[s[Len(s)]].nxt
    IN IF n = 0 THEN s ELSE IF n \in Elements(s) THEN <<>> ELSE Walk(d, Append(s, n))
Place(i, n) == IF i = 1 THEN "head" ELSE IF i = n THEN "end" ELSE "mid"
Named(life, place) == IF life = "live" THEN (CASE place = "head" -> "live_head" [] place = "mid" -> "live_mid" [] OTHER -> "live_end")
                      ELSE (CASE place = "head" -> "dead_head" [] place = "mid" -> "dead_mid" [] OTHER -> "dead_end")
Heads(d, life) == {b \in Blocks : d[b].st = Named(life, "head")}
Chain(d, b) == Walk(d, <<b>>)
InOrder(d, s, life) == s # <<>> /\ \A i \in DOMAIN s : d[s[i]].st = Named(life, Place(i, Len(s)))
Used(d, life) == UNION {Elements(Chain(d, b)) : b \in Heads(d, life)}

Readable(d) ==
    LET heads == Heads(d, "live") \cup Heads(d, "dead")
    IN /\ \A b \in Heads(d, "live") : InOrder(d, Chain(d, b), "live") /\ d[b].size = Len(Chain(d, b))
       /\ \A b \in Heads(d, "dead") : InOrder(d, Chain(d, b), "dead")
       /\ \A b, c \in heads : b # c => Elements(Chain(d, b)) \cap Elements(Chain(d, c)) = {}
       /\ \A b, c \in Heads(d, "live") : d[b].name = d[c].name => b = c
       /\ \A b \in Blocks : d[b].st = "free" \/ b \in Used(d, "live") \cup Used(d, "dead")
       /\ \A b \in Blocks : d[b].st = "free" => d[b].nxt = 0
\* The saves of a readable card: where they lie does not matter.
Content(d, t, s) == [i \in DOMAIN s |-> t[s[i]]]
Entries(d, t) == {[name |-> d[b].name, content |-> Content(d, t, Chain(d, b))] : b \in Heads(d, "live")}
Place0(d, n) == LET at == {b \in Heads(d, "live") : d[b].name = n} IN IF at = {} THEN <<>> ELSE Chain(d, CHOOSE b \in at : TRUE)
-----------------------------------------------------------------------------
(* Writing a card. *)

\* _mark_deleted: a chain of its own, also of the rest of a save that got shorter.
MarkDeletedPast(d, s) == [b \in Blocks |->                        \* mutant: the end mark points past the card
    IF b \notin Elements(s) THEN d[b] ELSE [d[b] EXCEPT !.st = Named("dead", Place(1, Len(s))), !.nxt = NBlocks + 1]]
MarkDeleted(d, s) == [b \in Blocks |->
    IF b \notin Elements(s) THEN d[b]
    ELSE LET i == CHOOSE k \in DOMAIN s : s[k] = b
         IN [d[b] EXCEPT !.st = Named("dead", Place(i, Len(s))), !.nxt = IF i = Len(s) THEN 0 ELSE s[i + 1]]]
\* _write_chain
ChainKept(d, s, name) == [b \in Blocks |->                       \* mutant: the pointers are not rewritten
    IF b \notin Elements(s) THEN d[b]
    ELSE LET i == CHOOSE k \in DOMAIN s : s[k] = b
         IN [d[b] EXCEPT !.st = Named("live", Place(i, Len(s))), !.name = IF i = 1 THEN name ELSE 0, !.size = IF i = 1 THEN Len(s) ELSE 0]]
ChainOf(d, s, name) == [b \in Blocks |->
    IF b \notin Elements(s) THEN d[b]
    ELSE LET i == CHOOSE k \in DOMAIN s : s[k] = b
         IN [st |-> Named("live", Place(i, Len(s))), nxt |-> IF i = Len(s) THEN 0 ELSE s[i + 1],
             name |-> IF i = 1 THEN name ELSE 0, size |-> IF i = 1 THEN Len(s) ELSE 0]]
Written(t, s, content) == [b \in Blocks |-> IF b \in Elements(s) THEN content[CHOOSE k \in DOMAIN s : s[k] = b] ELSE t[b]]

\* The blocks a save is put into: its own first, then the lowest free ones.
RECURSIVE Ascending(_)
Ascending(S) == IF S = {} THEN <<>> ELSE LET m == CHOOSE x \in S : \A y \in S : x <= y IN <<m>> \o Ascending(S \ {m})
FreeOrDeleted(d) == {b \in Blocks : b \notin Used(d, "live")}     \* mutant: deleted blocks are room too
FreeBlocks(d) == {b \in Blocks : d[b].st = "free"}
Prefix(s, n) == SubSeq(s, 1, IF n < Len(s) THEN n ELSE Len(s))

\* One save after the other, in the order of their names; <<>> is a refusal.
Refusal == [ok |-> FALSE]
Replace(c, name, content) ==
    LET old == Place0(c.from, name)
        own == Prefix(old, Len(content))
        need == Len(content) - Len(own)
        blocks == own \o Prefix(c.room, need)
        rest == IF Len(old) > Len(content) THEN MarkDeleted(c.dir, SubSeq(old, Len(content) + 1, Len(old))) ELSE c.dir
    IN IF ~c.ok \/ need > Len(c.room) THEN [c EXCEPT !.ok = FALSE]
       ELSE [c EXCEPT !.dir = ChainOf(rest, blocks, name), !.data = Written(c.data, blocks, content),
                      !.room = SubSeq(@, need + 1, Len(@))]
RECURSIVE ReplaceAll(_, _, _)
ReplaceAll(c, new, names) ==
    IF names = {} THEN c
    ELSE LET n == CHOOSE x \in names : \A y \in names : x <= y
         IN ReplaceAll(Replace(c, n, new[n]), new, names \ {n})
RECURSIVE RemoveAll(_, _, _)
RemoveAll(d, from, names) ==
    IF names = {} THEN d
    ELSE LET n == CHOOSE x \in names : TRUE
         IN RemoveAll(IF Place0(from, n) = <<>> THEN d ELSE MarkDeleted(d, Place0(from, n)), from, names \ {n})

\* new: the contents that come from the other card, by name.
Rebuild(d, t, removals, new) ==
    ReplaceAll([ok |-> TRUE, from |-> d, dir |-> RemoveAll(d, d, removals), data |-> t, room |-> Ascending(FreeBlocks(d))],
               new, DOMAIN new)
Expected(d, t, removals, new) ==
    {e \in Entries(d, t) : e.name \notin removals \cup DOMAIN new} \cup {[name |-> n, content |-> new[n]] : n \in DOMAIN new}
-----------------------------------------------------------------------------
Init ==
    /\ dir = [b \in Blocks |-> FreeFrame] /\ data = [b \in Blocks |-> 0]
    /\ writes = 0 /\ kind = "game"

\* The emulator saves: on blocks that no other save has, it does not care what was there.
GameSave(n, s) ==
    /\ writes < MaxWrites /\ writes' = writes + 1 /\ kind' = "game"
    /\ Elements(s) \cap (Used(dir, "live") \ Elements(Place0(dir, n))) = {}
    /\ dir' = ChainOf([b \in Blocks |-> IF b \in Elements(Place0(dir, n)) THEN FreeFrame ELSE dir[b]], s, n)
    /\ data' = Written(data, s, [i \in DOMAIN s |-> writes + 1])
GameDelete(n) ==
    /\ Place0(dir, n) # <<>> /\ writes < MaxWrites /\ writes' = writes + 1
    /\ dir' = MarkDeleted(dir, Place0(dir, n)) /\ kind' = "game" /\ UNCHANGED data

\* What a card of another device brings: for some names a content of some length.
Incoming == UNION {[names -> {[i \in 1..k |-> writes + 1] : k \in 1..2}] : names \in SUBSET Names}
Merge(removals, new) ==
    /\ writes < MaxWrites /\ writes' = writes + 1
    /\ Readable(dir) /\ removals \cap DOMAIN new = {}
    /\ LET r == Rebuild(dir, data, removals, new)
       IN IF r.ok /\ Readable(r.dir) /\ Entries(r.dir, r.data) = Expected(dir, data, removals, new)
          THEN dir' = r.dir /\ data' = r.data /\ kind' = "rebuilt"
          ELSE kind' = (IF r.ok THEN "invalid" ELSE "refused") /\ UNCHANGED <<dir, data>>

Next ==
    \/ \E n \in Names, s \in Chains : GameSave(n, s)
    \/ \E n \in Names : GameDelete(n)
    \/ \E removals \in SUBSET Names : \E new \in Incoming : Merge(removals, new)
Spec == Init /\ [][Next]_vars
-----------------------------------------------------------------------------
\* Frames point into the card and blocks hold what was written.
TypeOK ==
    /\ dir \in [Blocks -> Frames] /\ data \in [Blocks -> 0..MaxWrites] /\ writes \in 0..MaxWrites
    /\ kind \in {"game", "rebuilt", "refused", "invalid"}

\* A card that could be read and has the room is rebuilt into what was planned,
\* whatever chains and remains the emulator has left on it: the check of the
\* candidate never finds a mistake of the rebuild itself.
RebuildSucceeds == kind # "invalid"

\* A rebuild touches only the blocks of the saves it replaces or removes, and
\* free ones: what was deleted on the card can still be brought back.
ResidueKeptStep ==
    \A b \in Blocks : (kind' = "rebuilt" /\ b \in Used(dir, "dead")) => dir'[b] = dir[b] /\ data'[b] = data[b]
ResidueKept == [][ResidueKeptStep]_vars
=============================================================================
