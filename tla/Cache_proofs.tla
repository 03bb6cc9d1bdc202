----------------------------- MODULE Cache_proofs -----------------------------
(***************************************************************************)
(* Proofs about Cache, for any finite sets of processes, games and assets, *)
(* any closures, sizes and limits: a game that is said to be cached can be *)
(* played, and stays so while others come and go; and the cache stays      *)
(* within its budget.                                                      *)
(*                                                                         *)
(* The asset locks carry the first.  A process that transfers, evicts or   *)
(* removes a game holds the lock of every asset the game needs (LocksOf),  *)
(* so what it found in place or copied stays there (ProgressOf), and so do *)
(* the entry and the members it recorded (EntryOf).                        *)
(*                                                                         *)
(* The rows of cache_reservations carry the second.  What a transfer still *)
(* has to write is at most what it has left, which is at most its row      *)
(* (LeftOf), so an admission that fits leaves room for all of them, and no *)
(* other step raises what the files may grow to (PeakOf).  An admission    *)
(* reads one sum after the other: Window says why what it has read is      *)
(* still enough when the others go on meanwhile.                           *)
(***************************************************************************)
EXTENDS Cache, FiniteSetTheorems, TLAPS

-----------------------------------------------------------------------------
(* Sums, as sets of units.                                                 *)

\* A sum is a natural number: a finite set has finitely many units.
LEMMA TotalFinite ==
    ASSUME NEW S, IsFiniteSet(S), NEW f, \A a \in S : f[a] \in Nat
    PROVE  IsFiniteSet(Units(f, S)) /\ Total(f, S) \in Nat
<1> DEFINE col == [a \in S |-> {a} \X (1 .. f[a])]
           T == {{a} \X (1 .. f[a]) : a \in S}
<1>1. col \in Surjection(S, T)
  BY DEF Surjection
<1>2. IsFiniteSet(T)
  BY <1>1, FS_Surjection
<1>3. ASSUME NEW a \in S PROVE IsFiniteSet({a} \X (1 .. f[a]))
  <2>1. IsFiniteSet({a})
    BY FS_Singleton
  <2>2. IsFiniteSet(1 .. f[a])
    BY FS_Interval
  <2>3. QED
    BY <2>1, <2>2, FS_Product
<1>4. IsFiniteSet(UNION T)
  BY <1>2, <1>3, FS_UNION
<1>5. QED
  BY <1>4, FS_CardinalityType DEF Units, Total

\* Nothing less for more: a sum grows with its terms.
LEMMA TotalMono ==
    ASSUME NEW S, NEW T, IsFiniteSet(T), NEW f, NEW g, \A a \in T : g[a] \in Nat,
           \A a \in S : f[a] \in Nat /\ (f[a] = 0 \/ (a \in T /\ f[a] <= g[a]))
    PROVE  Total(f, S) <= Total(g, T)
<1>1. IsFiniteSet(Units(g, T))
  BY TotalFinite
<1>2. ASSUME NEW a \in S PROVE {a} \X (1 .. f[a]) \subseteq Units(g, T)
  <2>1. CASE f[a] = 0
    BY <2>1
  <2>2. CASE a \in T /\ f[a] <= g[a]
    <3>1. {a} \X (1 .. f[a]) \subseteq {a} \X (1 .. g[a])
      BY <2>2
    <3>2. QED
      BY <2>2, <3>1 DEF Units
  <2>3. QED
    BY <2>1, <2>2
<1>3. Units(f, S) \subseteq Units(g, T)
  BY <1>2 DEF Units
<1>4. QED
  BY <1>1, <1>3, FS_Subset DEF Total

LEMMA TotalSame ==
    ASSUME NEW S, NEW f, NEW g, \A a \in S : f[a] = g[a]
    PROVE  Total(f, S) = Total(g, S)
<1>1. Units(f, S) = Units(g, S)
  BY DEF Units
<1>2. QED
  BY <1>1 DEF Total

LEMMA TotalNone == ASSUME NEW f PROVE Total(f, {}) = 0
BY FS_EmptySet DEF Total, Units

LEMMA UnitsOf ==
    ASSUME NEW S, NEW f, \A a \in S : f[a] \in Nat
    PROVE  \A u : u \in Units(f, S) <=> \E a \in S : \E i \in 1 .. f[a] : u = <<a, i>>
BY DEF Units

\* One term set apart.
LEMMA TotalAt ==
    ASSUME NEW S, IsFiniteSet(S), NEW f, \A a \in S : f[a] \in Nat, NEW b \in S
    PROVE  Total(f, S) = Total(f, S \ {b}) + f[b]
<1> DEFINE U == Units(f, S \ {b})
           V == {b} \X (1 .. f[b])
<1>1. IsFiniteSet(S \ {b}) 
  BY FS_RemoveElement
<1>2. IsFiniteSet(U) /\ Cardinality(U) \in Nat
  BY <1>1, TotalFinite DEF Total
<1>3. IsFiniteSet(V) /\ Cardinality(V) = f[b]
  <2>1. IsFiniteSet({b}) /\ Cardinality({b}) = 1
    BY FS_Singleton
  <2>2. IsFiniteSet(1 .. f[b]) /\ Cardinality(1 .. f[b]) = f[b]
    BY FS_Interval
  <2>3. IsFiniteSet(V) /\ Cardinality(V) = Cardinality({b}) * Cardinality(1 .. f[b])
    BY <2>1, <2>2, FS_Product
  <2>4. QED
    BY <2>1, <2>2, <2>3
<1>4. Units(f, S) = U \cup V
  <2>1. ASSUME NEW u PROVE u \in Units(f, S) <=> u \in U \/ u \in V
    <3>1. CASE u \in Units(f, S)
      <4>1. PICK a \in S : u \in {a} \X (1 .. f[a])
        BY <3>1 DEF Units
      <4>2. QED
        BY <4>1 DEF Units
    <3>2. CASE u \in U \/ u \in V
      BY <3>2 DEF Units
    <3>3. QED
      BY <3>1, <3>2
  <2>2. QED
    BY <2>1
<1>5. U \cap V = {}
  BY DEF Units
<1> HIDE DEF U, V
<1>6. Cardinality(U \cap V) = 0
  BY <1>5, FS_EmptySet
<1>7. Cardinality(U \cup V) = Cardinality(U) + Cardinality(V) - Cardinality(U \cap V)
  BY <1>2, <1>3, FS_Union
<1>8. Cardinality(U \cup V) = Cardinality(U) + f[b]
  BY <1>2, <1>3, <1>6, <1>7
<1>9. QED
  BY <1>4, <1>8 DEF Total, U

\* The sum of two terms covers a term no larger than they are together.
LEMMA TotalSplit ==
    ASSUME NEW S, IsFiniteSet(S), NEW f, NEW g, NEW h,
           \A a \in S : f[a] \in Nat /\ g[a] \in Nat /\ h[a] \in Nat /\ h[a] <= f[a] + g[a]
    PROVE  Total(h, S) <= Total(f, S) + Total(g, S)
<1> DEFINE V == {u \in Units(g, S) : f[u[1]] + u[2] <= h[u[1]]}
           shift == [u \in V |-> <<u[1], f[u[1]] + u[2]>>]
           W == {shift[u] : u \in V}
<1>1. /\ IsFiniteSet(Units(f, S)) /\ Total(f, S) \in Nat
      /\ IsFiniteSet(Units(g, S)) /\ Total(g, S) \in Nat
      /\ IsFiniteSet(Units(h, S)) /\ Total(h, S) \in Nat
  BY TotalFinite
<1>2. IsFiniteSet(V) /\ Cardinality(V) <= Total(g, S)
  BY <1>1, FS_Subset DEF Total
<1>3. shift \in Surjection(V, W)
  BY DEF Surjection
<1>4. IsFiniteSet(W) /\ Cardinality(W) <= Cardinality(V)
  BY <1>2, <1>3, FS_Surjection
<1>5. Units(h, S) \subseteq Units(f, S) \cup W
  <2>1. SUFFICES ASSUME NEW a \in S, NEW i \in 1 .. h[a], <<a, i>> \notin Units(f, S)
                 PROVE  <<a, i>> \in W
    BY UnitsOf
  <2>2. i > f[a] /\ i - f[a] \in 1 .. g[a] /\ f[a] + (i - f[a]) = i
    BY <2>1, UnitsOf
  <2>3. <<a, i - f[a]>> \in Units(g, S)
    BY <2>2, UnitsOf
  <2>4. <<a, i - f[a]>> \in V
    BY <2>2, <2>3
  <2>5. shift[<<a, i - f[a]>>] = <<a, i>>
    BY <2>2, <2>4
  <2>6. QED
    BY <2>4, <2>5
<1> HIDE DEF V, W, shift
<1>6. /\ IsFiniteSet(Units(f, S) \cup W)
      /\ Cardinality(Units(f, S) \cup W) =
           Cardinality(Units(f, S)) + Cardinality(W) - Cardinality(Units(f, S) \cap W)
  BY <1>1, <1>4, FS_Union
<1>7. Total(h, S) <= Cardinality(Units(f, S) \cup W)
  BY <1>5, <1>6, FS_Subset DEF Total
<1>8. /\ Cardinality(W) \in Nat /\ Cardinality(V) \in Nat
      /\ Cardinality(Units(f, S) \cap W) \in Nat /\ Cardinality(Units(f, S) \cup W) \in Nat
  BY <1>1, <1>2, <1>4, <1>6, FS_CardinalityType, FS_Intersection
<1>9. QED
  BY <1>1, <1>2, <1>4, <1>6, <1>7, <1>8 DEF Total

\* Two terms that fit into a third one.
LEMMA TotalJoin ==
    ASSUME NEW S, IsFiniteSet(S), NEW f, NEW g, NEW h,
           \A a \in S : f[a] \in Nat /\ g[a] \in Nat /\ h[a] \in Nat /\ f[a] + g[a] <= h[a]
    PROVE  Total(f, S) + Total(g, S) <= Total(h, S)
<1> DEFINE V == Units(g, S)
           shift == [u \in V |-> <<u[1], f[u[1]] + u[2]>>]
           W == {shift[u] : u \in V}
<1>1. /\ IsFiniteSet(Units(f, S)) /\ Total(f, S) \in Nat
      /\ IsFiniteSet(V) /\ Total(g, S) \in Nat
      /\ IsFiniteSet(Units(h, S)) /\ Total(h, S) \in Nat
  BY TotalFinite
<1>2. \A u \in V : u[1] \in S /\ u[2] \in 1 .. g[u[1]] /\ u = <<u[1], u[2]>>
  BY UnitsOf
<1>3. shift \in Surjection(V, W)
  BY DEF Surjection
<1>4. ASSUME NEW u \in V, NEW v \in V, shift[u] = shift[v] PROVE u = v
  <2>1. u[1] = v[1] /\ f[u[1]] + u[2] = f[v[1]] + v[2]
    BY <1>4
  <2>2. u[2] = v[2]
    BY <1>2, <2>1
  <2>3. QED
    BY <1>2, <2>1, <2>2
<1>5. shift \in Injection(V, W)
  BY <1>3, <1>4 DEF Surjection, Injection, IsInjective
<1>6. IsFiniteSet(W) /\ Cardinality(W) = Total(g, S)
  BY <1>1, <1>3, <1>5, FS_Surjection DEF Total
<1>7. Units(f, S) \cup W \subseteq Units(h, S)
  <2>1. ASSUME NEW u \in V PROVE shift[u] \in Units(h, S)
    <3>1. shift[u] = <<u[1], f[u[1]] + u[2]>> /\ f[u[1]] + u[2] \in 1 .. h[u[1]]
      BY <1>2
    <3>2. QED
      BY <1>2, <3>1, UnitsOf
  <2>2. ASSUME NEW u \in Units(f, S) PROVE u \in Units(h, S)
    <3>1. PICK a \in S : \E i \in 1 .. f[a] : u = <<a, i>>
      BY UnitsOf
    <3>2. PICK i \in 1 .. f[a] : u = <<a, i>>
      BY <3>1
    <3>3. i \in 1 .. h[a]
      OBVIOUS
    <3>4. QED
      BY <3>2, <3>3, UnitsOf
  <2>3. QED
    BY <2>1, <2>2
<1>8. Units(f, S) \cap W = {}
  <2>1. SUFFICES ASSUME NEW u \in V, shift[u] \in Units(f, S) PROVE FALSE
    OBVIOUS
  <2>2. PICK a \in S : \E i \in 1 .. f[a] : shift[u] = <<a, i>>
    BY <2>1, UnitsOf
  <2>3. PICK i \in 1 .. f[a] : shift[u] = <<a, i>>
    BY <2>2
  <2>4. u[1] = a /\ f[u[1]] + u[2] = i
    BY <2>3
  <2>5. QED
    BY <1>2, <2>4
<1> HIDE DEF V, W, shift
<1>9. Cardinality(Units(f, S) \cap W) = 0
  BY <1>8, FS_EmptySet
<1>10. /\ IsFiniteSet(Units(f, S) \cup W)
       /\ Cardinality(Units(f, S) \cup W) = Cardinality(Units(f, S)) + Cardinality(W) - 0
  BY <1>1, <1>6, <1>9, FS_Union
<1>11. Cardinality(Units(f, S) \cup W) <= Total(h, S)
  BY <1>1, <1>7, FS_Subset DEF Total
<1>12. QED
  BY <1>1, <1>6, <1>10, <1>11 DEF Total

\* Where each row covers its own set, the rows together cover all of them.
LEMMA SumOfSums ==
    ASSUME NEW P, IsFiniteSet(P), NEW A, IsFiniteSet(A), NEW D \in [P -> SUBSET A],
           NEW f, \A a \in A : f[a] \in Nat,
           NEW r, \A p \in P : r[p] \in Nat /\ Total(f, D[p]) <= r[p]
    PROVE  Total(f, UNION {D[p] : p \in P}) <= Total(r, P)
<1> DEFINE all == UNION {D[p] : p \in P}
           n(p) == Total(f, D[p])
           pick(p) == CHOOSE b \in Bijection(1 .. n(p), Units(f, D[p])) : TRUE
           V == {u \in Units(r, P) : u[2] <= n(u[1])}
           of == [u \in V |-> pick(u[1])[u[2]]]
<1>1. IsFiniteSet(Units(r, P)) /\ Total(r, P) \in Nat
  BY TotalFinite
<1>2. IsFiniteSet(V) /\ Cardinality(V) <= Total(r, P)
  BY <1>1, FS_Subset DEF Total
<1>3. ASSUME NEW p \in P
      PROVE  n(p) \in Nat /\ pick(p) \in Bijection(1 .. n(p), Units(f, D[p]))
  <2>1. D[p] \subseteq A /\ IsFiniteSet(D[p])
    BY FS_Subset
  <2>2. IsFiniteSet(Units(f, D[p])) /\ n(p) \in Nat
    BY <2>1, TotalFinite
  <2>3. ExistsBijection(1 .. n(p), Units(f, D[p]))
    BY <2>2, FS_CardinalityType DEF Total
  <2>4. QED
    BY <2>2, <2>3 DEF ExistsBijection
<1>4. ASSUME NEW u \in V PROVE of[u] \in Units(f, all)
  <2>1. u[1] \in P /\ u[2] \in 1 .. n(u[1])
    BY <1>3, UnitsOf
  <2>2. of[u] \in Units(f, D[u[1]])
    BY <1>3, <2>1 DEF Bijection, Surjection
  <2>3. QED
    BY <2>1, <2>2 DEF Units
<1>5. ASSUME NEW t \in Units(f, all) PROVE \E u \in V : of[u] = t
  <2>1. PICK p \in P : t \in Units(f, D[p])
    BY DEF Units
  <2>2. PICK i \in 1 .. n(p) : pick(p)[i] = t
    BY <1>3, <2>1 DEF Bijection, Surjection
  <2>3. <<p, i>> \in Units(r, P)
    <3>1. i \in 1 .. r[p]
      BY <1>3
    <3>2. QED
      BY <3>1, UnitsOf
  <2>4. <<p, i>> \in V
    BY <2>3
  <2>5. of[<<p, i>>] = t
    BY <2>2, <2>4
  <2>6. QED
    BY <2>4, <2>5
<1>6. of \in Surjection(V, Units(f, all))
  BY <1>4, <1>5 DEF Surjection
<1> HIDE DEF V, of, n, pick
<1>7. IsFiniteSet(Units(f, all)) /\ Cardinality(Units(f, all)) <= Cardinality(V)
  BY <1>2, <1>6, FS_Surjection
<1>8. Cardinality(Units(f, all)) \in Nat /\ Cardinality(V) \in Nat
  BY <1>2, <1>7, FS_CardinalityType
<1>9. QED
  BY <1>1, <1>2, <1>7, <1>8 DEF Total

-----------------------------------------------------------------------------
(* The inductive invariant.                                                *)

Fields == {"pc", "game", "existing", "need", "left", "seen", "owed", "have", "asset", "keep",
           "todo", "cands", "target"}

\* The rows and memories have their shape: an entry that does not exist has no members.
ShapeSound ==
    /\ entry \in [Games -> {"none", "transferring", "incomplete", "failed", "complete"}]
    /\ DOMAIN member = Games /\ DOMAIN pin = Games
    /\ \A g \in Games : /\ member[g] = NoMembers \/ DOMAIN member[g] = Closure[g]
                        /\ entry[g] = "none" => member[g] = NoMembers
    /\ manifest \in [Assets -> BOOLEAN] /\ done \in [Assets -> BOOLEAN]
    /\ final \in [Assets -> Nat] /\ staged \in [Assets -> Nat]
    /\ lock \in [Assets -> Procs \cup {Nobody}]
    /\ DOMAIN work = Procs /\ \A p \in Procs : DOMAIN work[p] = Fields
    /\ faults \in Nat
    /\ \A p \in Procs : launch[p] \in Games \cup {Nobody}
    /\ control # NoControl => control.game \in Games

\* Where a process works for a game, and where for one it evicts or removes.
Working == Admitting \cup Transferring \cup {"admit", "enter", "release"}
OnAsset == {"resume", "cut", "copy", "count", "move"}
Planned == OnAsset \cup {"plan"}

LockedBy(p, S) == \A a \in S : lock[a] = p
LocksOf(p) ==
    /\ At(p, "idle") => work[p] = Idle
    /\ work[p].pc \in Working => work[p].game \in Games /\ LockedBy(p, Closure[work[p].game])
    /\ work[p].pc \in {"take", "drop", "rmwait", "rmdiscard", "rmfiles", "rmdrop"} =>
         work[p].target \in Games
    /\ work[p].pc \in {"drop", "rmdiscard", "rmfiles", "rmdrop"} => LockedBy(p, Closure[work[p].target])
    /\ work[p].pc \in Planned => work[p].todo \subseteq Closure[work[p].game]
    /\ work[p].pc \in OnAsset => work[p].asset \in Closure[work[p].game]
    /\ work[p].pc \in OnAsset \ {"move"} => work[p].asset \in work[p].todo
    /\ At(p, "move") => work[p].todo = {}
    /\ work[p].cands \subseteq Games

\* A staged file that is done is a whole one, or was promoted.
FilesSound == \A a \in Assets : staged[a] <= Size[a] /\ (done[a] => staged[a] \in {0, Size[a]})
StagedOf(p) ==
    /\ At(p, "cut") => work[p].keep \in Nat /\ work[p].keep <= Size[work[p].asset]
    /\ At(p, "move") => done[work[p].asset] /\ staged[work[p].asset] # 0

\* What a transfer has dealt with is in place, or about to be promoted.
ProgressOf(p) ==
    work[p].pc \in Planned /\ faults = 0 => \A a \in Closure[work[p].game] \ work[p].todo :
        Intact(a) \/ (done[a] /\ staged[a] = Size[a])

\* The game a transfer works for keeps its members, unless its bytes went uncounted.
EntryOf(p) ==
    work[p].pc \in Planned /\ member[work[p].game] = NoMembers => Closure[work[p].game] \subseteq stray

ProcSound(p) == LocksOf(p) /\ StagedOf(p) /\ ProgressOf(p) /\ EntryOf(p)
CacheInv == ShapeSound /\ FilesSound /\ \A p \in Procs : ProcSound(p)

LEMMA Assumed ==
    /\ \A g \in Games : Closure[g] \subseteq Assets /\ Closure[g] # {} /\ Primary[g] \in Closure[g]
    /\ \A a \in Assets : Size[a] \in Nat /\ Size[a] # 0
    /\ Nobody \notin Procs /\ Nobody \notin Games /\ Quota \in Nat
BY CacheAssumption

USE Assumed

LEMMA IdleShape == DOMAIN Idle = Fields /\ Idle.pc = "idle" /\ Idle.cands = {}
BY DEF Idle, Fields

-----------------------------------------------------------------------------
(* The steps.                                                              *)

\* What an admission does that changes nothing but what it has read.
Reads(p) == ReadFinal(p) \/ ReadStaging(p) \/ ReadReserved(p) \/ Enough(p)

\* What a process does, and what happens to it.
Acts(p) == \/ Program(p) \/ Crash(p)
           \/ \E status \in {"failed", "incomplete"} : Fail(p, status)
           \/ \E g \in Games : Request(p, g) \/ AskRemove(p, g)
\* What happens beside the processes that transfer, evict and remove.
Beside == \/ \E p \in Procs : LaunchEnds(p) \/ \E g \in Games : MarkLaunched(p, g)
          \/ \E a \in Assets : DiscardPartial(a) \/ Damage(a)
          \/ \E g \in Games : PinRead(g) \/ UnpinRead(g)
          \/ ControlWrite

LEMMA NextIs == Next => Beside \/ \E p \in Procs : Acts(p)
BY DEF Next, Commands, Faults, Beside, Acts

\* A process changes its own memory alone.
MemoryOf(p) == /\ DOMAIN work' = Procs /\ \A q \in Procs : DOMAIN work'[q] = Fields
               /\ \A q \in Procs : q # p => work'[q] = work[q]

LEMMA ActsMemory ==
    ASSUME ShapeSound, NEW p \in Procs, Acts(p)
    PROVE  MemoryOf(p)
<1> USE DEF db, files, plan, reservations, locks, user, sight, count, At, Goto
<1>t. /\ DOMAIN work = Procs /\ \A q \in Procs : DOMAIN work[q] = Fields
      /\ "pc" \in Fields /\ "game" \in Fields /\ "need" \in Fields /\ "left" \in Fields
      /\ "seen" \in Fields /\ "owed" \in Fields
      /\ "have" \in Fields /\ "asset" \in Fields /\ "keep" \in Fields /\ "todo" \in Fields
      /\ "cands" \in Fields /\ "target" \in Fields /\ "existing" \in Fields
  BY DEF ShapeSound, Fields
<1>1. CASE EnterAdmission(p)
  BY <1>t, <1>1 DEF EnterAdmission, MemoryOf
<1>2. CASE DropEntry(p)
  BY <1>t, <1>2 DEF DropEntry, MemoryOf
<1>3. CASE Admit(p)
  BY <1>t, <1>3 DEF Admit, MemoryOf
<1>4. CASE Refuse(p)
  BY <1>t, <1>4, IdleShape DEF Refuse, MemoryOf
<1>5. CASE Enter(p)
  BY <1>t, <1>5 DEF Enter, MemoryOf
<1>6. CASE ReplaceMembership(p)
  BY <1>t, <1>6 DEF ReplaceMembership, MemoryOf
<1>7. CASE MembershipRefused(p)
  BY <1>t, <1>7, IdleShape DEF MembershipRefused, Leave, MemoryOf
<1>8. CASE Evict(p)
  BY <1>t, <1>8 DEF Evict, MemoryOf
<1>9. CASE Cut(p)
  BY <1>t, <1>9 DEF Cut, MemoryOf
<1>10. CASE Copy(p)
  BY <1>t, <1>10 DEF Copy, MemoryOf
<1>11. CASE ConsumeGrowth(p)
  BY <1>t, <1>11 DEF ConsumeGrowth, MemoryOf
<1>12. CASE Promote(p)
  BY <1>t, <1>12 DEF Promote, MemoryOf
<1>13. CASE Finalize(p)
  BY <1>t, <1>13 DEF Finalize, MemoryOf
<1>14. CASE Release(p)
  BY <1>t, <1>14, IdleShape DEF Release, Leave, MemoryOf
<1>15. CASE LockRemove(p)
  BY <1>t, <1>15, IdleShape DEF LockRemove, MemoryOf
<1>16. CASE RemoveFiles(p)
  BY <1>t, <1>16 DEF RemoveFiles, MemoryOf
<1>17. CASE DropRemoved(p)
  BY <1>t, <1>17, IdleShape DEF DropRemoved, MemoryOf
<1>18. CASE Crash(p)
  BY <1>t, <1>18, IdleShape DEF Crash, Leave, MemoryOf
<1>19. ASSUME NEW g \in Games, LookAgain(p, g) PROVE MemoryOf(p)
  BY <1>t, <1>19 DEF LookAgain, Forgets, MemoryOf
<1>20. ASSUME NEW a \in Assets, PlanAsset(p, a) PROVE MemoryOf(p)
  BY <1>t, <1>20 DEF PlanAsset, MemoryOf
<1>21. ASSUME NEW a \in Assets, Protect(p, a) PROVE MemoryOf(p)
  BY <1>t, <1>21 DEF Protect, MemoryOf
<1>22. ASSUME NEW checkpoint \in 0 .. Quota, Resume(p, checkpoint) PROVE MemoryOf(p)
  BY <1>t, <1>22 DEF Resume, MemoryOf
<1>23. ASSUME NEW g \in Games, Request(p, g) PROVE MemoryOf(p)
  BY <1>t, <1>23, IdleShape DEF Request, MemoryOf
<1>24. ASSUME NEW g \in Games, AskRemove(p, g) PROVE MemoryOf(p)
  BY <1>t, <1>24, IdleShape DEF AskRemove, MemoryOf
<1>25. ASSUME NEW status \in {"failed", "incomplete"}, Fail(p, status) PROVE MemoryOf(p)
  BY <1>t, <1>25, IdleShape DEF Fail, Leave, MemoryOf
<1>26. CASE Reads(p)
  BY <1>t, <1>26 DEF Reads, ReadFinal, ReadStaging, ReadReserved, Enough, Forgets, MemoryOf
<1>27. CASE DiscardStaging(p)
  BY <1>t, <1>27 DEF DiscardStaging, Discard, MemoryOf
<1>28. QED
  BY <1>1, <1>2, <1>3, <1>4, <1>5, <1>6, <1>7, <1>8, <1>9, <1>10, <1>11, <1>12, <1>13, <1>14,
     <1>15, <1>16, <1>17, <1>18, <1>19, <1>20, <1>21, <1>22, <1>23, <1>24, <1>25, <1>26,
     <1>27 DEF Acts,
     Program, Reads

\* What the removal of a game deletes is part of its closure.
LEMMA RemovableInClosure ==
    ASSUME ShapeSound, NEW g \in Games
    PROVE  Removable(g) \subseteq Closure[g]
BY DEF ShapeSound, Removable

\* The tables and the files keep their shape.
Tables == /\ entry \in [Games -> {"none", "transferring", "incomplete", "failed", "complete"}]
          /\ DOMAIN member = Games /\ DOMAIN pin = Games
          /\ \A g \in Games : /\ member[g] = NoMembers \/ DOMAIN member[g] = Closure[g]
                              /\ entry[g] = "none" => member[g] = NoMembers
Media == /\ manifest \in [Assets -> BOOLEAN] /\ done \in [Assets -> BOOLEAN]
         /\ final \in [Assets -> Nat] /\ staged \in [Assets -> Nat]
Holders == lock \in [Assets -> Procs \cup {Nobody}]

LEMMA TablesKept ==
    ASSUME ShapeSound, NEW p \in Procs, LocksOf(p), Acts(p)
    PROVE  Tables'
<1> USE DEF db, files, plan, reservations, locks, user, sight, count, At, Tables
<1>t. Tables
  BY DEF ShapeSound
<1>g. /\ work[p].pc \in Working => work[p].game \in Games
      /\ work[p].pc \in {"drop", "rmdrop"} => work[p].target \in Games
  BY DEF LocksOf
<1>e. DOMAIN NoMembers = {}
  BY DEF NoMembers
<1>1. CASE EnterAdmission(p)
  BY <1>t, <1>1 DEF EnterAdmission
<1>2. CASE DropEntry(p)
  BY <1>t, <1>2 DEF DropEntry, Delete
<1>3. CASE Admit(p)
  BY <1>t, <1>3 DEF Admit
<1>4. CASE Refuse(p)
  BY <1>t, <1>4 DEF Refuse, Unlocked
<1>5. CASE Enter(p)
  BY <1>t, <1>5 DEF Enter
<1>6. CASE ReplaceMembership(p)
  BY <1>t, <1>6, <1>g DEF ReplaceMembership
<1>7. CASE MembershipRefused(p)
  BY <1>t, <1>7 DEF MembershipRefused, Leave, Unlocked
<1>8. CASE Evict(p)
  BY <1>t, <1>8 DEF Evict, Erased, Held
<1>9. CASE Cut(p)
  BY <1>t, <1>9 DEF Cut
<1>10. CASE Copy(p)
  BY <1>t, <1>10 DEF Copy
<1>11. CASE ConsumeGrowth(p)
  BY <1>t, <1>11 DEF ConsumeGrowth
<1>12. CASE Promote(p)
  BY <1>t, <1>12 DEF Promote
<1>13. CASE Finalize(p)
  <2> DEFINE g == work[p].game
             sized == [a \in DOMAIN member[g] |-> final[a]]
  <2>1. entry' = [entry EXCEPT ![g] = IF @ = "none" THEN @ ELSE "complete"] /\ pin' = pin
        /\ member' = [member EXCEPT ![g] = sized]
    BY <1>13 DEF Finalize
  <2>2. DOMAIN sized = DOMAIN member[g]
    OBVIOUS
  <2>3. member[g] = NoMembers => sized = NoMembers
    BY DEF NoMembers
  <2> HIDE DEF sized, g
  <2>4. QED
    BY <1>t, <2>1, <2>2, <2>3
<1>14. CASE Release(p)
  BY <1>t, <1>14 DEF Release, Leave, Unlocked
<1>15. CASE LockRemove(p)
  BY <1>t, <1>15 DEF LockRemove, Held
<1>16. CASE RemoveFiles(p)
  BY <1>t, <1>16 DEF RemoveFiles, Erased
<1>17. CASE DropRemoved(p)
  BY <1>t, <1>17 DEF DropRemoved, Delete, Unlocked
<1>18. CASE Crash(p)
  BY <1>t, <1>18 DEF Crash, Leave, Unlocked
<1>19. ASSUME NEW g \in Games, LookAgain(p, g) PROVE Tables'
  BY <1>t, <1>19 DEF LookAgain, Forgets
<1>20. ASSUME NEW a \in Assets, PlanAsset(p, a) PROVE Tables'
  BY <1>t, <1>20 DEF PlanAsset
<1>21. ASSUME NEW a \in Assets, Protect(p, a) PROVE Tables'
  BY <1>t, <1>21 DEF Protect
<1>22. ASSUME NEW checkpoint \in 0 .. Quota, Resume(p, checkpoint) PROVE Tables'
  BY <1>t, <1>22 DEF Resume
<1>23. ASSUME NEW g \in Games, Request(p, g) PROVE Tables'
  BY <1>t, <1>23 DEF Request, Held
<1>24. ASSUME NEW g \in Games, AskRemove(p, g) PROVE Tables'
  BY <1>t, <1>24 DEF AskRemove
<1>25. ASSUME NEW status \in {"failed", "incomplete"}, Fail(p, status) PROVE Tables'
  BY <1>t, <1>25 DEF Fail, Leave, Unlocked, Marked
<1>26. CASE Reads(p)
  BY <1>t, <1>26 DEF Reads, ReadFinal, ReadStaging, ReadReserved, Enough, Forgets
<1>27. CASE DiscardStaging(p)
  BY <1>t, <1>27 DEF DiscardStaging, Discard
<1>28. QED
  BY <1>1, <1>2, <1>3, <1>4, <1>5, <1>6, <1>7, <1>8, <1>9, <1>10, <1>11, <1>12, <1>13, <1>14,
     <1>15, <1>16, <1>17, <1>18, <1>19, <1>20, <1>21, <1>22, <1>23, <1>24, <1>25, <1>26,
     <1>27 DEF Acts,
     Program, Reads

LEMMA MediaKept ==
    ASSUME ShapeSound, NEW p \in Procs, LocksOf(p), StagedOf(p), Acts(p)
    PROVE  Media'
<1> USE DEF db, files, plan, reservations, locks, user, sight, count, At, Media
<1>t. Media
  BY DEF ShapeSound
<1>g. /\ work[p].pc \in OnAsset => work[p].asset \in Assets
      /\ At(p, "cut") => work[p].keep \in Nat
  BY DEF LocksOf, StagedOf, OnAsset, Working, Admitting, Transferring
<1>o. {"cut", "copy", "move"} \subseteq OnAsset
  BY DEF OnAsset
<1>1. CASE EnterAdmission(p)
  BY <1>t, <1>1 DEF EnterAdmission
<1>2. CASE DropEntry(p)
  BY <1>t, <1>2 DEF DropEntry, Delete
<1>3. CASE Admit(p)
  BY <1>t, <1>3 DEF Admit
<1>4. CASE Refuse(p)
  BY <1>t, <1>4 DEF Refuse, Unlocked
<1>5. CASE Enter(p)
  BY <1>t, <1>5 DEF Enter
<1>6. CASE ReplaceMembership(p)
  BY <1>t, <1>6 DEF ReplaceMembership
<1>7. CASE MembershipRefused(p)
  BY <1>t, <1>7 DEF MembershipRefused, Leave, Unlocked
<1>8. CASE Evict(p)
  BY <1>t, <1>8 DEF Evict, Erased, Held
<1>9. CASE Cut(p)
  BY <1>t, <1>9, <1>g, <1>o DEF Cut
<1>10. CASE Copy(p)
  <2> DEFINE b == work[p].asset
  <2>1. b \in Assets /\ staged[b] \in Nat /\ staged[b] + 1 \in Nat
    BY <1>t, <1>10, <1>g, <1>o DEF Copy
  <2>2. /\ manifest' = manifest /\ final' = final
        /\ \/ staged' = [staged EXCEPT ![b] = staged[b] + 1] /\ done' = [done EXCEPT ![b] = FALSE]
           \/ staged' = staged /\ done' = [done EXCEPT ![b] = TRUE]
    BY <1>10 DEF Copy
  <2> HIDE DEF b
  <2>3. CASE staged' = [staged EXCEPT ![b] = staged[b] + 1] /\ done' = [done EXCEPT ![b] = FALSE]
    <3>1. staged' \in [Assets -> Nat]
      BY <1>t, <2>1, <2>3
    <3>2. done' \in [Assets -> BOOLEAN]
      BY <1>t, <2>1, <2>3
    <3>3. QED
      BY <1>t, <2>2, <3>1, <3>2
  <2>4. CASE staged' = staged /\ done' = [done EXCEPT ![b] = TRUE]
    BY <1>t, <2>1, <2>2, <2>4
  <2>5. QED
    BY <2>2, <2>3, <2>4
<1>11. CASE ConsumeGrowth(p)
  BY <1>t, <1>11 DEF ConsumeGrowth
<1>12. CASE Promote(p)
  BY <1>t, <1>12, <1>g, <1>o DEF Promote
<1>13. CASE Finalize(p)
  BY <1>t, <1>13 DEF Finalize
<1>14. CASE Release(p)
  BY <1>t, <1>14 DEF Release, Leave, Unlocked
<1>15. CASE LockRemove(p)
  BY <1>t, <1>15 DEF LockRemove, Held
<1>16. CASE RemoveFiles(p)
  BY <1>t, <1>16 DEF RemoveFiles, Erased
<1>17. CASE DropRemoved(p)
  BY <1>t, <1>17 DEF DropRemoved, Delete, Unlocked
<1>18. CASE Crash(p)
  BY <1>t, <1>18 DEF Crash, Leave, Unlocked
<1>19. ASSUME NEW g \in Games, LookAgain(p, g) PROVE Media'
  BY <1>t, <1>19 DEF LookAgain, Forgets
<1>20. ASSUME NEW a \in Assets, PlanAsset(p, a) PROVE Media'
  BY <1>t, <1>20 DEF PlanAsset
<1>21. ASSUME NEW a \in Assets, Protect(p, a) PROVE Media'
  BY <1>t, <1>21 DEF Protect
<1>22. ASSUME NEW checkpoint \in 0 .. Quota, Resume(p, checkpoint) PROVE Media'
  BY <1>t, <1>22 DEF Resume
<1>23. ASSUME NEW g \in Games, Request(p, g) PROVE Media'
  BY <1>t, <1>23 DEF Request, Held
<1>24. ASSUME NEW g \in Games, AskRemove(p, g) PROVE Media'
  BY <1>t, <1>24 DEF AskRemove
<1>25. ASSUME NEW status \in {"failed", "incomplete"}, Fail(p, status) PROVE Media'
  BY <1>t, <1>25 DEF Fail, Leave, Unlocked, Marked
<1>26. CASE Reads(p)
  BY <1>t, <1>26 DEF Reads, ReadFinal, ReadStaging, ReadReserved, Enough, Forgets
<1>27. CASE DiscardStaging(p)
  BY <1>t, <1>27 DEF DiscardStaging, Discard
<1>28. QED
  BY <1>1, <1>2, <1>3, <1>4, <1>5, <1>6, <1>7, <1>8, <1>9, <1>10, <1>11, <1>12, <1>13, <1>14,
     <1>15, <1>16, <1>17, <1>18, <1>19, <1>20, <1>21, <1>22, <1>23, <1>24, <1>25, <1>26,
     <1>27 DEF Acts,
     Program, Reads

LEMMA HoldersKept ==
    ASSUME ShapeSound, NEW p \in Procs, Acts(p)
    PROVE  Holders'
<1> USE DEF db, files, plan, reservations, locks, user, sight, count, At, Holders
<1>t. Holders
  BY DEF ShapeSound
<1>1. CASE EnterAdmission(p)
  BY <1>t, <1>1 DEF EnterAdmission
<1>2. CASE DropEntry(p)
  BY <1>t, <1>2 DEF DropEntry, Delete
<1>3. CASE Admit(p)
  BY <1>t, <1>3 DEF Admit
<1>4. CASE Refuse(p)
  BY <1>t, <1>4 DEF Refuse, Unlocked
<1>5. CASE Enter(p)
  BY <1>t, <1>5 DEF Enter
<1>6. CASE ReplaceMembership(p)
  BY <1>t, <1>6 DEF ReplaceMembership
<1>7. CASE MembershipRefused(p)
  BY <1>t, <1>7 DEF MembershipRefused, Leave, Unlocked
<1>8. CASE Evict(p)
  BY <1>t, <1>8 DEF Evict, Erased, Held
<1>9. CASE Cut(p)
  BY <1>t, <1>9 DEF Cut
<1>10. CASE Copy(p)
  BY <1>t, <1>10 DEF Copy
<1>11. CASE ConsumeGrowth(p)
  BY <1>t, <1>11 DEF ConsumeGrowth
<1>12. CASE Promote(p)
  BY <1>t, <1>12 DEF Promote
<1>13. CASE Finalize(p)
  BY <1>t, <1>13 DEF Finalize
<1>14. CASE Release(p)
  BY <1>t, <1>14 DEF Release, Leave, Unlocked
<1>15. CASE LockRemove(p)
  BY <1>t, <1>15 DEF LockRemove, Held
<1>16. CASE RemoveFiles(p)
  BY <1>t, <1>16 DEF RemoveFiles, Erased
<1>17. CASE DropRemoved(p)
  BY <1>t, <1>17 DEF DropRemoved, Delete, Unlocked
<1>18. CASE Crash(p)
  BY <1>t, <1>18 DEF Crash, Leave, Unlocked
<1>19. ASSUME NEW g \in Games, LookAgain(p, g) PROVE Holders'
  BY <1>t, <1>19 DEF LookAgain, Forgets
<1>20. ASSUME NEW a \in Assets, PlanAsset(p, a) PROVE Holders'
  BY <1>t, <1>20 DEF PlanAsset
<1>21. ASSUME NEW a \in Assets, Protect(p, a) PROVE Holders'
  BY <1>t, <1>21 DEF Protect
<1>22. ASSUME NEW checkpoint \in 0 .. Quota, Resume(p, checkpoint) PROVE Holders'
  BY <1>t, <1>22 DEF Resume
<1>23. ASSUME NEW g \in Games, Request(p, g) PROVE Holders'
  BY <1>t, <1>23 DEF Request, Held
<1>24. ASSUME NEW g \in Games, AskRemove(p, g) PROVE Holders'
  BY <1>t, <1>24 DEF AskRemove
<1>25. ASSUME NEW status \in {"failed", "incomplete"}, Fail(p, status) PROVE Holders'
  BY <1>t, <1>25 DEF Fail, Leave, Unlocked, Marked
<1>26. CASE Reads(p)
  BY <1>t, <1>26 DEF Reads, ReadFinal, ReadStaging, ReadReserved, Enough, Forgets
<1>27. CASE DiscardStaging(p)
  BY <1>t, <1>27 DEF DiscardStaging, Discard
<1>28. QED
  BY <1>1, <1>2, <1>3, <1>4, <1>5, <1>6, <1>7, <1>8, <1>9, <1>10, <1>11, <1>12, <1>13, <1>14,
     <1>15, <1>16, <1>17, <1>18, <1>19, <1>20, <1>21, <1>22, <1>23, <1>24, <1>25, <1>26,
     <1>27 DEF Acts,
     Program, Reads

LEMMA ShapeKept ==
    ASSUME ShapeSound, NEW p \in Procs, LocksOf(p), StagedOf(p), Acts(p)
    PROVE  ShapeSound'
<1> DEFINE Tallied == faults' \in Nat /\ launch' = launch /\ control' = control
<1>1. Tables' /\ Media' /\ Holders' /\ MemoryOf(p)
  BY TablesKept, MediaKept, HoldersKept, ActsMemory
<1>2. Tallied
  <2> USE DEF db, files, plan, reservations, locks, user, sight, count
  <2>t. faults \in Nat
    BY DEF ShapeSound
  <2>1. CASE EnterAdmission(p)
    BY <2>t, <2>1 DEF EnterAdmission
  <2>2. CASE DropEntry(p)
    BY <2>t, <2>2 DEF DropEntry, Delete
  <2>3. CASE Admit(p)
    BY <2>t, <2>3 DEF Admit
  <2>4. CASE Refuse(p)
    BY <2>t, <2>4 DEF Refuse, Unlocked
  <2>5. CASE Enter(p)
    BY <2>t, <2>5 DEF Enter
  <2>6. CASE ReplaceMembership(p)
    BY <2>t, <2>6 DEF ReplaceMembership
  <2>7. CASE MembershipRefused(p)
    BY <2>t, <2>7 DEF MembershipRefused, Leave, Unlocked
  <2>8. CASE Evict(p)
    BY <2>t, <2>8 DEF Evict, Erased, Held
  <2>9. CASE Cut(p)
    BY <2>t, <2>9 DEF Cut
  <2>10. CASE Copy(p)
    BY <2>t, <2>10 DEF Copy
  <2>11. CASE ConsumeGrowth(p)
    BY <2>t, <2>11 DEF ConsumeGrowth
  <2>12. CASE Promote(p)
    BY <2>t, <2>12 DEF Promote
  <2>13. CASE Finalize(p)
    BY <2>t, <2>13 DEF Finalize
  <2>14. CASE Release(p)
    BY <2>t, <2>14 DEF Release, Leave, Unlocked
  <2>15. CASE LockRemove(p)
    BY <2>t, <2>15 DEF LockRemove, Held
  <2>16. CASE RemoveFiles(p)
    BY <2>t, <2>16 DEF RemoveFiles, Erased
  <2>17. CASE DropRemoved(p)
    BY <2>t, <2>17 DEF DropRemoved, Delete, Unlocked
  <2>18. CASE Crash(p)
    BY <2>t, <2>18 DEF Crash, Leave, Unlocked
  <2>19. ASSUME NEW g \in Games, LookAgain(p, g) PROVE Tallied
    BY <2>t, <2>19 DEF LookAgain, Forgets
  <2>20. ASSUME NEW a \in Assets, PlanAsset(p, a) PROVE Tallied
    BY <2>t, <2>20 DEF PlanAsset
  <2>21. ASSUME NEW a \in Assets, Protect(p, a) PROVE Tallied
    BY <2>t, <2>21 DEF Protect
  <2>22. ASSUME NEW checkpoint \in 0 .. Quota, Resume(p, checkpoint) PROVE Tallied
    BY <2>t, <2>22 DEF Resume
  <2>23. ASSUME NEW g \in Games, Request(p, g) PROVE Tallied
    BY <2>t, <2>23 DEF Request, Held
  <2>24. ASSUME NEW g \in Games, AskRemove(p, g) PROVE Tallied
    BY <2>t, <2>24 DEF AskRemove
  <2>25. ASSUME NEW status \in {"failed", "incomplete"}, Fail(p, status) PROVE Tallied
    BY <2>t, <2>25 DEF Fail, Leave, Unlocked, Marked
  <2>26. CASE Reads(p)
    BY <2>t, <2>26 DEF Reads, ReadFinal, ReadStaging, ReadReserved, Enough, Forgets
  <2>27. CASE DiscardStaging(p)
    BY <2>t, <2>27 DEF DiscardStaging, Discard
  <2>28. QED
    BY <2>1, <2>2, <2>3, <2>4, <2>5, <2>6, <2>7, <2>8, <2>9, <2>10, <2>11, <2>12, <2>13, <2>14,
       <2>15, <2>16, <2>17, <2>18, <2>19, <2>20, <2>21, <2>22, <2>23, <2>24, <2>25, <2>26,
       <2>27 DEF Acts,
       Program, Reads
<1>3. QED
  BY <1>1, <1>2 DEF ShapeSound, Tables, Media, Holders, MemoryOf

\* What a process does spares the assets that others have locked, and the members of
\* the games they work for.
SparesFiles(p) == \A a \in Assets : lock[a] # p /\ lock[a] # Nobody =>
    /\ lock'[a] = lock[a]
    /\ staged'[a] = staged[a] /\ done'[a] = done[a] /\ final'[a] = final[a]
    /\ manifest'[a] = manifest[a]
SparesMembers(p) == \A g \in Games : member'[g] = member[g] \/ LockedBy(p, Closure[g])
OnlyMore == stray \subseteq stray' /\ unplanned \subseteq unplanned' /\ (faults' = 0 => faults = 0)

LEMMA FilesSpared ==
    ASSUME ShapeSound, NEW p \in Procs, LocksOf(p), Acts(p)
    PROVE  SparesFiles(p)
<1> USE DEF db, files, plan, reservations, locks, user, sight, count, At
<1>t. Media /\ Holders
  BY DEF ShapeSound, Media, Holders
<1>l. /\ work[p].pc \in OnAsset => lock[work[p].asset] = p
      /\ work[p].pc \in OnAsset \cup {"plan", "release"} =>
           work[p].game \in Games /\ LockedBy(p, Closure[work[p].game])
      /\ At(p, "plan") => work[p].todo \subseteq Closure[work[p].game]
      /\ At(p, "take") => work[p].target \in Games
      /\ work[p].pc \in {"rmdiscard", "rmfiles"} =>
           work[p].target \in Games /\ LockedBy(p, Closure[work[p].target])
  BY DEF LocksOf, OnAsset, Planned, Working, Admitting, Transferring, LockedBy
<1>r. \A g \in Games : Removable(g) \subseteq Closure[g]
  BY RemovableInClosure
<1>o. OnAsset = {"resume", "cut", "copy", "count", "move"}
  BY DEF OnAsset
<1>1. CASE EnterAdmission(p)
  BY <1>t, <1>l, <1>o, <1>1 DEF EnterAdmission, SparesFiles, Media, Holders, LockedBy
<1>2. CASE DropEntry(p)
  BY <1>t, <1>l, <1>o, <1>2 DEF DropEntry, Delete, SparesFiles, Media, Holders, LockedBy
<1>3. CASE Admit(p)
  BY <1>t, <1>l, <1>o, <1>3 DEF Admit, SparesFiles, Media, Holders, LockedBy
<1>4. CASE Refuse(p)
  BY <1>t, <1>l, <1>o, <1>4 DEF Refuse, Unlocked, SparesFiles, Media, Holders, LockedBy
<1>5. CASE Enter(p)
  BY <1>t, <1>l, <1>o, <1>5 DEF Enter, SparesFiles, Media, Holders, LockedBy
<1>6. CASE ReplaceMembership(p)
  BY <1>t, <1>l, <1>o, <1>6 DEF ReplaceMembership, SparesFiles, Media, Holders, LockedBy
<1>7. CASE MembershipRefused(p)
  BY <1>t, <1>l, <1>o, <1>7 DEF MembershipRefused, Leave, Unlocked, SparesFiles, Media,
       Holders, LockedBy
<1>8. CASE Evict(p)
  BY <1>t, <1>l, <1>o, <1>8, <1>r DEF Evict, Erased, Held, Free, SparesFiles, Media, Holders,
       LockedBy
<1>9. CASE Cut(p)
  BY <1>t, <1>l, <1>o, <1>9 DEF Cut, SparesFiles, Media, Holders, LockedBy
<1>10. CASE Copy(p)
  BY <1>t, <1>l, <1>o, <1>10 DEF Copy, SparesFiles, Media, Holders, LockedBy
<1>11. CASE ConsumeGrowth(p)
  BY <1>t, <1>l, <1>o, <1>11 DEF ConsumeGrowth, SparesFiles, Media, Holders, LockedBy
<1>12. CASE Promote(p)
  BY <1>t, <1>l, <1>o, <1>12 DEF Promote, SparesFiles, Media, Holders, LockedBy
<1>13. CASE Finalize(p)
  BY <1>t, <1>l, <1>o, <1>13 DEF Finalize, SparesFiles, Media, Holders, LockedBy
<1>14. CASE Release(p)
  BY <1>t, <1>l, <1>o, <1>14 DEF Release, Leave, Unlocked, SparesFiles, Media, Holders, LockedBy
<1>15. CASE LockRemove(p)
  BY <1>t, <1>l, <1>o, <1>15 DEF LockRemove, Held, Free, SparesFiles, Media, Holders, LockedBy
<1>16. CASE RemoveFiles(p)
  BY <1>t, <1>l, <1>o, <1>16, <1>r DEF RemoveFiles, Erased, SparesFiles, Media, Holders,
       LockedBy
<1>17. CASE DropRemoved(p)
  BY <1>t, <1>l, <1>o, <1>17 DEF DropRemoved, Delete, Unlocked, SparesFiles, Media, Holders,
       LockedBy
<1>18. CASE Crash(p)
  BY <1>t, <1>l, <1>o, <1>18 DEF Crash, Leave, Unlocked, SparesFiles, Media, Holders, LockedBy
<1>19. ASSUME NEW g \in Games, LookAgain(p, g) PROVE SparesFiles(p)
  BY <1>t, <1>l, <1>o, <1>19 DEF LookAgain, Forgets, SparesFiles, Media, Holders, LockedBy
<1>20. ASSUME NEW a \in Assets, PlanAsset(p, a) PROVE SparesFiles(p)
  BY <1>t, <1>l, <1>o, <1>20 DEF PlanAsset, SparesFiles, Media, Holders, LockedBy
<1>21. ASSUME NEW a \in Assets, Protect(p, a) PROVE SparesFiles(p)
  BY <1>t, <1>l, <1>o, <1>21 DEF Protect, SparesFiles, Media, Holders, LockedBy
<1>22. ASSUME NEW checkpoint \in 0 .. Quota, Resume(p, checkpoint) PROVE SparesFiles(p)
  BY <1>t, <1>l, <1>o, <1>22 DEF Resume, SparesFiles, Media, Holders, LockedBy
<1>23. ASSUME NEW g \in Games, Request(p, g) PROVE SparesFiles(p)
  BY <1>t, <1>l, <1>o, <1>23 DEF Request, Held, Free, SparesFiles, Media, Holders, LockedBy
<1>24. ASSUME NEW g \in Games, AskRemove(p, g) PROVE SparesFiles(p)
  BY <1>t, <1>l, <1>o, <1>24 DEF AskRemove, SparesFiles, Media, Holders, LockedBy
<1>25. ASSUME NEW status \in {"failed", "incomplete"}, Fail(p, status) PROVE SparesFiles(p)
  BY <1>t, <1>l, <1>o, <1>25 DEF Fail, Leave, Unlocked, Marked, SparesFiles, Media, Holders,
       LockedBy
<1>26. CASE Reads(p)
  BY <1>t, <1>l, <1>o, <1>26 DEF Reads, ReadFinal, ReadStaging, ReadReserved, Enough, Forgets,
       SparesFiles, Media, Holders, LockedBy
<1>27. CASE DiscardStaging(p)
  BY <1>t, <1>l, <1>o, <1>27, <1>r DEF DiscardStaging, Discard, SparesFiles, Media, Holders,
       LockedBy
<1>28. QED
  BY <1>1, <1>2, <1>3, <1>4, <1>5, <1>6, <1>7, <1>8, <1>9, <1>10, <1>11, <1>12, <1>13, <1>14,
     <1>15, <1>16, <1>17, <1>18, <1>19, <1>20, <1>21, <1>22, <1>23, <1>24, <1>25, <1>26,
     <1>27 DEF Acts,
     Program, Reads

LEMMA MembersSpared ==
    ASSUME ShapeSound, NEW p \in Procs, LocksOf(p), Acts(p)
    PROVE  SparesMembers(p)
<1> USE DEF db, files, plan, reservations, locks, user, sight, count, At
<1>t. DOMAIN member = Games
  BY DEF ShapeSound
<1>l. /\ work[p].pc \in {"members", "plan"} =>
           work[p].game \in Games /\ LockedBy(p, Closure[work[p].game])
      /\ work[p].pc \in {"drop", "rmdrop"} =>
           work[p].target \in Games /\ LockedBy(p, Closure[work[p].target])
  BY DEF LocksOf, Working, Admitting, Transferring
<1>1. CASE EnterAdmission(p)
  BY <1>t, <1>l, <1>1 DEF EnterAdmission, SparesMembers
<1>2. CASE DropEntry(p)
  BY <1>t, <1>l, <1>2 DEF DropEntry, Delete, SparesMembers
<1>3. CASE Admit(p)
  BY <1>t, <1>l, <1>3 DEF Admit, SparesMembers
<1>4. CASE Refuse(p)
  BY <1>t, <1>l, <1>4 DEF Refuse, Unlocked, SparesMembers
<1>5. CASE Enter(p)
  BY <1>t, <1>l, <1>5 DEF Enter, SparesMembers
<1>6. CASE ReplaceMembership(p)
  BY <1>t, <1>l, <1>6 DEF ReplaceMembership, SparesMembers
<1>7. CASE MembershipRefused(p)
  BY <1>t, <1>l, <1>7 DEF MembershipRefused, Leave, Unlocked, SparesMembers
<1>8. CASE Evict(p)
  BY <1>t, <1>l, <1>8 DEF Evict, Erased, Held, SparesMembers
<1>9. CASE Cut(p)
  BY <1>t, <1>l, <1>9 DEF Cut, SparesMembers
<1>10. CASE Copy(p)
  BY <1>t, <1>l, <1>10 DEF Copy, SparesMembers
<1>11. CASE ConsumeGrowth(p)
  BY <1>t, <1>l, <1>11 DEF ConsumeGrowth, SparesMembers
<1>12. CASE Promote(p)
  BY <1>t, <1>l, <1>12 DEF Promote, SparesMembers
<1>13. CASE Finalize(p)
  BY <1>t, <1>l, <1>13 DEF Finalize, SparesMembers
<1>14. CASE Release(p)
  BY <1>t, <1>l, <1>14 DEF Release, Leave, Unlocked, SparesMembers
<1>15. CASE LockRemove(p)
  BY <1>t, <1>l, <1>15 DEF LockRemove, Held, SparesMembers
<1>16. CASE RemoveFiles(p)
  BY <1>t, <1>l, <1>16 DEF RemoveFiles, Erased, SparesMembers
<1>17. CASE DropRemoved(p)
  BY <1>t, <1>l, <1>17 DEF DropRemoved, Delete, Unlocked, SparesMembers
<1>18. CASE Crash(p)
  BY <1>t, <1>l, <1>18 DEF Crash, Leave, Unlocked, SparesMembers
<1>19. ASSUME NEW g \in Games, LookAgain(p, g) PROVE SparesMembers(p)
  BY <1>t, <1>l, <1>19 DEF LookAgain, Forgets, SparesMembers
<1>20. ASSUME NEW a \in Assets, PlanAsset(p, a) PROVE SparesMembers(p)
  BY <1>t, <1>l, <1>20 DEF PlanAsset, SparesMembers
<1>21. ASSUME NEW a \in Assets, Protect(p, a) PROVE SparesMembers(p)
  BY <1>t, <1>l, <1>21 DEF Protect, SparesMembers
<1>22. ASSUME NEW checkpoint \in 0 .. Quota, Resume(p, checkpoint) PROVE SparesMembers(p)
  BY <1>t, <1>l, <1>22 DEF Resume, SparesMembers
<1>23. ASSUME NEW g \in Games, Request(p, g) PROVE SparesMembers(p)
  BY <1>t, <1>l, <1>23 DEF Request, Held, SparesMembers
<1>24. ASSUME NEW g \in Games, AskRemove(p, g) PROVE SparesMembers(p)
  BY <1>t, <1>l, <1>24 DEF AskRemove, SparesMembers
<1>25. ASSUME NEW status \in {"failed", "incomplete"}, Fail(p, status) PROVE SparesMembers(p)
  BY <1>t, <1>l, <1>25 DEF Fail, Leave, Unlocked, Marked, SparesMembers
<1>26. CASE Reads(p)
  BY <1>t, <1>l, <1>26 DEF Reads, ReadFinal, ReadStaging, ReadReserved, Enough, Forgets,
       SparesMembers
<1>27. CASE DiscardStaging(p)
  BY <1>t, <1>l, <1>27 DEF DiscardStaging, Discard, SparesMembers
<1>28. QED
  BY <1>1, <1>2, <1>3, <1>4, <1>5, <1>6, <1>7, <1>8, <1>9, <1>10, <1>11, <1>12, <1>13, <1>14,
     <1>15, <1>16, <1>17, <1>18, <1>19, <1>20, <1>21, <1>22, <1>23, <1>24, <1>25, <1>26,
     <1>27 DEF Acts,
     Program, Reads

LEMMA OnlyMoreGoesAstray ==
    ASSUME ShapeSound, NEW p \in Procs, Acts(p)
    PROVE  OnlyMore
<1> USE DEF db, files, plan, reservations, locks, user, sight, count, At
<1>t. faults \in Nat
  BY DEF ShapeSound
<1>1. CASE EnterAdmission(p)
  BY <1>t, <1>1 DEF EnterAdmission, OnlyMore
<1>2. CASE DropEntry(p)
  BY <1>t, <1>2 DEF DropEntry, Delete, OnlyMore
<1>3. CASE Admit(p)
  BY <1>t, <1>3 DEF Admit, OnlyMore
<1>4. CASE Refuse(p)
  BY <1>t, <1>4 DEF Refuse, Unlocked, OnlyMore
<1>5. CASE Enter(p)
  BY <1>t, <1>5 DEF Enter, OnlyMore
<1>6. CASE ReplaceMembership(p)
  BY <1>t, <1>6 DEF ReplaceMembership, OnlyMore
<1>7. CASE MembershipRefused(p)
  BY <1>t, <1>7 DEF MembershipRefused, Leave, Unlocked, OnlyMore
<1>8. CASE Evict(p)
  BY <1>t, <1>8 DEF Evict, Erased, Held, OnlyMore
<1>9. CASE Cut(p)
  BY <1>t, <1>9 DEF Cut, OnlyMore
<1>10. CASE Copy(p)
  BY <1>t, <1>10 DEF Copy, OnlyMore
<1>11. CASE ConsumeGrowth(p)
  BY <1>t, <1>11 DEF ConsumeGrowth, OnlyMore
<1>12. CASE Promote(p)
  BY <1>t, <1>12 DEF Promote, OnlyMore
<1>13. CASE Finalize(p)
  BY <1>t, <1>13 DEF Finalize, OnlyMore
<1>14. CASE Release(p)
  BY <1>t, <1>14 DEF Release, Leave, Unlocked, OnlyMore
<1>15. CASE LockRemove(p)
  BY <1>t, <1>15 DEF LockRemove, Held, OnlyMore
<1>16. CASE RemoveFiles(p)
  BY <1>t, <1>16 DEF RemoveFiles, Erased, OnlyMore
<1>17. CASE DropRemoved(p)
  BY <1>t, <1>17 DEF DropRemoved, Delete, Unlocked, OnlyMore
<1>18. CASE Crash(p)
  BY <1>t, <1>18 DEF Crash, Leave, Unlocked, OnlyMore
<1>19. ASSUME NEW g \in Games, LookAgain(p, g) PROVE OnlyMore
  BY <1>t, <1>19 DEF LookAgain, Forgets, OnlyMore
<1>20. ASSUME NEW a \in Assets, PlanAsset(p, a) PROVE OnlyMore
  BY <1>t, <1>20 DEF PlanAsset, OnlyMore
<1>21. ASSUME NEW a \in Assets, Protect(p, a) PROVE OnlyMore
  BY <1>t, <1>21 DEF Protect, OnlyMore
<1>22. ASSUME NEW checkpoint \in 0 .. Quota, Resume(p, checkpoint) PROVE OnlyMore
  BY <1>t, <1>22 DEF Resume, OnlyMore
<1>23. ASSUME NEW g \in Games, Request(p, g) PROVE OnlyMore
  BY <1>t, <1>23 DEF Request, Held, OnlyMore
<1>24. ASSUME NEW g \in Games, AskRemove(p, g) PROVE OnlyMore
  BY <1>t, <1>24 DEF AskRemove, OnlyMore
<1>25. ASSUME NEW status \in {"failed", "incomplete"}, Fail(p, status) PROVE OnlyMore
  BY <1>t, <1>25 DEF Fail, Leave, Unlocked, Marked, OnlyMore
<1>26. CASE Reads(p)
  BY <1>t, <1>26 DEF Reads, ReadFinal, ReadStaging, ReadReserved, Enough, Forgets, OnlyMore
<1>27. CASE DiscardStaging(p)
  BY <1>t, <1>27 DEF DiscardStaging, Discard, OnlyMore
<1>28. QED
  BY <1>1, <1>2, <1>3, <1>4, <1>5, <1>6, <1>7, <1>8, <1>9, <1>10, <1>11, <1>12, <1>13, <1>14,
     <1>15, <1>16, <1>17, <1>18, <1>19, <1>20, <1>21, <1>22, <1>23, <1>24, <1>25, <1>26,
     <1>27 DEF Acts,
     Program, Reads

\* What a process may count on while others act, and while files are damaged and
\* entries forgotten.
Spared(q) ==
    /\ work'[q] = work[q]
    /\ \A a \in Assets : lock[a] = q =>
         /\ lock'[a] = q /\ staged'[a] = staged[a] /\ done'[a] = done[a]
         /\ manifest'[a] = manifest[a]
         /\ final'[a] = final[a] \/ (final'[a] < final[a] /\ faults' # 0 /\ unplanned' # {})
    /\ \A g \in Games : (\E a \in Closure[g] : lock[a] = q) =>
         \/ member'[g] = member[g]
         \/ member'[g] = NoMembers /\ \A a \in DOMAIN member[g] : lock[a] = q => a \in stray'
    /\ OnlyMore

LEMMA OthersSpared ==
    ASSUME ShapeSound, NEW p \in Procs, LocksOf(p), Acts(p), NEW q \in Procs, q # p
    PROVE  Spared(q)
<1>1. work'[q] = work[q]
  BY ActsMemory DEF MemoryOf
<1>2. \A a \in Assets : lock[a] = q =>
         /\ lock'[a] = q /\ staged'[a] = staged[a] /\ done'[a] = done[a] /\ final'[a] = final[a]
         /\ manifest'[a] = manifest[a]
  BY FilesSpared DEF SparesFiles
<1>3. ASSUME NEW g \in Games, \E a \in Closure[g] : lock[a] = q PROVE member'[g] = member[g]
  <2>1. ~LockedBy(p, Closure[g])
    BY <1>3 DEF LockedBy
  <2>2. QED
    BY <2>1, MembersSpared DEF SparesMembers
<1>4. QED
  BY <1>1, <1>2, <1>3, OnlyMoreGoesAstray DEF Spared

LEMMA BesideSound ==
    ASSUME ShapeSound, Beside
    PROVE  ShapeSound' /\ \A q \in Procs : Spared(q)
<1> USE DEF db, files, plan, reservations, locks, user, sight, count, At, ShapeSound, Spared,
OnlyMore
<1>1. ASSUME NEW p \in Procs, LaunchEnds(p) PROVE ShapeSound' /\ \A q \in Procs : Spared(q)
  BY <1>1 DEF LaunchEnds
<1>2. ASSUME NEW p \in Procs, NEW g \in Games, MarkLaunched(p, g)
      PROVE  ShapeSound' /\ \A q \in Procs : Spared(q)
  BY <1>2 DEF MarkLaunched
<1>3. ASSUME NEW a \in Assets, DiscardPartial(a) PROVE ShapeSound' /\ \A q \in Procs : Spared(q)
  BY <1>3 DEF DiscardPartial, Discard
<1>4. ASSUME NEW a \in Assets, Damage(a) PROVE ShapeSound' /\ \A q \in Procs : Spared(q)
  <2>1. faults' \in Nat /\ faults' # 0
    BY <1>4 DEF Damage
  <2>2. final' \in [Assets -> Nat]
    <3>1. PICK n \in 0 .. final[a] - 1 : final' = [final EXCEPT ![a] = n]
      BY <1>4 DEF Damage
    <3>2. QED
      BY <3>1
  <2>3. ShapeSound'
    BY <1>4, <2>1, <2>2 DEF Damage
  <2>4. ASSUME NEW q \in Procs, NEW b \in Assets, lock[b] = q
        PROVE  final'[b] = final[b] \/ (final'[b] < final[b] /\ unplanned' # {})
    <3>1. PICK n \in 0 .. final[a] - 1 : final' = [final EXCEPT ![a] = n]
      BY <1>4 DEF Damage
    <3>2. CASE a = b
      BY <1>4, <2>4, <3>1, <3>2 DEF Damage
    <3>3. CASE a # b
      BY <3>1, <3>3
    <3>4. QED
      BY <3>2, <3>3
  <2>5. UNCHANGED <<work, lock, staged, done, manifest, member, stray>> /\ unplanned \subseteq unplanned'
    BY <1>4 DEF Damage
  <2>6. QED
    BY <2>1, <2>3, <2>4, <2>5
<1>5. ASSUME NEW g \in Games, PinRead(g) \/ UnpinRead(g)
      PROVE  ShapeSound' /\ \A q \in Procs : Spared(q)
  <2>0. PICK op : control' = [op |-> op, game |-> g]
    BY <1>5 DEF PinRead, UnpinRead
  <2>1. /\ control'.game = g /\ launch' = launch /\ work' = work /\ faults' = faults
        /\ stray' = stray /\ unplanned' = unplanned
    BY <1>5, <2>0 DEF PinRead, UnpinRead
  <2>2. UNCHANGED <<entry, pin, member, manifest, done, final, staged, lock>>
    BY <1>5 DEF PinRead, UnpinRead
  <2>3. QED
    BY <2>1, <2>2
<1>6. CASE ControlWrite
  <2> DEFINE g == control.game
  <2>1. /\ g \in Games /\ UNCHANGED <<manifest, done, final, staged, lock, work, faults, launch>>
        /\ control' = NoControl /\ unplanned' = unplanned
    BY <1>6 DEF ControlWrite
  <2>2. ASSUME entry' = [entry EXCEPT ![g] = "incomplete"], pin' = [pin EXCEPT ![g] = TRUE],
               UNCHANGED <<member, stray>>
        PROVE  ShapeSound' /\ \A q \in Procs : Spared(q)
    BY <2>1, <2>2
  <2>3. ASSUME stray' = stray \cup {a \in DOMAIN member[g] : final[a] > 0 \/ lock[a] # Nobody},
               Delete(g)
        PROVE  ShapeSound' /\ \A q \in Procs : Spared(q)
    <3>1. ShapeSound'
      BY <2>1, <2>3 DEF Delete
    <3>2. ASSUME NEW q \in Procs, NEW h \in Games
          PROVE  \/ member'[h] = member[h]
                 \/ member'[h] = NoMembers /\ \A a \in DOMAIN member[h] : lock[a] = q => a \in stray'
      BY <2>1, <2>3 DEF Delete
    <3>3. QED
      BY <2>1, <2>3, <3>1, <3>2
  <2>4. ASSUME UNCHANGED <<entry, member, stray>>, NEW b, pin' = [pin EXCEPT ![g] = b]
        PROVE  ShapeSound' /\ \A q \in Procs : Spared(q)
    BY <2>1, <2>4
  <2>5. QED
    BY <1>6, <2>2, <2>3, <2>4 DEF ControlWrite
<1>7. QED
  BY <1>1, <1>2, <1>3, <1>4, <1>5, <1>6 DEF Beside

LEMMA SparedKeeps ==
    ASSUME ShapeSound, NEW q \in Procs, ProcSound(q), Spared(q)
    PROVE  ProcSound(q)'
<1> DEFINE g == work[q].game
<1>1. work'[q] = work[q]
  BY DEF Spared
<1>2. LocksOf(q)'
  BY <1>1 DEF LocksOf, ProcSound, Spared, LockedBy, At
<1>3. StagedOf(q)'
  BY <1>1 DEF StagedOf, ProcSound, LocksOf, Spared, LockedBy, At, OnAsset, Working, Admitting,
       Transferring
<1>4. ProgressOf(q)'
  BY <1>1 DEF ProgressOf, ProcSound, LocksOf, Spared, OnlyMore, LockedBy, At, Planned, OnAsset,
       Working, Admitting, Transferring, Intact
<1>5. EntryOf(q)'
  <2>1. SUFFICES ASSUME work[q].pc \in Planned, member'[g] = NoMembers
                 PROVE  Closure[g] \subseteq stray'
    BY <1>1 DEF EntryOf
  <2>2. g \in Games /\ LockedBy(q, Closure[g]) /\ stray \subseteq stray'
    BY <2>1 DEF ProcSound, LocksOf, Planned, OnAsset, Working, Admitting, Transferring, Spared,
         OnlyMore
  <2>3. CASE member[g] = NoMembers
    BY <2>1, <2>2, <2>3 DEF ProcSound, EntryOf
  <2>4. CASE member[g] # NoMembers
    <3>1. DOMAIN member[g] = Closure[g]
      BY <2>2, <2>4 DEF ShapeSound
    <3>2. PICK a \in Closure[g] : lock[a] = q
      BY <2>2 DEF LockedBy
    <3>3. QED
      BY <2>1, <2>2, <2>4, <3>1, <3>2 DEF Spared, LockedBy
  <2>5. QED
    BY <2>3, <2>4
<1>6. QED
  BY <1>2, <1>3, <1>4, <1>5 DEF ProcSound

LEMMA LocksOfKept ==
    ASSUME ShapeSound, NEW p \in Procs, LocksOf(p), Acts(p)
    PROVE  LocksOf(p)'
<1> USE DEF db, files, plan, reservations, locks, user, sight, count, At, Goto
<1>t. /\ DOMAIN work = Procs /\ DOMAIN work[p] = Fields
      /\ "pc" \in Fields /\ "game" \in Fields /\ "need" \in Fields /\ "left" \in Fields
      /\ "seen" \in Fields /\ "owed" \in Fields
      /\ "have" \in Fields /\ "asset" \in Fields /\ "keep" \in Fields /\ "todo" \in Fields
      /\ "cands" \in Fields /\ "target" \in Fields /\ "existing" \in Fields
  BY DEF ShapeSound, Fields
<1>l. lock \in [Assets -> Procs \cup {Nobody}]
  BY DEF ShapeSound
<1>s. Working = {"admit", "evict", "sized", "scanned", "summed", "take", "drop", "enter",
                 "release", "members", "plan", "resume", "cut", "copy", "count", "move"}
      /\ OnAsset = {"resume", "cut", "copy", "count", "move"}
      /\ Planned = {"resume", "cut", "copy", "count", "move", "plan"}
  BY DEF Working, Admitting, Transferring, OnAsset, Planned
<1>1. CASE EnterAdmission(p)
  BY <1>t, <1>l, <1>s, IdleShape, <1>1 DEF EnterAdmission, LocksOf, LockedBy
<1>2. CASE DropEntry(p)
  BY <1>t, <1>l, <1>s, IdleShape, <1>2 DEF DropEntry, Delete, LocksOf, LockedBy
<1>3. CASE Admit(p)
  BY <1>t, <1>l, <1>s, IdleShape, <1>3 DEF Admit, LocksOf, LockedBy
<1>4. CASE Refuse(p)
  BY <1>t, <1>l, <1>s, IdleShape, <1>4 DEF Refuse, Unlocked, LocksOf, LockedBy
<1>5. CASE Enter(p)
  BY <1>t, <1>l, <1>s, IdleShape, <1>5 DEF Enter, LocksOf, LockedBy
<1>6. CASE ReplaceMembership(p)
  BY <1>t, <1>l, <1>s, IdleShape, <1>6 DEF ReplaceMembership, LocksOf, LockedBy
<1>7. CASE MembershipRefused(p)
  BY <1>t, <1>l, <1>s, IdleShape, <1>7 DEF MembershipRefused, Leave, Unlocked, LocksOf, LockedBy
<1>8. CASE Evict(p)
  BY <1>t, <1>l, <1>s, IdleShape, <1>8 DEF Evict, Erased, Held, Free, LocksOf, LockedBy
<1>9. CASE Cut(p)
  BY <1>t, <1>l, <1>s, IdleShape, <1>9 DEF Cut, LocksOf, LockedBy
<1>10. CASE Copy(p)
  BY <1>t, <1>l, <1>s, IdleShape, <1>10 DEF Copy, LocksOf, LockedBy
<1>11. CASE ConsumeGrowth(p)
  BY <1>t, <1>l, <1>s, IdleShape, <1>11 DEF ConsumeGrowth, LocksOf, LockedBy
<1>12. CASE Promote(p)
  BY <1>t, <1>l, <1>s, IdleShape, <1>12 DEF Promote, LocksOf, LockedBy
<1>13. CASE Finalize(p)
  BY <1>t, <1>l, <1>s, IdleShape, <1>13 DEF Finalize, LocksOf, LockedBy
<1>14. CASE Release(p)
  BY <1>t, <1>l, <1>s, IdleShape, <1>14 DEF Release, Leave, Unlocked, LocksOf, LockedBy
<1>15. CASE LockRemove(p)
  BY <1>t, <1>l, <1>s, IdleShape, <1>15 DEF LockRemove, Held, Free, LocksOf, LockedBy
<1>16. CASE RemoveFiles(p)
  BY <1>t, <1>l, <1>s, IdleShape, <1>16 DEF RemoveFiles, Erased, LocksOf, LockedBy
<1>17. CASE DropRemoved(p)
  BY <1>t, <1>l, <1>s, IdleShape, <1>17 DEF DropRemoved, Delete, Unlocked, LocksOf, LockedBy
<1>18. CASE Crash(p)
  BY <1>t, <1>l, <1>s, IdleShape, <1>18 DEF Crash, Leave, Unlocked, LocksOf, LockedBy
<1>19. ASSUME NEW g \in Games, LookAgain(p, g) PROVE LocksOf(p)'
  BY <1>t, <1>l, <1>s, IdleShape, <1>19 DEF LookAgain, Forgets, LocksOf, LockedBy
<1>20. ASSUME NEW a \in Assets, PlanAsset(p, a) PROVE LocksOf(p)'
  BY <1>t, <1>l, <1>s, IdleShape, <1>20 DEF PlanAsset, LocksOf, LockedBy
<1>21. ASSUME NEW a \in Assets, Protect(p, a) PROVE LocksOf(p)'
  BY <1>t, <1>l, <1>s, IdleShape, <1>21 DEF Protect, Promotable, LocksOf, LockedBy
<1>22. ASSUME NEW checkpoint \in 0 .. Quota, Resume(p, checkpoint) PROVE LocksOf(p)'
  BY <1>t, <1>l, <1>s, IdleShape, <1>22 DEF Resume, LocksOf, LockedBy
<1>23. ASSUME NEW g \in Games, Request(p, g) PROVE LocksOf(p)'
  BY <1>t, <1>l, <1>s, IdleShape, <1>23 DEF Request, Held, Free, LocksOf, LockedBy
<1>24. ASSUME NEW g \in Games, AskRemove(p, g) PROVE LocksOf(p)'
  BY <1>t, <1>l, <1>s, IdleShape, <1>24 DEF AskRemove, LocksOf, LockedBy
<1>25. ASSUME NEW status \in {"failed", "incomplete"}, Fail(p, status) PROVE LocksOf(p)'
  BY <1>t, <1>l, <1>s, IdleShape, <1>25 DEF Fail, Transferring, Leave, Unlocked, Marked,
       LocksOf, LockedBy
<1>26. CASE Reads(p)
  BY <1>t, <1>l, <1>s, IdleShape, <1>26 DEF Reads, ReadFinal, ReadStaging, ReadReserved,
       Enough, Forgets, LocksOf, LockedBy
<1>27. CASE DiscardStaging(p)
  BY <1>t, <1>l, <1>s, IdleShape, <1>27 DEF DiscardStaging, Discard, LocksOf, LockedBy
<1>28. QED
  BY <1>1, <1>2, <1>3, <1>4, <1>5, <1>6, <1>7, <1>8, <1>9, <1>10, <1>11, <1>12, <1>13, <1>14,
     <1>15, <1>16, <1>17, <1>18, <1>19, <1>20, <1>21, <1>22, <1>23, <1>24, <1>25, <1>26,
     <1>27 DEF Acts,
     Program, Reads

LEMMA StagedOfKept ==
    ASSUME ShapeSound, FilesSound, NEW p \in Procs, LocksOf(p), StagedOf(p), Acts(p)
    PROVE  StagedOf(p)'
<1> USE DEF db, files, plan, reservations, locks, user, sight, count, At, Goto
<1>t. /\ DOMAIN work = Procs /\ DOMAIN work[p] = Fields
      /\ "pc" \in Fields /\ "game" \in Fields /\ "need" \in Fields /\ "left" \in Fields
      /\ "seen" \in Fields /\ "owed" \in Fields
      /\ "have" \in Fields /\ "asset" \in Fields /\ "keep" \in Fields /\ "todo" \in Fields
      /\ "cands" \in Fields /\ "target" \in Fields /\ "existing" \in Fields
  BY DEF ShapeSound, Fields
<1>s. Working = {"admit", "evict", "sized", "scanned", "summed", "take", "drop", "enter",
                 "release", "members", "plan", "resume", "cut", "copy", "count", "move"}
      /\ OnAsset = {"resume", "cut", "copy", "count", "move"}
      /\ Planned = {"resume", "cut", "copy", "count", "move", "plan"}
  BY DEF Working, Admitting, Transferring, OnAsset, Planned
<1>l. /\ work[p].pc \in Planned =>
           /\ work[p].game \in Games /\ Closure[work[p].game] \subseteq Assets
           /\ work[p].todo \subseteq Closure[work[p].game]
      /\ At(p, "members") => work[p].game \in Games /\ Closure[work[p].game] \subseteq Assets
      /\ work[p].pc \in OnAsset => work[p].asset \in Closure[work[p].game]
      /\ work[p].pc \in OnAsset \ {"move"} => work[p].asset \in work[p].todo
      /\ At(p, "move") => work[p].todo = {}
  BY <1>s DEF LocksOf
<1>m. Media
  BY DEF ShapeSound, Media
<1>1. CASE EnterAdmission(p)
  BY <1>t, <1>s, <1>l, <1>m, IdleShape, <1>1 DEF EnterAdmission, StagedOf, FilesSound, Media
<1>2. CASE DropEntry(p)
  BY <1>t, <1>s, <1>l, <1>m, IdleShape, <1>2 DEF DropEntry, Delete, StagedOf, FilesSound, Media
<1>3. CASE Admit(p)
  BY <1>t, <1>s, <1>l, <1>m, IdleShape, <1>3 DEF Admit, StagedOf, FilesSound, Media
<1>4. CASE Refuse(p)
  BY <1>t, <1>s, <1>l, <1>m, IdleShape, <1>4 DEF Refuse, Unlocked, StagedOf, FilesSound, Media
<1>5. CASE Enter(p)
  BY <1>t, <1>s, <1>l, <1>m, IdleShape, <1>5 DEF Enter, StagedOf, FilesSound, Media
<1>6. CASE ReplaceMembership(p)
  BY <1>t, <1>s, <1>l, <1>m, IdleShape, <1>6 DEF ReplaceMembership, StagedOf, FilesSound, Media
<1>7. CASE MembershipRefused(p)
  BY <1>t, <1>s, <1>l, <1>m, IdleShape, <1>7 DEF MembershipRefused, Leave, Unlocked, StagedOf,
       FilesSound, Media
<1>8. CASE Evict(p)
  BY <1>t, <1>s, <1>l, <1>m, IdleShape, <1>8 DEF Evict, Erased, Held, Free, StagedOf,
       FilesSound, Media
<1>9. CASE Cut(p)
  BY <1>t, <1>s, <1>l, <1>m, IdleShape, <1>9 DEF Cut, StagedOf, FilesSound, Media
<1>10. CASE Copy(p)
  BY <1>t, <1>s, <1>l, <1>m, IdleShape, <1>10 DEF Copy, StagedOf, FilesSound, Media
<1>11. CASE ConsumeGrowth(p)
  BY <1>t, <1>s, <1>l, <1>m, IdleShape, <1>11 DEF ConsumeGrowth, StagedOf, FilesSound, Media
<1>12. CASE Promote(p)
  BY <1>t, <1>s, <1>l, <1>m, IdleShape, <1>12 DEF Promote, StagedOf, FilesSound, Media
<1>13. CASE Finalize(p)
  BY <1>t, <1>s, <1>l, <1>m, IdleShape, <1>13 DEF Finalize, StagedOf, FilesSound, Media
<1>14. CASE Release(p)
  BY <1>t, <1>s, <1>l, <1>m, IdleShape, <1>14 DEF Release, Leave, Unlocked, StagedOf,
       FilesSound, Media
<1>15. CASE LockRemove(p)
  BY <1>t, <1>s, <1>l, <1>m, IdleShape, <1>15 DEF LockRemove, Held, Free, StagedOf,
       FilesSound, Media
<1>16. CASE RemoveFiles(p)
  BY <1>t, <1>s, <1>l, <1>m, IdleShape, <1>16 DEF RemoveFiles, Erased, StagedOf, FilesSound,
       Media
<1>17. CASE DropRemoved(p)
  BY <1>t, <1>s, <1>l, <1>m, IdleShape, <1>17 DEF DropRemoved, Delete, Unlocked, StagedOf,
       FilesSound, Media
<1>18. CASE Crash(p)
  BY <1>t, <1>s, <1>l, <1>m, IdleShape, <1>18 DEF Crash, Leave, Unlocked, StagedOf,
       FilesSound, Media
<1>19. ASSUME NEW g \in Games, LookAgain(p, g) PROVE StagedOf(p)'
  BY <1>t, <1>s, <1>l, <1>m, IdleShape, <1>19 DEF LookAgain, Forgets, StagedOf, FilesSound, Media
<1>20. ASSUME NEW a \in Assets, PlanAsset(p, a) PROVE StagedOf(p)'
  BY <1>t, <1>s, <1>l, <1>m, IdleShape, <1>20 DEF PlanAsset, Adoptable, StagedOf, FilesSound,
       Media
<1>21. ASSUME NEW a \in Assets, Protect(p, a) PROVE StagedOf(p)'
  BY <1>t, <1>s, <1>l, <1>m, IdleShape, <1>21 DEF Protect, Promotable, StagedOf, FilesSound,
       Media
<1>22. ASSUME NEW checkpoint \in 0 .. Quota, Resume(p, checkpoint) PROVE StagedOf(p)'
  BY <1>t, <1>s, <1>l, <1>m, IdleShape, <1>22 DEF Resume, StagedOf, FilesSound, Media
<1>23. ASSUME NEW g \in Games, Request(p, g) PROVE StagedOf(p)'
  BY <1>t, <1>s, <1>l, <1>m, IdleShape, <1>23 DEF Request, Held, Free, StagedOf, FilesSound,
       Media
<1>24. ASSUME NEW g \in Games, AskRemove(p, g) PROVE StagedOf(p)'
  BY <1>t, <1>s, <1>l, <1>m, IdleShape, <1>24 DEF AskRemove, StagedOf, FilesSound, Media
<1>25. ASSUME NEW status \in {"failed", "incomplete"}, Fail(p, status) PROVE StagedOf(p)'
  BY <1>t, <1>s, <1>l, <1>m, IdleShape, <1>25 DEF Fail, Transferring, Leave, Unlocked, Marked,
       StagedOf, FilesSound, Media
<1>26. CASE Reads(p)
  BY <1>t, <1>s, <1>l, <1>m, IdleShape, <1>26 DEF Reads, ReadFinal, ReadStaging, ReadReserved,
       Enough, Forgets, StagedOf, FilesSound, Media
<1>27. CASE DiscardStaging(p)
  BY <1>t, <1>s, <1>l, <1>m, IdleShape, <1>27 DEF DiscardStaging, Discard, StagedOf, FilesSound,
       Media
<1>28. QED
  BY <1>1, <1>2, <1>3, <1>4, <1>5, <1>6, <1>7, <1>8, <1>9, <1>10, <1>11, <1>12, <1>13, <1>14,
     <1>15, <1>16, <1>17, <1>18, <1>19, <1>20, <1>21, <1>22, <1>23, <1>24, <1>25, <1>26,
     <1>27 DEF Acts,
     Program, Reads

LEMMA ProgressOfKept ==
    ASSUME ShapeSound, FilesSound, NEW p \in Procs, ProcSound(p), Acts(p)
    PROVE  ProgressOf(p)'
<1> USE DEF db, files, plan, reservations, locks, user, sight, count, At, Goto
<1>t. /\ DOMAIN work = Procs /\ DOMAIN work[p] = Fields
      /\ "pc" \in Fields /\ "game" \in Fields /\ "need" \in Fields /\ "left" \in Fields
      /\ "seen" \in Fields /\ "owed" \in Fields
      /\ "have" \in Fields /\ "asset" \in Fields /\ "keep" \in Fields /\ "todo" \in Fields
      /\ "cands" \in Fields /\ "target" \in Fields /\ "existing" \in Fields
  BY DEF ShapeSound, Fields
<1>p. LocksOf(p) /\ StagedOf(p) /\ ProgressOf(p)
  BY DEF ProcSound
<1>s. Working = {"admit", "evict", "sized", "scanned", "summed", "take", "drop", "enter",
                 "release", "members", "plan", "resume", "cut", "copy", "count", "move"}
      /\ OnAsset = {"resume", "cut", "copy", "count", "move"}
      /\ Planned = {"resume", "cut", "copy", "count", "move", "plan"}
  BY DEF Working, Admitting, Transferring, OnAsset, Planned
<1>l. /\ work[p].pc \in Planned =>
           /\ work[p].game \in Games /\ Closure[work[p].game] \subseteq Assets
           /\ work[p].todo \subseteq Closure[work[p].game]
      /\ At(p, "members") => work[p].game \in Games /\ Closure[work[p].game] \subseteq Assets
      /\ work[p].pc \in OnAsset => work[p].asset \in Closure[work[p].game]
      /\ work[p].pc \in OnAsset \ {"move"} => work[p].asset \in work[p].todo
      /\ At(p, "move") => work[p].todo = {}
  BY <1>s, <1>p DEF LocksOf
<1>m. Media
  BY DEF ShapeSound, Media
<1>1. CASE EnterAdmission(p)
  BY <1>t, <1>s, <1>l, <1>m, <1>p, IdleShape, <1>1 DEF EnterAdmission, ProgressOf, Intact
<1>2. CASE DropEntry(p)
  BY <1>t, <1>s, <1>l, <1>m, <1>p, IdleShape, <1>2 DEF DropEntry, Delete, ProgressOf, Intact
<1>3. CASE Admit(p)
  BY <1>t, <1>s, <1>l, <1>m, <1>p, IdleShape, <1>3 DEF Admit, ProgressOf, Intact
<1>4. CASE Refuse(p)
  BY <1>t, <1>s, <1>l, <1>m, <1>p, IdleShape, <1>4 DEF Refuse, Unlocked, ProgressOf, Intact
<1>5. CASE Enter(p)
  BY <1>t, <1>s, <1>l, <1>m, <1>p, IdleShape, <1>5 DEF Enter, ProgressOf, Intact
<1>6. CASE ReplaceMembership(p)
  BY <1>t, <1>s, <1>l, <1>m, <1>p, IdleShape, <1>6 DEF ReplaceMembership, ProgressOf, Intact
<1>7. CASE MembershipRefused(p)
  BY <1>t, <1>s, <1>l, <1>m, <1>p, IdleShape, <1>7 DEF MembershipRefused, Leave, Unlocked,
       ProgressOf, Intact
<1>8. CASE Evict(p)
  BY <1>t, <1>s, <1>l, <1>m, <1>p, IdleShape, <1>8 DEF Evict, Erased, Held, Free, ProgressOf,
       Intact
<1>9. CASE Cut(p)
  BY <1>t, <1>s, <1>l, <1>m, <1>p, IdleShape, <1>9 DEF Cut, ProgressOf, Intact
<1>10. CASE Copy(p)
  BY <1>t, <1>s, <1>l, <1>m, <1>p, IdleShape, <1>10 DEF Copy, FilesSound, Media, ProgressOf,
       Intact
<1>11. CASE ConsumeGrowth(p)
  BY <1>t, <1>s, <1>l, <1>m, <1>p, IdleShape, <1>11 DEF ConsumeGrowth, ProgressOf, Intact
<1>12. CASE Promote(p)
  BY <1>t, <1>s, <1>l, <1>m, <1>p, IdleShape, <1>12 DEF Promote, StagedOf, FilesSound, Media,
       ProgressOf, Intact
<1>13. CASE Finalize(p)
  BY <1>t, <1>s, <1>l, <1>m, <1>p, IdleShape, <1>13 DEF Finalize, ProgressOf, Intact
<1>14. CASE Release(p)
  BY <1>t, <1>s, <1>l, <1>m, <1>p, IdleShape, <1>14 DEF Release, Leave, Unlocked, ProgressOf,
       Intact
<1>15. CASE LockRemove(p)
  BY <1>t, <1>s, <1>l, <1>m, <1>p, IdleShape, <1>15 DEF LockRemove, Held, Free, ProgressOf,
       Intact
<1>16. CASE RemoveFiles(p)
  BY <1>t, <1>s, <1>l, <1>m, <1>p, IdleShape, <1>16 DEF RemoveFiles, Erased, ProgressOf, Intact
<1>17. CASE DropRemoved(p)
  BY <1>t, <1>s, <1>l, <1>m, <1>p, IdleShape, <1>17 DEF DropRemoved, Delete, Unlocked,
       ProgressOf, Intact
<1>18. CASE Crash(p)
  BY <1>t, <1>s, <1>l, <1>m, <1>p, IdleShape, <1>18 DEF Crash, Leave, Unlocked, ProgressOf,
       Intact
<1>19. ASSUME NEW g \in Games, LookAgain(p, g) PROVE ProgressOf(p)'
  BY <1>t, <1>s, <1>l, <1>m, <1>p, IdleShape, <1>19 DEF LookAgain, Forgets, ProgressOf, Intact
<1>20. ASSUME NEW a \in Assets, PlanAsset(p, a) PROVE ProgressOf(p)'
  <2>1. CASE Adoptable(a)
    <3>1. /\ UNCHANGED <<files, plan, faults>> /\ At(p, "plan")
          /\ work' = [work EXCEPT ![p].todo = @ \ {a}]
      BY <1>20, <2>1 DEF PlanAsset
    <3>2. /\ work'[p].todo = work[p].todo \ {a} /\ work'[p].game = work[p].game
          /\ work'[p].pc = "plan"
      BY <1>t, <3>1
    <3>3. final[a] = Size[a]
      BY <2>1 DEF Adoptable, Intact
    <3>4. QED
      BY <1>s, <1>p, <3>1, <3>2, <3>3 DEF ProgressOf, Intact
  <2>2. CASE ~Adoptable(a)
    <3>1. /\ work' = [work EXCEPT ![p].pc = "resume", ![p].asset = a] /\ At(p, "plan")
          /\ done' = [done EXCEPT ![a] = @ /\ manifest[a]] /\ a \in work[p].todo
          /\ UNCHANGED <<files, faults>>
      BY <1>20, <2>2 DEF PlanAsset
    <3>2. work'[p].todo = work[p].todo /\ work'[p].game = work[p].game
      BY <1>t, <3>1
    <3>3. \A b \in Assets : b # a => done'[b] = done[b]
      BY <1>m, <3>1 DEF Media
    <3>4. QED
      BY <1>s, <1>p, <1>l, <3>1, <3>2, <3>3 DEF ProgressOf, Intact
  <2>3. QED
    BY <2>1, <2>2
<1>21. ASSUME NEW a \in Assets, Protect(p, a) PROVE ProgressOf(p)'
  BY <1>t, <1>s, <1>l, <1>m, <1>p, IdleShape, <1>21 DEF Protect, Promotable, ProgressOf, Intact
<1>22. ASSUME NEW checkpoint \in 0 .. Quota, Resume(p, checkpoint) PROVE ProgressOf(p)'
  BY <1>t, <1>s, <1>l, <1>m, <1>p, IdleShape, <1>22 DEF Resume, ProgressOf, Intact
<1>23. ASSUME NEW g \in Games, Request(p, g) PROVE ProgressOf(p)'
  BY <1>t, <1>s, <1>l, <1>m, <1>p, IdleShape, <1>23 DEF Request, Held, Free, ProgressOf, Intact
<1>24. ASSUME NEW g \in Games, AskRemove(p, g) PROVE ProgressOf(p)'
  BY <1>t, <1>s, <1>l, <1>m, <1>p, IdleShape, <1>24 DEF AskRemove, ProgressOf, Intact
<1>25. ASSUME NEW status \in {"failed", "incomplete"}, Fail(p, status) PROVE ProgressOf(p)'
  BY <1>t, <1>s, <1>l, <1>m, <1>p, IdleShape, <1>25 DEF Fail, Transferring, Leave, Unlocked,
       Marked, ProgressOf, Intact
<1>26. CASE Reads(p)
  BY <1>t, <1>s, <1>l, <1>m, <1>p, IdleShape, <1>26 DEF Reads, ReadFinal, ReadStaging,
       ReadReserved, Enough, Forgets, ProgressOf, Intact
<1>27. CASE DiscardStaging(p)
  BY <1>t, <1>s, <1>l, <1>m, <1>p, IdleShape, <1>27 DEF DiscardStaging, Discard, ProgressOf,
       Intact
<1>28. QED
  BY <1>1, <1>2, <1>3, <1>4, <1>5, <1>6, <1>7, <1>8, <1>9, <1>10, <1>11, <1>12, <1>13, <1>14,
     <1>15, <1>16, <1>17, <1>18, <1>19, <1>20, <1>21, <1>22, <1>23, <1>24, <1>25, <1>26,
     <1>27 DEF Acts,
     Program, Reads

LEMMA EntryOfKept ==
    ASSUME ShapeSound, NEW p \in Procs, ProcSound(p), Acts(p)
    PROVE  EntryOf(p)'
<1> USE DEF db, files, plan, reservations, locks, user, sight, count, At, Goto
<1>t. /\ DOMAIN work = Procs /\ DOMAIN work[p] = Fields
      /\ "pc" \in Fields /\ "game" \in Fields /\ "need" \in Fields /\ "left" \in Fields
      /\ "seen" \in Fields /\ "owed" \in Fields
      /\ "have" \in Fields /\ "asset" \in Fields /\ "keep" \in Fields /\ "todo" \in Fields
      /\ "cands" \in Fields /\ "target" \in Fields /\ "existing" \in Fields
  BY DEF ShapeSound, Fields
<1>p. LocksOf(p) /\ EntryOf(p)
  BY DEF ProcSound
<1>s. Working = {"admit", "evict", "sized", "scanned", "summed", "take", "drop", "enter",
                 "release", "members", "plan", "resume", "cut", "copy", "count", "move"}
      /\ OnAsset = {"resume", "cut", "copy", "count", "move"}
      /\ Planned = {"resume", "cut", "copy", "count", "move", "plan"}
  BY DEF Working, Admitting, Transferring, OnAsset, Planned
<1>l. /\ work[p].pc \in Planned =>
           /\ work[p].game \in Games /\ Closure[work[p].game] \subseteq Assets
           /\ work[p].todo \subseteq Closure[work[p].game]
      /\ At(p, "members") => work[p].game \in Games /\ Closure[work[p].game] \subseteq Assets
      /\ work[p].pc \in OnAsset => work[p].asset \in Closure[work[p].game]
      /\ work[p].pc \in OnAsset \ {"move"} => work[p].asset \in work[p].todo
      /\ At(p, "move") => work[p].todo = {}
  BY <1>s, <1>p DEF LocksOf
<1>m. Media
  BY DEF ShapeSound, Media
<1>n. DOMAIN member = Games /\ DOMAIN NoMembers = {}
  BY DEF ShapeSound, NoMembers
<1>1. CASE EnterAdmission(p)
  BY <1>t, <1>s, <1>l, <1>n, <1>p, IdleShape, <1>1 DEF EnterAdmission, EntryOf
<1>2. CASE DropEntry(p)
  BY <1>t, <1>s, <1>l, <1>n, <1>p, IdleShape, <1>2 DEF DropEntry, Delete, EntryOf
<1>3. CASE Admit(p)
  BY <1>t, <1>s, <1>l, <1>n, <1>p, IdleShape, <1>3 DEF Admit, EntryOf
<1>4. CASE Refuse(p)
  BY <1>t, <1>s, <1>l, <1>n, <1>p, IdleShape, <1>4 DEF Refuse, Unlocked, EntryOf
<1>5. CASE Enter(p)
  BY <1>t, <1>s, <1>l, <1>n, <1>p, IdleShape, <1>5 DEF Enter, EntryOf
<1>6. CASE ReplaceMembership(p)
  BY <1>t, <1>s, <1>l, <1>n, <1>p, IdleShape, <1>6 DEF ReplaceMembership, EntryOf
<1>7. CASE MembershipRefused(p)
  BY <1>t, <1>s, <1>l, <1>n, <1>p, IdleShape, <1>7 DEF MembershipRefused, Leave, Unlocked,
       EntryOf
<1>8. CASE Evict(p)
  BY <1>t, <1>s, <1>l, <1>n, <1>p, IdleShape, <1>8 DEF Evict, Erased, Held, Free, EntryOf
<1>9. CASE Cut(p)
  BY <1>t, <1>s, <1>l, <1>n, <1>p, IdleShape, <1>9 DEF Cut, EntryOf
<1>10. CASE Copy(p)
  BY <1>t, <1>s, <1>l, <1>n, <1>p, IdleShape, <1>10 DEF Copy, EntryOf
<1>11. CASE ConsumeGrowth(p)
  BY <1>t, <1>s, <1>l, <1>n, <1>p, IdleShape, <1>11 DEF ConsumeGrowth, EntryOf
<1>12. CASE Promote(p)
  BY <1>t, <1>s, <1>l, <1>n, <1>p, IdleShape, <1>12 DEF Promote, EntryOf
<1>13. CASE Finalize(p)
  BY <1>t, <1>s, <1>l, <1>n, <1>p, IdleShape, <1>13 DEF Finalize, EntryOf
<1>14. CASE Release(p)
  BY <1>t, <1>s, <1>l, <1>n, <1>p, IdleShape, <1>14 DEF Release, Leave, Unlocked, EntryOf
<1>15. CASE LockRemove(p)
  BY <1>t, <1>s, <1>l, <1>n, <1>p, IdleShape, <1>15 DEF LockRemove, Held, Free, EntryOf
<1>16. CASE RemoveFiles(p)
  BY <1>t, <1>s, <1>l, <1>n, <1>p, IdleShape, <1>16 DEF RemoveFiles, Erased, EntryOf
<1>17. CASE DropRemoved(p)
  BY <1>t, <1>s, <1>l, <1>n, <1>p, IdleShape, <1>17 DEF DropRemoved, Delete, Unlocked, EntryOf
<1>18. CASE Crash(p)
  BY <1>t, <1>s, <1>l, <1>n, <1>p, IdleShape, <1>18 DEF Crash, Leave, Unlocked, EntryOf
<1>19. ASSUME NEW g \in Games, LookAgain(p, g) PROVE EntryOf(p)'
  BY <1>t, <1>s, <1>l, <1>n, <1>p, IdleShape, <1>19 DEF LookAgain, Forgets, EntryOf
<1>20. ASSUME NEW a \in Assets, PlanAsset(p, a) PROVE EntryOf(p)'
  BY <1>t, <1>s, <1>l, <1>n, <1>p, IdleShape, <1>20 DEF PlanAsset, Adoptable, EntryOf
<1>21. ASSUME NEW a \in Assets, Protect(p, a) PROVE EntryOf(p)'
  BY <1>t, <1>s, <1>l, <1>n, <1>p, IdleShape, <1>21 DEF Protect, Promotable, EntryOf
<1>22. ASSUME NEW checkpoint \in 0 .. Quota, Resume(p, checkpoint) PROVE EntryOf(p)'
  BY <1>t, <1>s, <1>l, <1>n, <1>p, IdleShape, <1>22 DEF Resume, EntryOf
<1>23. ASSUME NEW g \in Games, Request(p, g) PROVE EntryOf(p)'
  BY <1>t, <1>s, <1>l, <1>n, <1>p, IdleShape, <1>23 DEF Request, Held, Free, EntryOf
<1>24. ASSUME NEW g \in Games, AskRemove(p, g) PROVE EntryOf(p)'
  BY <1>t, <1>s, <1>l, <1>n, <1>p, IdleShape, <1>24 DEF AskRemove, EntryOf
<1>25. ASSUME NEW status \in {"failed", "incomplete"}, Fail(p, status) PROVE EntryOf(p)'
  BY <1>t, <1>s, <1>l, <1>n, <1>p, IdleShape, <1>25 DEF Fail, Transferring, Leave, Unlocked,
       Marked, EntryOf
<1>26. CASE Reads(p)
  BY <1>t, <1>s, <1>l, <1>n, <1>p, IdleShape, <1>26 DEF Reads, ReadFinal, ReadStaging,
       ReadReserved, Enough, Forgets, EntryOf
<1>27. CASE DiscardStaging(p)
  BY <1>t, <1>s, <1>l, <1>n, <1>p, IdleShape, <1>27 DEF DiscardStaging, Discard, EntryOf
<1>28. QED
  BY <1>1, <1>2, <1>3, <1>4, <1>5, <1>6, <1>7, <1>8, <1>9, <1>10, <1>11, <1>12, <1>13, <1>14,
     <1>15, <1>16, <1>17, <1>18, <1>19, <1>20, <1>21, <1>22, <1>23, <1>24, <1>25, <1>26,
     <1>27 DEF Acts,
     Program, Reads

LEMMA FilesSoundKept ==
    ASSUME ShapeSound, FilesSound, NEW p \in Procs, LocksOf(p), StagedOf(p), Acts(p)
    PROVE  FilesSound'
<1> USE DEF db, files, plan, reservations, locks, user, sight, count, At, Goto
<1>t. /\ DOMAIN work = Procs /\ DOMAIN work[p] = Fields
      /\ "pc" \in Fields /\ "game" \in Fields /\ "need" \in Fields /\ "left" \in Fields
      /\ "seen" \in Fields /\ "owed" \in Fields
      /\ "have" \in Fields /\ "asset" \in Fields /\ "keep" \in Fields /\ "todo" \in Fields
      /\ "cands" \in Fields /\ "target" \in Fields /\ "existing" \in Fields
  BY DEF ShapeSound, Fields
<1>s. Working = {"admit", "evict", "sized", "scanned", "summed", "take", "drop", "enter",
                 "release", "members", "plan", "resume", "cut", "copy", "count", "move"}
      /\ OnAsset = {"resume", "cut", "copy", "count", "move"}
      /\ Planned = {"resume", "cut", "copy", "count", "move", "plan"}
  BY DEF Working, Admitting, Transferring, OnAsset, Planned
<1>l. /\ work[p].pc \in Planned =>
           /\ work[p].game \in Games /\ Closure[work[p].game] \subseteq Assets
           /\ work[p].todo \subseteq Closure[work[p].game]
      /\ At(p, "members") => work[p].game \in Games /\ Closure[work[p].game] \subseteq Assets
      /\ work[p].pc \in OnAsset => work[p].asset \in Closure[work[p].game]
      /\ work[p].pc \in OnAsset \ {"move"} => work[p].asset \in work[p].todo
      /\ At(p, "move") => work[p].todo = {}
  BY <1>s DEF LocksOf
<1>m. Media
  BY DEF ShapeSound, Media
<1>1. CASE EnterAdmission(p)
  BY <1>s, <1>l, <1>m, <1>1 DEF EnterAdmission, StagedOf, FilesSound, Media
<1>2. CASE DropEntry(p)
  BY <1>s, <1>l, <1>m, <1>2 DEF DropEntry, Delete, StagedOf, FilesSound, Media
<1>3. CASE Admit(p)
  BY <1>s, <1>l, <1>m, <1>3 DEF Admit, StagedOf, FilesSound, Media
<1>4. CASE Refuse(p)
  BY <1>s, <1>l, <1>m, <1>4 DEF Refuse, Unlocked, StagedOf, FilesSound, Media
<1>5. CASE Enter(p)
  BY <1>s, <1>l, <1>m, <1>5 DEF Enter, StagedOf, FilesSound, Media
<1>6. CASE ReplaceMembership(p)
  BY <1>s, <1>l, <1>m, <1>6 DEF ReplaceMembership, StagedOf, FilesSound, Media
<1>7. CASE MembershipRefused(p)
  BY <1>s, <1>l, <1>m, <1>7 DEF MembershipRefused, Leave, Unlocked, StagedOf, FilesSound, Media
<1>8. CASE Evict(p)
  BY <1>s, <1>l, <1>m, <1>8 DEF Evict, Erased, Held, Free, StagedOf, FilesSound, Media
<1>9. CASE Cut(p)
  BY <1>s, <1>l, <1>m, <1>9 DEF Cut, StagedOf, FilesSound, Media
<1>10. CASE Copy(p)
  BY <1>s, <1>l, <1>m, <1>10 DEF Copy, StagedOf, FilesSound, Media
<1>11. CASE ConsumeGrowth(p)
  BY <1>s, <1>l, <1>m, <1>11 DEF ConsumeGrowth, StagedOf, FilesSound, Media
<1>12. CASE Promote(p)
  BY <1>s, <1>l, <1>m, <1>12 DEF Promote, StagedOf, FilesSound, Media
<1>13. CASE Finalize(p)
  BY <1>s, <1>l, <1>m, <1>13 DEF Finalize, StagedOf, FilesSound, Media
<1>14. CASE Release(p)
  BY <1>s, <1>l, <1>m, <1>14 DEF Release, Leave, Unlocked, StagedOf, FilesSound, Media
<1>15. CASE LockRemove(p)
  BY <1>s, <1>l, <1>m, <1>15 DEF LockRemove, Held, Free, StagedOf, FilesSound, Media
<1>16. CASE RemoveFiles(p)
  BY <1>s, <1>l, <1>m, <1>16 DEF RemoveFiles, Erased, StagedOf, FilesSound, Media
<1>17. CASE DropRemoved(p)
  BY <1>s, <1>l, <1>m, <1>17 DEF DropRemoved, Delete, Unlocked, StagedOf, FilesSound, Media
<1>18. CASE Crash(p)
  BY <1>s, <1>l, <1>m, <1>18 DEF Crash, Leave, Unlocked, StagedOf, FilesSound, Media
<1>19. ASSUME NEW g \in Games, LookAgain(p, g) PROVE FilesSound'
  BY <1>s, <1>l, <1>m, <1>19 DEF LookAgain, Forgets, StagedOf, FilesSound, Media
<1>20. ASSUME NEW a \in Assets, PlanAsset(p, a) PROVE FilesSound'
  BY <1>s, <1>l, <1>m, <1>20 DEF PlanAsset, Adoptable, StagedOf, FilesSound, Media
<1>21. ASSUME NEW a \in Assets, Protect(p, a) PROVE FilesSound'
  BY <1>s, <1>l, <1>m, <1>21 DEF Protect, Promotable, StagedOf, FilesSound, Media
<1>22. ASSUME NEW checkpoint \in 0 .. Quota, Resume(p, checkpoint) PROVE FilesSound'
  BY <1>s, <1>l, <1>m, <1>22 DEF Resume, StagedOf, FilesSound, Media
<1>23. ASSUME NEW g \in Games, Request(p, g) PROVE FilesSound'
  BY <1>s, <1>l, <1>m, <1>23 DEF Request, Held, Free, StagedOf, FilesSound, Media
<1>24. ASSUME NEW g \in Games, AskRemove(p, g) PROVE FilesSound'
  BY <1>s, <1>l, <1>m, <1>24 DEF AskRemove, StagedOf, FilesSound, Media
<1>25. ASSUME NEW status \in {"failed", "incomplete"}, Fail(p, status) PROVE FilesSound'
  BY <1>s, <1>l, <1>m, <1>25 DEF Fail, Transferring, Leave, Unlocked, Marked, StagedOf,
       FilesSound, Media
<1>26. CASE Reads(p)
  BY <1>s, <1>l, <1>m, <1>26 DEF Reads, ReadFinal, ReadStaging, ReadReserved, Enough, Forgets,
       StagedOf, FilesSound, Media
<1>27. CASE DiscardStaging(p)
  BY <1>s, <1>l, <1>m, <1>27 DEF DiscardStaging, Discard, StagedOf, FilesSound, Media
<1>28. QED
  BY <1>1, <1>2, <1>3, <1>4, <1>5, <1>6, <1>7, <1>8, <1>9, <1>10, <1>11, <1>12, <1>13, <1>14,
     <1>15, <1>16, <1>17, <1>18, <1>19, <1>20, <1>21, <1>22, <1>23, <1>24, <1>25, <1>26,
     <1>27 DEF Acts,
     Program, Reads

-----------------------------------------------------------------------------
(* The invariant holds.                                                    *)

LEMMA InitInv == Init => CacheInv
<1> SUFFICES ASSUME Init PROVE CacheInv
  OBVIOUS
<1>1. PICK S \in SUBSET Games :
        LET present == UNION {Closure[g] : g \in S} IN
        /\ entry = [g \in Games |-> IF g \in S THEN "complete" ELSE "none"]
        /\ member = [g \in Games |-> IF g \in S THEN [a \in Closure[g] |-> Size[a]] ELSE NoMembers]
        /\ final = [a \in Assets |-> IF a \in present THEN Size[a] ELSE 0]
  BY DEF Init
<1>2. /\ pin = [g \in Games |-> FALSE] /\ faults = 0
      /\ manifest = [a \in Assets |-> FALSE] /\ done = [a \in Assets |-> FALSE]
      /\ staged = [a \in Assets |-> 0] /\ lock = [a \in Assets |-> Nobody]
      /\ work = [p \in Procs |-> Idle] /\ launch = [p \in Procs |-> Nobody]
      /\ control = NoControl
  BY DEF Init
<1>3. ShapeSound
  BY <1>1, <1>2, IdleShape DEF ShapeSound, NoMembers
<1>4. FilesSound
  BY <1>2 DEF FilesSound
<1>5. ASSUME NEW p \in Procs PROVE ProcSound(p)
  BY <1>2, IdleShape DEF ProcSound, LocksOf, StagedOf, ProgressOf, EntryOf, At, Working,
       Admitting, Transferring, Planned, OnAsset
<1>6. QED
  BY <1>3, <1>4, <1>5 DEF CacheInv

LEMMA StepInv == CacheInv /\ [Next]_vars => CacheInv'
<1> SUFFICES ASSUME CacheInv, [Next]_vars PROVE CacheInv'
  OBVIOUS
<1>c. ShapeSound /\ FilesSound /\ \A q \in Procs : ProcSound(q)
  BY DEF CacheInv
<1>1. ASSUME NEW p \in Procs, Acts(p) PROVE CacheInv'
  <2>1. ShapeSound' /\ FilesSound'
    BY <1>c, <1>1, ShapeKept, FilesSoundKept DEF ProcSound
  <2>2. ProcSound(p)'
    <3>1. LocksOf(p)'
      BY <1>c, <1>1, LocksOfKept DEF ProcSound
    <3>2. StagedOf(p)'
      BY <1>c, <1>1, StagedOfKept DEF ProcSound
    <3>3. ProgressOf(p)' /\ EntryOf(p)'
      BY <1>c, <1>1, ProgressOfKept, EntryOfKept
    <3>4. QED
      BY <3>1, <3>2, <3>3 DEF ProcSound
  <2>3. ASSUME NEW q \in Procs, q # p PROVE ProcSound(q)'
    BY <1>c, <1>1, <2>3, OthersSpared, SparedKeeps DEF ProcSound
  <2>4. QED
    BY <2>1, <2>2, <2>3 DEF CacheInv
<1>2. CASE Beside
  <2>1. ShapeSound' /\ \A q \in Procs : ProcSound(q)'
    BY <1>c, <1>2, BesideSound, SparedKeeps
  <2>2. FilesSound'
    <3>1. UNCHANGED <<staged, done>> \/ \E a \in Assets : DiscardPartial(a)
      BY <1>2 DEF Beside, LaunchEnds, MarkLaunched, Damage, PinRead, UnpinRead, ControlWrite,
         files, plan
    <3>2. ASSUME NEW a \in Assets, DiscardPartial(a) PROVE FilesSound'
      BY <1>c, <3>2 DEF DiscardPartial, Discard, FilesSound, ShapeSound
    <3>3. QED
      BY <1>c, <3>1, <3>2 DEF FilesSound
  <2>3. QED
    BY <2>1, <2>2 DEF CacheInv
<1>3. CASE UNCHANGED vars
  BY <1>c, <1>3 DEF vars, db, files, plan, reservations, locks, user, sight, count, CacheInv,
       ShapeSound,
     FilesSound, ProcSound, LocksOf, LockedBy, StagedOf, ProgressOf, EntryOf, At, Intact
<1>4. QED
  BY <1>1, <1>2, <1>3, NextIs

\* The asset locks hold their promise in every reachable state.
LEMMA AlwaysSound == Spec => []CacheInv
<1>1. Init => CacheInv
  BY InitInv
<1>2. CacheInv /\ [Next]_vars => CacheInv'
  BY StepInv
<1>3. QED
  BY <1>1, <1>2, PTL DEF Spec

-----------------------------------------------------------------------------
(* What follows from it.                                                   *)

\* An entry without members (its transfer failed before replace_membership) is removed by
\* the file that launches it, whoever else needs that file.  This is the case left out.
NoBareRemoval ==
    \A p \in Procs : work[p].pc \in {"take", "rmfiles"} /\ member[work[p].target] = NoMembers =>
        \A h \in Games \ {work[p].target} : Primary[work[p].target] \notin Closure[h]

\* It does not arise where no game is launched by a file that another one needs.
Unshared == \A g, h \in Games : g # h => Primary[g] \notin Closure[h]
LEMMA UnsharedSuffices == CacheInv /\ Unshared => NoBareRemoval
BY DEF CacheInv, ProcSound, LocksOf, Unshared, NoBareRemoval

\* Of the steps of a transfer that has planned its assets, finalize_transfer alone
\* leads to the release.
LEMMA OnlyFinalizeReleases ==
    ASSUME ShapeSound, NEW p \in Procs, Acts(p), At(p, "plan"), work'[p].pc = "release"
    PROVE  Finalize(p)
<1> USE DEF db, files, plan, reservations, locks, user, sight, count, At, Goto
<1>t. /\ DOMAIN work = Procs /\ DOMAIN work[p] = Fields
      /\ "pc" \in Fields /\ "game" \in Fields /\ "need" \in Fields /\ "left" \in Fields
      /\ "seen" \in Fields /\ "owed" \in Fields
      /\ "have" \in Fields /\ "asset" \in Fields /\ "keep" \in Fields /\ "todo" \in Fields
      /\ "cands" \in Fields /\ "target" \in Fields /\ "existing" \in Fields
  BY DEF ShapeSound, Fields
<1>1. CASE EnterAdmission(p)
  BY <1>t, IdleShape, <1>1 DEF EnterAdmission
<1>2. CASE DropEntry(p)
  BY <1>t, IdleShape, <1>2 DEF DropEntry, Delete
<1>3. CASE Admit(p)
  BY <1>t, IdleShape, <1>3 DEF Admit
<1>4. CASE Refuse(p)
  BY <1>t, IdleShape, <1>4 DEF Refuse, Unlocked
<1>5. CASE Enter(p)
  BY <1>t, IdleShape, <1>5 DEF Enter
<1>6. CASE ReplaceMembership(p)
  BY <1>t, IdleShape, <1>6 DEF ReplaceMembership
<1>7. CASE MembershipRefused(p)
  BY <1>t, IdleShape, <1>7 DEF MembershipRefused, Leave, Unlocked
<1>8. CASE Evict(p)
  BY <1>t, IdleShape, <1>8 DEF Evict, Erased, Held
<1>9. CASE Cut(p)
  BY <1>t, IdleShape, <1>9 DEF Cut
<1>10. CASE Copy(p)
  BY <1>t, IdleShape, <1>10 DEF Copy
<1>11. CASE ConsumeGrowth(p)
  BY <1>t, IdleShape, <1>11 DEF ConsumeGrowth
<1>12. CASE Promote(p)
  BY <1>t, IdleShape, <1>12 DEF Promote
<1>13. CASE Finalize(p)
  BY <1>t, IdleShape, <1>13 DEF Finalize
<1>14. CASE Release(p)
  BY <1>t, IdleShape, <1>14 DEF Release, Leave, Unlocked
<1>15. CASE LockRemove(p)
  BY <1>t, IdleShape, <1>15 DEF LockRemove, Held
<1>16. CASE RemoveFiles(p)
  BY <1>t, IdleShape, <1>16 DEF RemoveFiles, Erased
<1>17. CASE DropRemoved(p)
  BY <1>t, IdleShape, <1>17 DEF DropRemoved, Delete, Unlocked
<1>18. CASE Crash(p)
  BY <1>t, IdleShape, <1>18 DEF Crash, Leave, Unlocked
<1>19. ASSUME NEW g \in Games, LookAgain(p, g) PROVE Finalize(p)
  BY <1>t, IdleShape, <1>19 DEF LookAgain, Forgets
<1>20. ASSUME NEW a \in Assets, PlanAsset(p, a) PROVE Finalize(p)
  BY <1>t, IdleShape, <1>20 DEF PlanAsset
<1>21. ASSUME NEW a \in Assets, Protect(p, a) PROVE Finalize(p)
  BY <1>t, IdleShape, <1>21 DEF Protect
<1>22. ASSUME NEW checkpoint \in 0 .. Quota, Resume(p, checkpoint) PROVE Finalize(p)
  BY <1>t, IdleShape, <1>22 DEF Resume
<1>23. ASSUME NEW g \in Games, Request(p, g) PROVE Finalize(p)
  BY <1>t, IdleShape, <1>23 DEF Request, Held
<1>24. ASSUME NEW g \in Games, AskRemove(p, g) PROVE Finalize(p)
  BY <1>t, IdleShape, <1>24 DEF AskRemove
<1>25. ASSUME NEW status \in {"failed", "incomplete"}, Fail(p, status) PROVE Finalize(p)
  BY <1>t, IdleShape, <1>25 DEF Fail, Leave, Unlocked, Marked
<1>26. CASE Reads(p)
  BY <1>t, IdleShape, <1>26 DEF Reads, ReadFinal, ReadStaging, ReadReserved, Enough, Forgets
<1>27. CASE DiscardStaging(p)
  BY <1>t, IdleShape, <1>27 DEF DiscardStaging, Discard
<1>28. QED
  BY <1>1, <1>2, <1>3, <1>4, <1>5, <1>6, <1>7, <1>8, <1>9, <1>10, <1>11, <1>12, <1>13, <1>14,
     <1>15, <1>16, <1>17, <1>18, <1>19, <1>20, <1>21, <1>22, <1>23, <1>24, <1>25, <1>26,
     <1>27 DEF Acts,
     Program, Reads

LEMMA FinishedStep == CacheInv /\ Next => FinishedIsCached
<1> SUFFICES ASSUME CacheInv, Next, NEW p \in Procs, At(p, "plan"), work'[p].pc = "release",
                    Closure[work[p].game] \cap stray = {}, faults = 0
             PROVE  Cached(work[p].game)'
  BY DEF FinishedIsCached
<1> DEFINE g == work[p].game
<1>c. ShapeSound /\ FilesSound /\ ProcSound(p) /\ \A q \in Procs : LocksOf(q)
  BY DEF CacheInv, ProcSound
<1>1. Finalize(p)
  <2>1. ASSUME work'[p] = work[p] PROVE FALSE
    BY <2>1 DEF At
  <2>2. CASE Beside
    BY <1>c, <2>1, <2>2, BesideSound DEF Spared
  <2>3. ASSUME NEW q \in Procs, Acts(q) PROVE Finalize(p)
    <3>1. CASE q = p
      BY <1>c, <2>3, <3>1, OnlyFinalizeReleases
    <3>2. CASE q # p
      BY <1>c, <2>1, <2>3, <3>2, OthersSpared DEF Spared
    <3>3. QED
      BY <3>1, <3>2
  <2>4. QED
    BY <2>2, <2>3, NextIs
<1>2. g \in Games /\ Closure[g] \subseteq Assets /\ work[p].todo = {} /\ Promotable(g) = {}
      /\ work'[p].game = g
  BY <1>c, <1>1 DEF ProcSound, LocksOf, Working, Admitting, Transferring, At, Finalize, Goto,
       ShapeSound,
       Fields
<1>3. member[g] # NoMembers /\ DOMAIN member[g] = Closure[g] /\ entry[g] # "none"
  BY <1>c, <1>2 DEF ProcSound, EntryOf, Planned, At, ShapeSound
<1>4. entry'[g] = "complete" /\ member'[g] # NoMembers
  <2>1. member'[g] = [a \in DOMAIN member[g] |-> final[a]]
    BY <1>c, <1>1, <1>2 DEF Finalize, ShapeSound
  <2>2. DOMAIN member'[g] = Closure[g]
    BY <1>3, <2>1
  <2>3. member'[g] # NoMembers
    BY <1>2, <2>2 DEF NoMembers
  <2>4. QED
    BY <1>c, <1>1, <1>2, <1>3, <2>3 DEF Finalize, ShapeSound
<1>5. ASSUME NEW a \in Closure[g] PROVE final'[a] = Size[a]
  <2>1. final' = final
    BY <1>1 DEF Finalize, files
  <2>2. Intact(a) \/ (done[a] /\ staged[a] = Size[a])
    BY <1>c, <1>2 DEF ProcSound, ProgressOf, Planned, At
  <2>3. ~(done[a] /\ staged[a] > 0)
    BY <1>2 DEF Promotable
  <2>4. QED
    BY <1>2, <2>1, <2>2, <2>3 DEF Intact
<1>6. QED
  BY <1>2, <1>4, <1>5 DEF Cached, Intact

LEMMA OthersStep == CacheInv /\ NoBareRemoval /\ Next => OthersKept
<1> SUFFICES ASSUME CacheInv, NoBareRemoval, Next, NEW g \in Games, Cached(g), faults' = faults,
                    ~(\E p \in Procs : work[p].target = g /\ work[p].pc \in {"take", "rmfiles"}),
                    NEW a \in Closure[g]
             PROVE  final'[a] = Size[a]
  BY DEF OthersKept
<1>c. ShapeSound /\ FilesSound /\ \A q \in Procs : ProcSound(q)
  BY DEF CacheInv
<1>1. a \in Assets /\ a \in DOMAIN member[g] /\ final[a] = Size[a]
  BY <1>c DEF Cached, Intact, ShapeSound
<1>2. ASSUME NEW p \in Procs, work[p].pc \in {"take", "rmfiles"}
      PROVE  a \notin Removable(work[p].target)
  <2> DEFINE h == work[p].target
  <2>1. h \in Games /\ h # g
    BY <1>c, <1>2 DEF ProcSound, LocksOf
  <2>2. CASE member[h] = NoMembers
    <3>1. Primary[h] \notin Closure[g]
      BY <1>2, <2>1, <2>2 DEF NoBareRemoval
    <3>2. QED
      BY <2>2, <3>1 DEF Removable
  <2>3. CASE member[h] # NoMembers
    BY <1>1, <2>1, <2>3 DEF Removable, Owners
  <2>4. QED
    BY <2>2, <2>3
<1>3. ASSUME NEW p \in Procs, Acts(p) PROVE final'[a] = Size[a]
  <2> USE DEF db, files, plan, reservations, locks, user, sight, count, At
  <2>m. Media
    BY <1>c DEF ShapeSound, Media
  <2>1. CASE EnterAdmission(p)
    BY <1>1, <2>1 DEF EnterAdmission
  <2>2. CASE DropEntry(p)
    BY <1>1, <2>2 DEF DropEntry, Delete
  <2>3. CASE Admit(p)
    BY <1>1, <2>3 DEF Admit
  <2>4. CASE Refuse(p)
    BY <1>1, <2>4 DEF Refuse, Unlocked
  <2>5. CASE Enter(p)
    BY <1>1, <2>5 DEF Enter
  <2>6. CASE ReplaceMembership(p)
    BY <1>1, <2>6 DEF ReplaceMembership
  <2>7. CASE MembershipRefused(p)
    BY <1>1, <2>7 DEF MembershipRefused, Leave, Unlocked
  <2>8. CASE Evict(p)
    BY <1>1, <2>8, <1>2 DEF Evict, Erased, Held
  <2>9. CASE Cut(p)
    BY <1>1, <2>9 DEF Cut
  <2>10. CASE Copy(p)
    BY <1>1, <2>10 DEF Copy
  <2>11. CASE ConsumeGrowth(p)
    BY <1>1, <2>11 DEF ConsumeGrowth
  <2>12. CASE Promote(p)
    BY <1>1, <2>12, <1>c, <2>m DEF Promote, ProcSound, StagedOf, LocksOf, OnAsset,
       FilesSound, Media, Working, Admitting, Transferring
  <2>13. CASE Finalize(p)
    BY <1>1, <2>13 DEF Finalize
  <2>14. CASE Release(p)
    BY <1>1, <2>14 DEF Release, Leave, Unlocked
  <2>15. CASE LockRemove(p)
    BY <1>1, <2>15 DEF LockRemove, Held
  <2>16. CASE RemoveFiles(p)
    BY <1>1, <2>16, <1>2 DEF RemoveFiles, Erased
  <2>17. CASE DropRemoved(p)
    BY <1>1, <2>17 DEF DropRemoved, Delete, Unlocked
  <2>18. CASE Crash(p)
    BY <1>1, <2>18 DEF Crash, Leave, Unlocked
  <2>19. ASSUME NEW h \in Games, LookAgain(p, h) PROVE final'[a] = Size[a]
    BY <1>1, <2>19 DEF LookAgain, Forgets
  <2>20. ASSUME NEW b \in Assets, PlanAsset(p, b) PROVE final'[a] = Size[a]
    BY <1>1, <2>20 DEF PlanAsset
  <2>21. ASSUME NEW b \in Assets, Protect(p, b) PROVE final'[a] = Size[a]
    BY <1>1, <2>21 DEF Protect
  <2>22. ASSUME NEW checkpoint \in 0 .. Quota, Resume(p, checkpoint) PROVE final'[a] = Size[a]
    BY <1>1, <2>22 DEF Resume
  <2>23. ASSUME NEW h \in Games, Request(p, h) PROVE final'[a] = Size[a]
    BY <1>1, <2>23 DEF Request, Held
  <2>24. ASSUME NEW h \in Games, AskRemove(p, h) PROVE final'[a] = Size[a]
    BY <1>1, <2>24 DEF AskRemove
  <2>25. ASSUME NEW status \in {"failed", "incomplete"}, Fail(p, status) PROVE final'[a] = Size[a]
    BY <1>1, <2>25 DEF Fail, Leave, Unlocked, Marked
  <2>26. CASE Reads(p)
    BY <1>1, <2>26 DEF Reads, ReadFinal, ReadStaging, ReadReserved, Enough
  <2>27. CASE DiscardStaging(p)
    BY <1>1, <2>27 DEF DiscardStaging
  <2> DEFINE Kept == final'[a] = Size[a]
  <2> HIDE DEF Kept
  <2>28. CASE Program(p)
    <3>1. ASSUME NEW h \in Games, LookAgain(p, h) PROVE Kept
      BY <2>19, <3>1 DEF Kept
    <3>2. ASSUME NEW b \in Assets, PlanAsset(p, b) \/ Protect(p, b) PROVE Kept
      BY <2>20, <2>21, <3>2 DEF Kept
    <3>3. ASSUME NEW checkpoint \in 0 .. Quota, Resume(p, checkpoint) PROVE Kept
      BY <2>22, <3>3 DEF Kept
    <3>4. QED
      BY <2>1, <2>2, <2>3, <2>4, <2>5, <2>6, <2>7, <2>8, <2>9, <2>10, <2>11, <2>12, <2>13,
         <2>14, <2>15, <2>16, <2>17, <2>26, <2>27, <2>28, <3>1, <3>2, <3>3 DEF Program, Reads, Kept
  <2>29. QED
    BY <2>18, <2>23, <2>24, <2>25, <2>28, <1>3 DEF Acts, Kept
<1>4. CASE Beside
  <2>1. final' = final \/ \E b \in Assets : Damage(b)
    BY <1>4 DEF Beside, LaunchEnds, MarkLaunched, DiscardPartial, Discard, PinRead, UnpinRead,
         ControlWrite, files
  <2>2. ASSUME NEW b \in Assets, Damage(b) PROVE FALSE
    BY <1>c, <2>2 DEF Damage, ShapeSound
  <2>3. QED
    BY <1>1, <2>1, <2>2
<1>5. QED
  BY <1>3, <1>4, NextIs

\* A transfer that ends well leaves a playable game (finalize_transfer, cache.py), whatever
\* other transfers, evictions, removals and commands did meanwhile under the asset locks.
THEOREM FinishedAreCached == Spec => [][FinishedIsCached]_vars
<1>1. CacheInv /\ Next => FinishedIsCached
  BY FinishedStep
<1>2. CacheInv /\ [Next]_vars => [FinishedIsCached]_vars
  BY <1>1
<1>3. QED
  BY <1>2, AlwaysSound, PTL DEF Spec

\* What is said to be cached can be played, and stays so: besides, evicting or removing one
\* game never touches a file that another cached game needs (owner_count in _remove_files,
\* read under the asset locks), where no entry without members is removed by such a file.
THEOREM StaysPlayable == Spec /\ []NoBareRemoval => CachedPlayable
<1>1. CacheInv /\ NoBareRemoval /\ Next => OthersKept /\ FinishedIsCached
  BY FinishedStep, OthersStep
<1>2. CacheInv /\ NoBareRemoval /\ [Next]_vars => [OthersKept /\ FinishedIsCached]_vars
  BY <1>1
<1>3. QED
  BY <1>2, AlwaysSound, PTL DEF Spec, CachedPlayable

\* So it does, in particular, where no game is launched by a file that another one needs.
COROLLARY UnsharedStaysPlayable == Spec /\ []Unshared => CachedPlayable
<1>1. Spec /\ []Unshared => []NoBareRemoval
  BY UnsharedSuffices, AlwaysSound, PTL
<1>2. QED
  BY <1>1, StaysPlayable, PTL

-----------------------------------------------------------------------------
(* Types.                                                                  *)

LEMMA Finite ==
    /\ IsFiniteSet(Procs) /\ IsFiniteSet(Games) /\ IsFiniteSet(Assets)
    /\ \A g \in Games : IsFiniteSet(Closure[g])
    /\ Disk \in Nat /\ Lag \in Nat /\ Size \in [Assets -> Nat]
<1>1. ASSUME NEW g \in Games PROVE IsFiniteSet(Closure[g])
  BY CacheAssumption, FS_Subset
<1>2. QED
  BY <1>1, CacheAssumption

\* What TypeOK says of one process, of the rows of a game, and of the rest.
MemoryTyped(p) ==
    /\ work[p].pc \in Steps /\ work[p].existing \in BOOLEAN
    /\ work[p].game \in Games \cup {Nobody} /\ work[p].target \in Games \cup {Nobody}
    /\ work[p].asset \in Assets \cup {Nobody}
    /\ work[p].need \in Nat /\ work[p].left \in Nat /\ work[p].keep \in Nat
    /\ work[p].seen \in Nat /\ work[p].owed \in Nat
    /\ work[p].todo \subseteq Assets /\ work[p].have \subseteq Assets /\ work[p].cands \subseteq Games
MembersTyped ==
    /\ pin \in [Games -> BOOLEAN]
    /\ \A g \in Games : /\ member[g] = NoMembers \/ member[g] \in [Closure[g] -> Nat]
                        /\ entry[g] = "none" => ~pin[g]
RowsTyped == row \in [Procs -> Nat] /\ stale \in Nat
RestTyped ==
    /\ admission \in Procs \cup {Nobody} /\ launch \in [Procs -> Games \cup {Nobody}]
    /\ wanted \subseteq Games /\ stray \subseteq Assets /\ unplanned \subseteq Assets
    /\ unseen \subseteq Procs /\ overlooked \in BOOLEAN
    /\ requests \in Nat /\ controls \in Nat /\ faults \in Nat

LEMMA TypeIs ==
    ASSUME ShapeSound
    PROVE  TypeOK <=> /\ MembersTyped /\ RowsTyped /\ RestTyped
                      /\ \A p \in Procs : MemoryTyped(p)
<1>1. ASSUME TypeOK PROVE MembersTyped /\ RowsTyped /\ RestTyped /\ \A p \in Procs : MemoryTyped(p)
  BY <1>1 DEF TypeOK, MembersTyped, RowsTyped, RestTyped, MemoryTyped
<1>2. ASSUME MembersTyped, RowsTyped, RestTyped, \A p \in Procs : MemoryTyped(p) PROVE TypeOK
  BY <1>2 DEF TypeOK, MembersTyped, RowsTyped, RestTyped, MemoryTyped, ShapeSound
<1>3. QED
  BY <1>1, <1>2

LEMMA MembersInClosure ==
    ASSUME ShapeSound, NEW g \in Games
    PROVE  DOMAIN member[g] \subseteq Closure[g] /\ DOMAIN member[g] \subseteq Assets
<1>1. DOMAIN NoMembers = {}
  BY DEF NoMembers
<1>2. QED
  BY <1>1 DEF ShapeSound

LEMMA IdleTyped ==
    /\ Idle.existing \in BOOLEAN /\ Idle.game = Nobody /\ Idle.target = Nobody
    /\ Idle.asset = Nobody /\ Idle.need = 0 /\ Idle.left = 0 /\ Idle.keep = 0
    /\ Idle.seen = 0 /\ Idle.owed = 0
    /\ Idle.todo = {} /\ Idle.have = {} /\ Idle.cands = {} /\ Idle.pc = "idle"
BY DEF Idle

LEMMA NeededTyped ==
    ASSUME ShapeSound, NEW g \in Games
    PROVE  Needed(g) \in Nat
<1> DEFINE M == {a \in Closure[g] : ~Adoptable(a)}
<1>1. IsFiniteSet(M) /\ IsFiniteSet(Closure[g])
  BY Finite, FS_Subset
<1>2. \A a \in Closure[g] : Size[a] \in Nat /\ staged[a] \in Nat
  BY DEF ShapeSound
<1>3. Total(Size, M) \in Nat /\ Total(staged, Closure[g]) \in Nat
  BY <1>1, <1>2, TotalFinite
<1>4. QED
  BY <1>3 DEF Needed

LEMMA TrackedFinite ==
    ASSUME ShapeSound, MembersTyped
    PROVE  IsFiniteSet(UNION {{a} \X Tracked(a) : a \in Assets})
<1>1. ASSUME NEW a \in Assets PROVE IsFiniteSet({a} \X Tracked(a))
  <2> DEFINE of == [g \in Owners(a) |-> 1 .. member[g][a]]
             R == {1 .. member[g][a] : g \in Owners(a)}
  <2>1. Owners(a) \subseteq Games /\ IsFiniteSet(Owners(a))
    BY Finite, FS_Subset DEF Owners
  <2>2. of \in Surjection(Owners(a), R)
    BY DEF Surjection
  <2>3. IsFiniteSet(R)
    BY <2>1, <2>2, FS_Surjection
  <2>4. ASSUME NEW g \in Owners(a) PROVE IsFiniteSet(1 .. member[g][a])
    <3>1. member[g][a] \in Nat
      BY DEF Owners, MembersTyped, NoMembers
    <3>2. QED
      BY <3>1, FS_Interval
  <2>5. IsFiniteSet(UNION R)
    BY <2>3, <2>4, FS_UNION
  <2>6. IsFiniteSet(Tracked(a))
    BY <2>5 DEF Tracked
  <2>7. IsFiniteSet({a})
    BY FS_Singleton
  <2>8. QED
    BY <2>6, <2>7, FS_Product
<1> DEFINE of == [a \in Assets |-> {a} \X Tracked(a)]
           R == {{a} \X Tracked(a) : a \in Assets}
<1>2. of \in Surjection(Assets, R)
  BY DEF Surjection
<1>3. IsFiniteSet(R)
  BY <1>2, Finite, FS_Surjection
<1>4. \A T \in R : IsFiniteSet(T)
  BY <1>1
<1>5. QED
  BY <1>3, <1>4, FS_UNION

\* The sums an admission reads are natural numbers.
LEMMA SumsTyped ==
    ASSUME ShapeSound, MembersTyped, RowsTyped
    PROVE  /\ TotalSize \in Nat /\ StagingBytes \in Nat /\ Reserved \in Nat /\ Physical \in Nat
           /\ Total(final, Assets) \in Nat /\ Total(staged, Assets) \in Nat
<1>1. IsFiniteSet({a \in Assets : manifest[a]}) /\ \A a \in Assets : final[a] \in Nat /\ staged[a] \in Nat
  BY Finite, FS_Subset DEF ShapeSound
<1>2. Total(final, Assets) \in Nat /\ Total(staged, Assets) \in Nat
  BY <1>1, Finite, TotalFinite
<1>3. Total(final, {a \in Assets : manifest[a]}) \in Nat
  BY <1>1, TotalFinite
<1>4. Total(row, Procs) \in Nat /\ stale \in Nat
  BY Finite, TotalFinite DEF RowsTyped
<1>5. TotalSize \in Nat
  BY TrackedFinite, FS_CardinalityType DEF TotalSize
<1>6. QED
  BY <1>2, <1>3, <1>4, <1>5 DEF StagingBytes, Reserved, Physical

LEMMA MemoryTypedKept ==
    ASSUME ShapeSound, MembersTyped, RowsTyped, NEW p \in Procs, LocksOf(p), MemoryTyped(p), Acts(p)
    PROVE  MemoryTyped(p)'
<1> USE DEF db, files, plan, reservations, locks, user, sight, count, At, Goto
<1>t. /\ DOMAIN work = Procs /\ DOMAIN work[p] = Fields
      /\ "pc" \in Fields /\ "game" \in Fields /\ "need" \in Fields /\ "left" \in Fields
      /\ "seen" \in Fields /\ "owed" \in Fields
      /\ "have" \in Fields /\ "asset" \in Fields /\ "keep" \in Fields /\ "todo" \in Fields
      /\ "cands" \in Fields /\ "target" \in Fields /\ "existing" \in Fields
  BY DEF ShapeSound, Fields
<1>s. Steps = {"members", "plan", "resume", "cut", "copy", "count", "move", "idle", "admit", "evict",
               "sized", "scanned", "summed", "take", "drop", "enter", "release",
               "rmwait", "rmdiscard", "rmfiles", "rmdrop"}
  BY DEF Steps, Admitting, Transferring
<1>l. /\ At(p, "members") => Closure[work[p].game] \subseteq Assets
      /\ work[p].pc \in {"resume", "cut", "copy", "count", "move"} => work[p].asset \in Assets
  BY DEF LocksOf, OnAsset, Working, Admitting, Transferring
<1>m. staged \in [Assets -> Nat]
  BY DEF ShapeSound
<1>1. CASE EnterAdmission(p)
  BY <1>t, <1>s, IdleTyped, <1>1 DEF EnterAdmission, MemoryTyped
<1>2. CASE DropEntry(p)
  BY <1>t, <1>s, IdleTyped, <1>2 DEF DropEntry, Delete, MemoryTyped
<1>3. CASE Admit(p)
  BY <1>t, <1>s, IdleTyped, <1>3 DEF Admit, MemoryTyped
<1>4. CASE Refuse(p)
  BY <1>t, <1>s, IdleTyped, <1>4 DEF Refuse, Unlocked, MemoryTyped
<1>5. CASE Enter(p)
  BY <1>t, <1>s, IdleTyped, <1>5 DEF Enter, MemoryTyped
<1>6. CASE ReplaceMembership(p)
  BY <1>t, <1>s, <1>l, <1>6 DEF ReplaceMembership, MemoryTyped
<1>7. CASE MembershipRefused(p)
  BY <1>t, <1>s, IdleTyped, <1>7 DEF MembershipRefused, Leave, Unlocked, MemoryTyped
<1>8. CASE Evict(p)
  BY <1>t, <1>s, IdleTyped, <1>8 DEF Evict, Erased, Held, Free, MemoryTyped
<1>9. CASE Cut(p)
  BY <1>t, <1>s, IdleTyped, <1>9 DEF Cut, MemoryTyped
<1>10. CASE Copy(p)
  BY <1>t, <1>s, IdleTyped, <1>10 DEF Copy, MemoryTyped
<1>11. CASE ConsumeGrowth(p)
  BY <1>t, <1>s, IdleTyped, <1>11 DEF ConsumeGrowth, MemoryTyped
<1>12. CASE Promote(p)
  BY <1>t, <1>s, IdleTyped, <1>12 DEF Promote, MemoryTyped
<1>13. CASE Finalize(p)
  BY <1>t, <1>s, IdleTyped, <1>13 DEF Finalize, MemoryTyped
<1>14. CASE Release(p)
  BY <1>t, <1>s, IdleTyped, <1>14 DEF Release, Leave, Unlocked, MemoryTyped
<1>15. CASE LockRemove(p)
  BY <1>t, <1>s, IdleTyped, <1>15 DEF LockRemove, Held, Free, MemoryTyped
<1>16. CASE RemoveFiles(p)
  BY <1>t, <1>s, IdleTyped, <1>16 DEF RemoveFiles, Erased, MemoryTyped
<1>17. CASE DropRemoved(p)
  BY <1>t, <1>s, IdleTyped, <1>17 DEF DropRemoved, Delete, Unlocked, MemoryTyped
<1>18. CASE Crash(p)
  BY <1>t, <1>s, IdleTyped, <1>18 DEF Crash, Leave, Unlocked, MemoryTyped
<1>19. ASSUME NEW g \in Games, LookAgain(p, g) PROVE MemoryTyped(p)'
  BY <1>t, <1>s, IdleTyped, <1>19 DEF LookAgain, Forgets, MemoryTyped
<1>20. ASSUME NEW a \in Assets, PlanAsset(p, a) PROVE MemoryTyped(p)'
  BY <1>t, <1>s, IdleTyped, <1>20 DEF PlanAsset, MemoryTyped
<1>21. ASSUME NEW a \in Assets, Protect(p, a) PROVE MemoryTyped(p)'
  <2>1. staged[a] \in Nat /\ work[p].left + staged[a] \in Nat
    BY <1>m DEF MemoryTyped
  <2>2. QED
    BY <1>t, <1>s, <1>21, <2>1 DEF Protect, MemoryTyped
<1>22. ASSUME NEW checkpoint \in 0 .. Quota, Resume(p, checkpoint) PROVE MemoryTyped(p)'
  <2> DEFINE b == work[p].asset
  <2>1. b \in Assets /\ staged[b] \in Nat /\ checkpoint \in Nat /\ work[p].left \in Nat
    BY <1>l, <1>m, <1>22 DEF Resume, MemoryTyped
  <2>2. CASE staged[b] - checkpoint = 0
    BY <1>t, <1>s, <1>22, <2>2 DEF Resume, MemoryTyped
  <2>3. CASE staged[b] - checkpoint # 0
    <3>1. work[p].left + (staged[b] - checkpoint) \in Nat
      BY <2>1, <1>22 DEF Resume
    <3>2. work' = [work EXCEPT ![p].pc = "cut", ![p].keep = checkpoint,
                               ![p].left = work[p].left + (staged[b] - checkpoint)]
      BY <1>22, <2>3 DEF Resume
    <3> HIDE DEF b
    <3>3. QED
      BY <1>t, <1>s, <2>1, <3>1, <3>2 DEF MemoryTyped
  <2>4. QED
    BY <2>2, <2>3
<1>23. ASSUME NEW g \in Games, Request(p, g) PROVE MemoryTyped(p)'
  BY <1>t, <1>s, IdleTyped, NeededTyped, IdleShape, <1>23 DEF Request, Held, Free, MemoryTyped
<1>24. ASSUME NEW g \in Games, AskRemove(p, g) PROVE MemoryTyped(p)'
  BY <1>t, <1>s, IdleTyped, <1>24 DEF AskRemove, MemoryTyped
<1>25. ASSUME NEW status \in {"failed", "incomplete"}, Fail(p, status) PROVE MemoryTyped(p)'
  BY <1>t, <1>s, IdleTyped, <1>25 DEF Fail, Leave, Unlocked, Marked, Transferring, MemoryTyped
<1>26. CASE Reads(p)
  <2>1. /\ TotalSize \in Nat /\ Reserved \in Nat
        /\ work[p].seen + StagingBytes \in Nat
    BY SumsTyped DEF MemoryTyped
  <2>2. QED
    BY <1>t, <1>s, <1>26, <2>1 DEF Reads, ReadFinal, ReadStaging, ReadReserved, Enough, Forgets,
       MemoryTyped
<1>27. CASE DiscardStaging(p)
  BY <1>t, <1>s, IdleTyped, <1>27 DEF DiscardStaging, Discard, MemoryTyped
<1>28. QED
  BY <1>1, <1>2, <1>3, <1>4, <1>5, <1>6, <1>7, <1>8, <1>9, <1>10, <1>11, <1>12, <1>13, <1>14,
     <1>15, <1>16, <1>17, <1>18, <1>19, <1>20, <1>21, <1>22, <1>23, <1>24, <1>25, <1>26,
     <1>27 DEF Acts,
     Program, Reads

LEMMA RowsTypedKept ==
    ASSUME ShapeSound, NEW p \in Procs, LocksOf(p), MemoryTyped(p), RowsTyped, Acts(p)
    PROVE  RowsTyped'
<1> USE DEF db, files, plan, reservations, locks, user, sight, count, At, Goto
<1>t. /\ work[p].need \in Nat /\ work[p].left \in Nat /\ staged \in [Assets -> Nat]
      /\ row \in [Procs -> Nat] /\ stale \in Nat /\ row[p] \in Nat
  BY DEF ShapeSound, MemoryTyped, RowsTyped
<1>l. work[p].pc \in {"resume", "cut", "copy", "count", "move"} => work[p].asset \in Assets
  BY DEF LocksOf, OnAsset, Working, Admitting, Transferring
<1>1. CASE EnterAdmission(p)
  BY <1>t, <1>1 DEF EnterAdmission, RowsTyped
<1>2. CASE DropEntry(p)
  BY <1>t, <1>2 DEF DropEntry, Delete, RowsTyped
<1>3. CASE Admit(p)
  BY <1>t, <1>3 DEF Admit, RowsTyped
<1>4. CASE Refuse(p)
  BY <1>t, <1>4 DEF Refuse, Unlocked, RowsTyped
<1>5. CASE Enter(p)
  BY <1>t, <1>5 DEF Enter, RowsTyped
<1>6. CASE ReplaceMembership(p)
  BY <1>t, <1>6 DEF ReplaceMembership, RowsTyped
<1>7. CASE MembershipRefused(p)
  BY <1>t, <1>7 DEF MembershipRefused, Leave, Unlocked, RowsTyped
<1>8. CASE Evict(p)
  BY <1>t, <1>8 DEF Evict, Erased, Held, Free, RowsTyped
<1>9. CASE Cut(p)
  BY <1>t, <1>9 DEF Cut, RowsTyped
<1>10. CASE Copy(p)
  BY <1>t, <1>10 DEF Copy, RowsTyped
<1>11. CASE ConsumeGrowth(p)
  <2> DEFINE left == IF work[p].left > 0 THEN work[p].left - 1 ELSE 0
  <2>1. left \in Nat
    BY <1>t
  <2>2. stale' = stale /\ (row' = [row EXCEPT ![p] = left] \/ row' = [row EXCEPT ![p] = @])
    BY <1>11 DEF ConsumeGrowth
  <2> HIDE DEF left
  <2>3. QED
    BY <1>t, <2>1, <2>2 DEF RowsTyped
<1>12. CASE Promote(p)
  BY <1>t, <1>12 DEF Promote, RowsTyped
<1>13. CASE Finalize(p)
  BY <1>t, <1>13 DEF Finalize, RowsTyped
<1>14. CASE Release(p)
  BY <1>t, <1>14 DEF Release, Leave, Unlocked, RowsTyped
<1>15. CASE LockRemove(p)
  BY <1>t, <1>15 DEF LockRemove, Held, Free, RowsTyped
<1>16. CASE RemoveFiles(p)
  BY <1>t, <1>16 DEF RemoveFiles, Erased, RowsTyped
<1>17. CASE DropRemoved(p)
  BY <1>t, <1>17 DEF DropRemoved, Delete, Unlocked, RowsTyped
<1>18. CASE Crash(p)
  <2>1. stale' = stale + row[p] /\ row' = [row EXCEPT ![p] = 0]
    BY <1>18 DEF Crash, Leave
  <2>2. QED
    BY <1>t, <2>1 DEF RowsTyped
<1>19. ASSUME NEW g \in Games, LookAgain(p, g) PROVE RowsTyped'
  BY <1>t, <1>19 DEF LookAgain, Forgets, RowsTyped
<1>20. ASSUME NEW a \in Assets, PlanAsset(p, a) PROVE RowsTyped'
  BY <1>t, <1>20 DEF PlanAsset, RowsTyped
<1>21. ASSUME NEW a \in Assets, Protect(p, a) PROVE RowsTyped'
  BY <1>t, <1>21 DEF Protect, Promotable, RowsTyped
<1>22. ASSUME NEW checkpoint \in 0 .. Quota, Resume(p, checkpoint) PROVE RowsTyped'
  <2>1. work[p].asset \in Assets /\ staged[work[p].asset] \in Nat /\ checkpoint \in Nat
    BY <1>t, <1>l, <1>22 DEF Resume
  <2>2. work[p].left + (staged[work[p].asset] - checkpoint) \in Nat
    BY <1>t, <2>1, <1>22 DEF Resume
  <2>3. stale' = stale /\ (row' = row \/
           row' = [row EXCEPT ![p] = work[p].left + (staged[work[p].asset] - checkpoint)])
    BY <1>22 DEF Resume
  <2>4. QED
    BY <1>t, <2>2, <2>3 DEF RowsTyped
<1>23. ASSUME NEW g \in Games, Request(p, g) PROVE RowsTyped'
  BY <1>t, <1>23 DEF Request, Held, Free, RowsTyped
<1>24. ASSUME NEW g \in Games, AskRemove(p, g) PROVE RowsTyped'
  BY <1>t, <1>24 DEF AskRemove, RowsTyped
<1>25. ASSUME NEW status \in {"failed", "incomplete"}, Fail(p, status) PROVE RowsTyped'
  BY <1>t, <1>25 DEF Fail, Leave, Unlocked, Marked, Transferring, RowsTyped
<1>26. CASE Reads(p)
  BY <1>t, <1>26 DEF Reads, ReadFinal, ReadStaging, ReadReserved, Enough, Forgets, RowsTyped
<1>27. CASE DiscardStaging(p)
  BY <1>t, <1>27 DEF DiscardStaging, Discard, RowsTyped
<1>28. QED
  BY <1>1, <1>2, <1>3, <1>4, <1>5, <1>6, <1>7, <1>8, <1>9, <1>10, <1>11, <1>12, <1>13, <1>14,
     <1>15, <1>16, <1>17, <1>18, <1>19, <1>20, <1>21, <1>22, <1>23, <1>24, <1>25, <1>26,
     <1>27 DEF Acts,
     Program, Reads

LEMMA MembersTypedKept ==
    ASSUME ShapeSound, NEW p \in Procs, LocksOf(p), MembersTyped, Acts(p)
    PROVE  MembersTyped'
<1> USE DEF db, files, plan, reservations, locks, user, sight, count, At, Goto
<1>t. /\ MembersTyped /\ DOMAIN member = Games /\ DOMAIN entry = Games
      /\ final \in [Assets -> Nat] /\ \A g \in Games : \A a \in Closure[g] : Size[a] \in Nat
  BY DEF ShapeSound
<1>g. /\ work[p].pc \in Working => work[p].game \in Games
      /\ work[p].pc \in {"drop", "rmdrop"} => work[p].target \in Games
  BY DEF LocksOf
<1>w. {"members", "plan", "enter"} \subseteq Working /\ Transferring \subseteq Working
  BY DEF Working, Admitting, Transferring
<1>1. CASE EnterAdmission(p)
  BY <1>t, <1>1 DEF EnterAdmission, MembersTyped
<1>2. CASE DropEntry(p)
  BY <1>t, <1>2 DEF DropEntry, Delete, MembersTyped
<1>3. CASE Admit(p)
  BY <1>t, <1>3 DEF Admit, MembersTyped
<1>4. CASE Refuse(p)
  BY <1>t, <1>4 DEF Refuse, Unlocked, MembersTyped
<1>5. CASE Enter(p)
  BY <1>t, <1>g, <1>w, <1>5 DEF Enter, MembersTyped
<1>6. CASE ReplaceMembership(p)
  <2> DEFINE g == work[p].game
             recorded == [a \in Closure[g] |-> IF a \in work[p].have THEN Size[a] ELSE 0]
  <2>1. g \in Games /\ recorded \in [Closure[g] -> Nat]
    BY <1>t, <1>g, <1>w, <1>6 DEF ReplaceMembership
  <2>2. UNCHANGED <<entry, pin>> /\ member' = [member EXCEPT ![g] = recorded]
    BY <1>6 DEF ReplaceMembership
  <2> HIDE DEF g, recorded
  <2>3. QED
    BY <1>t, <2>1, <2>2 DEF MembersTyped
<1>7. CASE MembershipRefused(p)
  BY <1>t, <1>7 DEF MembershipRefused, Leave, Unlocked, MembersTyped
<1>8. CASE Evict(p)
  BY <1>t, <1>8 DEF Evict, Erased, Held, Free, MembersTyped
<1>9. CASE Cut(p)
  BY <1>t, <1>9 DEF Cut, MembersTyped
<1>10. CASE Copy(p)
  BY <1>t, <1>10 DEF Copy, MembersTyped
<1>11. CASE ConsumeGrowth(p)
  BY <1>t, <1>11 DEF ConsumeGrowth, MembersTyped
<1>12. CASE Promote(p)
  BY <1>t, <1>12 DEF Promote, MembersTyped
<1>13. CASE Finalize(p)
  <2> DEFINE g == work[p].game
             sized == [a \in DOMAIN member[g] |-> final[a]]
  <2>1. entry' = [entry EXCEPT ![g] = IF @ = "none" THEN @ ELSE "complete"] /\ pin' = pin
        /\ member' = [member EXCEPT ![g] = sized] /\ g \in Games
    BY <1>g, <1>w, <1>13 DEF Finalize
  <2>2. member[g] # NoMembers => sized \in [Closure[g] -> Nat]
    BY <1>t, <2>1 DEF MembersTyped
  <2>3. member[g] = NoMembers => sized = NoMembers
    BY DEF NoMembers
  <2> HIDE DEF sized, g
  <2>4. QED
    BY <1>t, <2>1, <2>2, <2>3 DEF MembersTyped
<1>14. CASE Release(p)
  BY <1>t, <1>14 DEF Release, Leave, Unlocked, MembersTyped
<1>15. CASE LockRemove(p)
  BY <1>t, <1>15 DEF LockRemove, Held, Free, MembersTyped
<1>16. CASE RemoveFiles(p)
  BY <1>t, <1>16 DEF RemoveFiles, Erased, MembersTyped
<1>17. CASE DropRemoved(p)
  BY <1>t, <1>17 DEF DropRemoved, Delete, Unlocked, MembersTyped
<1>18. CASE Crash(p)
  BY <1>t, <1>18 DEF Crash, Leave, Unlocked, MembersTyped
<1>19. ASSUME NEW g \in Games, LookAgain(p, g) PROVE MembersTyped'
  BY <1>t, <1>19 DEF LookAgain, Forgets, MembersTyped
<1>20. ASSUME NEW a \in Assets, PlanAsset(p, a) PROVE MembersTyped'
  BY <1>t, <1>20 DEF PlanAsset, MembersTyped
<1>21. ASSUME NEW a \in Assets, Protect(p, a) PROVE MembersTyped'
  BY <1>t, <1>21 DEF Protect, Promotable, MembersTyped
<1>22. ASSUME NEW checkpoint \in 0 .. Quota, Resume(p, checkpoint) PROVE MembersTyped'
  BY <1>t, <1>22 DEF Resume, MembersTyped
<1>23. ASSUME NEW g \in Games, Request(p, g) PROVE MembersTyped'
  BY <1>t, <1>23 DEF Request, Held, Free, MembersTyped
<1>24. ASSUME NEW g \in Games, AskRemove(p, g) PROVE MembersTyped'
  BY <1>t, <1>24 DEF AskRemove, MembersTyped
<1>25. ASSUME NEW status \in {"failed", "incomplete"}, Fail(p, status) PROVE MembersTyped'
  BY <1>t, <1>25 DEF Fail, Leave, Unlocked, Marked, Transferring, MembersTyped
<1>26. CASE Reads(p)
  BY <1>t, <1>26 DEF Reads, ReadFinal, ReadStaging, ReadReserved, Enough, Forgets, MembersTyped
<1>27. CASE DiscardStaging(p)
  BY <1>t, <1>27 DEF DiscardStaging, Discard, MembersTyped
<1>28. QED
  BY <1>1, <1>2, <1>3, <1>4, <1>5, <1>6, <1>7, <1>8, <1>9, <1>10, <1>11, <1>12, <1>13, <1>14,
     <1>15, <1>16, <1>17, <1>18, <1>19, <1>20, <1>21, <1>22, <1>23, <1>24, <1>25, <1>26,
     <1>27 DEF Acts,
     Program, Reads

LEMMA RestTypedKept ==
    ASSUME ShapeSound, NEW p \in Procs, LocksOf(p), RestTyped, Acts(p)
    PROVE  RestTyped'
<1> USE DEF db, files, plan, reservations, locks, user, sight, count, At, Goto
<1>t. RestTyped /\ \A g \in Games : DOMAIN member[g] \subseteq Assets
  BY MembersInClosure
<1>g. /\ work[p].pc \in Working => Closure[work[p].game] \subseteq Assets
      /\ work[p].pc \in {"drop", "rmdiscard", "rmfiles", "rmdrop"} =>
           work[p].target \in Games /\ Closure[work[p].target] \subseteq Assets
  BY DEF LocksOf
<1>w. "members" \in Working
  BY DEF Working, Admitting, Transferring
<1>1. CASE EnterAdmission(p)
  BY <1>t, <1>g, <1>w, <1>1 DEF EnterAdmission, RestTyped
<1>2. CASE DropEntry(p)
  BY <1>t, <1>g, <1>w, <1>2 DEF DropEntry, Delete, Undercounted, KeptFor, RestTyped
<1>3. CASE Admit(p)
  BY <1>t, <1>g, <1>w, <1>3 DEF Admit, RestTyped
<1>4. CASE Refuse(p)
  BY <1>t, <1>g, <1>w, <1>4 DEF Refuse, Unlocked, RestTyped
<1>5. CASE Enter(p)
  BY <1>t, <1>g, <1>w, <1>5 DEF Enter, RestTyped
<1>6. CASE ReplaceMembership(p)
  BY <1>t, <1>g, <1>w, <1>6 DEF ReplaceMembership, RestTyped
<1>7. CASE MembershipRefused(p)
  BY <1>t, <1>g, <1>w, <1>7 DEF MembershipRefused, Leave, Unlocked, RestTyped
<1>8. CASE Evict(p)
  BY <1>t, <1>g, <1>w, <1>8 DEF Evict, Erased, Held, Free, RestTyped
<1>9. CASE Cut(p)
  BY <1>t, <1>g, <1>w, <1>9 DEF Cut, RestTyped
<1>10. CASE Copy(p)
  BY <1>t, <1>g, <1>w, <1>10 DEF Copy, RestTyped
<1>11. CASE ConsumeGrowth(p)
  BY <1>t, <1>g, <1>w, <1>11 DEF ConsumeGrowth, RestTyped
<1>12. CASE Promote(p)
  BY <1>t, <1>g, <1>w, <1>12 DEF Promote, RestTyped
<1>13. CASE Finalize(p)
  BY <1>t, <1>g, <1>w, <1>13 DEF Finalize, RestTyped
<1>14. CASE Release(p)
  BY <1>t, <1>g, <1>w, <1>14 DEF Release, Leave, Unlocked, RestTyped
<1>15. CASE LockRemove(p)
  BY <1>t, <1>g, <1>w, <1>15 DEF LockRemove, Held, Free, RestTyped
<1>16. CASE RemoveFiles(p)
  BY <1>t, <1>g, <1>w, <1>16 DEF RemoveFiles, Erased, RestTyped
<1>17. CASE DropRemoved(p)
  BY <1>t, <1>g, <1>w, <1>17 DEF DropRemoved, Delete, Unlocked, Undercounted, KeptFor, RestTyped
<1>18. CASE Crash(p)
  BY <1>t, <1>g, <1>w, <1>18 DEF Crash, Leave, Unlocked, RestTyped
<1>19. ASSUME NEW g \in Games, LookAgain(p, g) PROVE RestTyped'
  BY <1>t, <1>g, <1>w, <1>19 DEF LookAgain, Forgets, RestTyped
<1>20. ASSUME NEW a \in Assets, PlanAsset(p, a) PROVE RestTyped'
  BY <1>t, <1>g, <1>w, <1>20 DEF PlanAsset, RestTyped
<1>21. ASSUME NEW a \in Assets, Protect(p, a) PROVE RestTyped'
  BY <1>t, <1>g, <1>w, <1>21 DEF Protect, Promotable, RestTyped
<1>22. ASSUME NEW checkpoint \in 0 .. Quota, Resume(p, checkpoint) PROVE RestTyped'
  BY <1>t, <1>g, <1>w, <1>22 DEF Resume, RestTyped
<1>23. ASSUME NEW g \in Games, Request(p, g) PROVE RestTyped'
  BY <1>t, <1>g, <1>w, <1>23 DEF Request, Held, Free, RestTyped
<1>24. ASSUME NEW g \in Games, AskRemove(p, g) PROVE RestTyped'
  BY <1>t, <1>g, <1>w, <1>24 DEF AskRemove, RestTyped
<1>25. ASSUME NEW status \in {"failed", "incomplete"}, Fail(p, status) PROVE RestTyped'
  BY <1>t, <1>g, <1>w, <1>25 DEF Fail, Leave, Unlocked, Marked, Transferring, RestTyped
<1>26. CASE Reads(p)
  BY <1>t, <1>g, <1>w, <1>26 DEF Reads, ReadFinal, ReadStaging, ReadReserved, Enough, Forgets,
       RestTyped
<1>27. CASE DiscardStaging(p)
  BY <1>t, <1>g, <1>w, <1>27 DEF DiscardStaging, Discard, RestTyped
<1>28. QED
  BY <1>1, <1>2, <1>3, <1>4, <1>5, <1>6, <1>7, <1>8, <1>9, <1>10, <1>11, <1>12, <1>13, <1>14,
     <1>15, <1>16, <1>17, <1>18, <1>19, <1>20, <1>21, <1>22, <1>23, <1>24, <1>25, <1>26,
     <1>27 DEF Acts,
     Program, Reads

LEMMA TypeKeptBeside ==
    ASSUME ShapeSound, MembersTyped, RowsTyped, RestTyped, \A p \in Procs : MemoryTyped(p), Beside
    PROVE  MembersTyped' /\ RowsTyped' /\ RestTyped' /\ \A p \in Procs : MemoryTyped(p)'
<1> USE DEF db, files, plan, reservations, locks, user, sight, count, At
<1>1. UNCHANGED <<row, stale, work>>
  BY DEF Beside, LaunchEnds, MarkLaunched, DiscardPartial, Discard, Damage, PinRead, UnpinRead,
       ControlWrite
<1>2. RowsTyped' /\ \A p \in Procs : MemoryTyped(p)'
  BY <1>1 DEF RowsTyped, MemoryTyped
<1>t. \A g \in Games : DOMAIN member[g] \subseteq Assets
  BY MembersInClosure
<1>3. RestTyped'
  <2>1. ASSUME NEW p \in Procs, LaunchEnds(p) PROVE RestTyped'
    BY <2>1 DEF LaunchEnds, RestTyped
  <2>2. ASSUME NEW p \in Procs, NEW g \in Games, MarkLaunched(p, g) PROVE RestTyped'
    BY <2>2 DEF MarkLaunched, RestTyped
  <2>3. ASSUME NEW a \in Assets, DiscardPartial(a) PROVE RestTyped'
    BY <2>3 DEF DiscardPartial, Discard, RestTyped
  <2>4. ASSUME NEW a \in Assets, Damage(a) PROVE RestTyped'
    BY <2>4 DEF Damage, RestTyped
  <2>5. ASSUME NEW g \in Games, PinRead(g) \/ UnpinRead(g) PROVE RestTyped'
    <3>1. /\ UNCHANGED <<admission, launch, wanted, stray, unplanned, unseen, overlooked>>
          /\ UNCHANGED <<requests, faults>> /\ controls' = controls + 1
      BY <2>5 DEF PinRead, UnpinRead
    <3>2. QED
      BY <3>1 DEF RestTyped
  <2>6. CASE ControlWrite
    <3>1. control.game \in Games
      BY <2>6 DEF ControlWrite, ShapeSound
    <3>2. /\ stray' \subseteq stray \cup DOMAIN member[control.game]
          /\ wanted' \subseteq wanted \cup {control.game}
          /\ UNCHANGED <<admission, launch, unplanned, unseen, overlooked>>
          /\ UNCHANGED <<requests, controls, faults>>
      BY <2>6 DEF ControlWrite
    <3>3. QED
      BY <1>t, <3>1, <3>2 DEF RestTyped
  <2>7. QED
    BY <2>1, <2>2, <2>3, <2>4, <2>5, <2>6 DEF Beside
<1>4. MembersTyped'
  <2>1. UNCHANGED <<entry, pin, member>> \/ ControlWrite
    BY DEF Beside, LaunchEnds, MarkLaunched, DiscardPartial, Discard, Damage, PinRead, UnpinRead
  <2>2. CASE UNCHANGED <<entry, pin, member>>
    BY <2>2 DEF MembersTyped
  <2>3. CASE ControlWrite
    <3> DEFINE g == control.game
    <3>t. g \in Games /\ DOMAIN member = Games /\ DOMAIN entry = Games
      BY <2>3 DEF ControlWrite, ShapeSound
    <3>1. CASE UNCHANGED member /\ pin' = [pin EXCEPT ![g] = TRUE]
               /\ entry' = [entry EXCEPT ![g] = "incomplete"]
      BY <3>t, <3>1 DEF MembersTyped
    <3>2. CASE Delete(g)
      BY <3>t, <3>2 DEF MembersTyped, Delete
    <3>3. CASE UNCHANGED <<member, entry>>
               /\ pin' = [pin EXCEPT ![g] = (control.op = "pin" /\ entry[g] # "none")]
      BY <3>t, <3>3 DEF MembersTyped
    <3>4. QED
      BY <2>3, <3>1, <3>2, <3>3 DEF ControlWrite
  <2>4. QED
    BY <2>1, <2>2, <2>3
<1>5. QED
  BY <1>2, <1>3, <1>4

LEMMA TypeStep == CacheInv /\ TypeOK /\ [Next]_vars => TypeOK'
<1> SUFFICES ASSUME CacheInv, TypeOK, [Next]_vars PROVE TypeOK'
  OBVIOUS
<1>c. ShapeSound /\ ShapeSound' /\ \A q \in Procs : LocksOf(q)
  BY StepInv DEF CacheInv, ProcSound
<1>t. MembersTyped /\ RowsTyped /\ RestTyped /\ \A q \in Procs : MemoryTyped(q)
  BY <1>c, TypeIs
<1>i. MembersTyped' /\ RowsTyped' /\ RestTyped' /\ (\A q \in Procs : MemoryTyped(q)') => TypeOK'
  BY <1>c DEF TypeOK, MembersTyped, RowsTyped, RestTyped, MemoryTyped, ShapeSound
<1>1. ASSUME NEW p \in Procs, Acts(p) PROVE TypeOK'
  <2>1. MembersTyped' /\ RowsTyped' /\ RestTyped' /\ MemoryTyped(p)'
    BY <1>c, <1>t, <1>1, MembersTypedKept, RowsTypedKept, RestTypedKept, MemoryTypedKept
  <2>2. ASSUME NEW q \in Procs, q # p PROVE MemoryTyped(q)'
    <3>1. work'[q] = work[q]
      BY <1>c, <1>1, <2>2, ActsMemory DEF MemoryOf
    <3>2. QED
      BY <1>t, <3>1 DEF MemoryTyped
  <2>3. QED
    BY <1>i, <2>1, <2>2
<1>2. CASE Beside
  BY <1>c, <1>t, <1>i, <1>2, TypeKeptBeside
<1>3. CASE UNCHANGED vars
  BY <1>3 DEF vars, db, files, plan, reservations, locks, user, sight, count, TypeOK
<1>4. QED
  BY <1>1, <1>2, <1>3, NextIs

-----------------------------------------------------------------------------
(* Every byte is counted.                                                  *)

\* A final file is never larger than the source; one that is whole has nothing left in
\* .partial, and nothing is left there without its manifest.
MediaSound == \A a \in Assets :
    /\ final[a] <= Size[a]
    /\ Intact(a) => staged[a] = 0 /\ (manifest[a] => done[a])
    /\ staged[a] > 0 => manifest[a]

\* What a transfer has dealt with is promoted or ready for it; what it works on is missing
\* and has its manifest.
CopiedOf(p) ==
    /\ work[p].pc \in Planned =>
         \A a \in Closure[work[p].game] \ work[p].todo : staged[a] > 0 => done[a]
    /\ work[p].pc \in OnAsset \ {"move"} => ~Intact(work[p].asset) /\ manifest[work[p].asset]

\* Between erasing the files of a game and deleting its entry.
KeptOf(p) ==
    work[p].pc \in {"drop", "rmdrop"} => \A a \in DOMAIN member[work[p].target] :
        a \in stray \/ final[a] = 0 \/ Owners(a) # {work[p].target}

\* The steps that touch files, manifests or members.
Quiet == UNCHANGED <<final, staged, manifest, done, member, stray>>
Effect(p) == \/ Quiet \/ Evict(p) \/ DropEntry(p) \/ ReplaceMembership(p)
             \/ (\E a \in Assets : PlanAsset(p, a)) \/ Cut(p) \/ Copy(p) \/ Promote(p) \/ Finalize(p)
             \/ DiscardStaging(p) \/ RemoveFiles(p) \/ DropRemoved(p)

LEMMA EffectOf ==
    ASSUME NEW p \in Procs, Acts(p)
    PROVE  Effect(p) /\ unplanned' = unplanned /\ (overlooked => overlooked')
<1> USE DEF db, files, plan, reservations, locks, user, sight, count
<1>1. CASE EnterAdmission(p)
  BY <1>1 DEF EnterAdmission, Quiet, Effect
<1>2. CASE DropEntry(p)
  BY <1>2 DEF Effect, DropEntry
<1>3. CASE Admit(p)
  BY <1>3 DEF Admit, Quiet, Effect
<1>4. CASE Refuse(p)
  BY <1>4 DEF Refuse, Unlocked, Quiet, Effect
<1>5. CASE Enter(p)
  BY <1>5 DEF Enter, Quiet, Effect
<1>6. CASE ReplaceMembership(p)
  BY <1>6 DEF Effect, ReplaceMembership
<1>7. CASE MembershipRefused(p)
  BY <1>7 DEF MembershipRefused, Leave, Unlocked, Quiet, Effect
<1>8. CASE Evict(p)
  BY <1>8 DEF Effect, Evict
<1>9. CASE Cut(p)
  BY <1>9 DEF Effect, Cut
<1>10. CASE Copy(p)
  BY <1>10 DEF Effect, Copy
<1>11. CASE ConsumeGrowth(p)
  BY <1>11 DEF ConsumeGrowth, Quiet, Effect
<1>12. CASE Promote(p)
  BY <1>12 DEF Effect, Promote
<1>13. CASE Finalize(p)
  BY <1>13 DEF Effect, Finalize
<1>14. CASE Release(p)
  BY <1>14 DEF Release, Leave, Unlocked, Quiet, Effect
<1>15. CASE LockRemove(p)
  BY <1>15 DEF LockRemove, Held, Free, Quiet, Effect
<1>16. CASE RemoveFiles(p)
  BY <1>16 DEF Effect, RemoveFiles
<1>17. CASE DropRemoved(p)
  BY <1>17 DEF Effect, DropRemoved
<1>18. CASE Crash(p)
  BY <1>18 DEF Crash, Leave, Unlocked, Quiet, Effect
<1>19. ASSUME NEW g \in Games, LookAgain(p, g)
       PROVE  Effect(p) /\ unplanned' = unplanned /\ (overlooked => overlooked')
  BY <1>19 DEF LookAgain, Forgets, Quiet, Effect
<1>20. ASSUME NEW a \in Assets, PlanAsset(p, a)
       PROVE  Effect(p) /\ unplanned' = unplanned /\ (overlooked => overlooked')
  BY <1>20 DEF Effect, PlanAsset
<1>21. ASSUME NEW a \in Assets, Protect(p, a)
       PROVE  Effect(p) /\ unplanned' = unplanned /\ (overlooked => overlooked')
  BY <1>21 DEF Protect, Promotable, Quiet, Effect
<1>22. ASSUME NEW checkpoint \in 0 .. Quota, Resume(p, checkpoint)
       PROVE  Effect(p) /\ unplanned' = unplanned /\ (overlooked => overlooked')
  BY <1>22 DEF Resume, Quiet, Effect
<1>23. ASSUME NEW g \in Games, Request(p, g)
       PROVE  Effect(p) /\ unplanned' = unplanned /\ (overlooked => overlooked')
  BY <1>23 DEF Request, Held, Free, Quiet, Effect
<1>24. ASSUME NEW g \in Games, AskRemove(p, g)
       PROVE  Effect(p) /\ unplanned' = unplanned /\ (overlooked => overlooked')
  BY <1>24 DEF AskRemove, Quiet, Effect
<1>25. ASSUME NEW status \in {"failed", "incomplete"}, Fail(p, status)
       PROVE  Effect(p) /\ unplanned' = unplanned /\ (overlooked => overlooked')
  BY <1>25 DEF Fail, Leave, Unlocked, Marked, Transferring, Quiet, Effect
<1>26. CASE Reads(p)
  BY <1>26 DEF Reads, ReadFinal, ReadStaging, ReadReserved, Enough, Forgets, Quiet, Effect
<1>27. CASE DiscardStaging(p)
  BY <1>27 DEF Effect, DiscardStaging, Discard
<1>28. QED
  BY <1>1, <1>2, <1>3, <1>4, <1>5, <1>6, <1>7, <1>8, <1>9, <1>10, <1>11, <1>12, <1>13, <1>14,
     <1>15, <1>16, <1>17, <1>18, <1>19, <1>20, <1>21, <1>22, <1>23, <1>24, <1>25, <1>26,
     <1>27 DEF Acts,
     Program, Reads

\* Under a sound state an asset can be adopted when it is whole.
LEMMA AdoptableIs == ASSUME MediaSound, NEW a \in Assets PROVE Adoptable(a) <=> Intact(a)
BY DEF MediaSound, Adoptable

LEMMA Positions ==
    /\ Working = {"admit", "evict", "sized", "scanned", "summed", "take", "drop",
                  "enter", "release", "members", "plan", "resume", "cut", "copy", "count", "move"}
    /\ OnAsset = {"resume", "cut", "copy", "count", "move"}
    /\ Planned = {"resume", "cut", "copy", "count", "move", "plan"}
BY DEF Working, Admitting, Transferring, OnAsset, Planned

LEMMA FieldsOf ==
    ASSUME ShapeSound, NEW p \in Procs
    PROVE  /\ DOMAIN work = Procs /\ DOMAIN work[p] = Fields
           /\ "pc" \in Fields /\ "game" \in Fields /\ "need" \in Fields /\ "left" \in Fields
           /\ "seen" \in Fields /\ "owed" \in Fields
           /\ "have" \in Fields /\ "asset" \in Fields /\ "keep" \in Fields /\ "todo" \in Fields
           /\ "cands" \in Fields /\ "target" \in Fields /\ "existing" \in Fields
BY DEF ShapeSound, Fields

\* Where a process is, and what it has.
LEMMA Placed ==
    ASSUME ShapeSound, NEW p \in Procs, LocksOf(p)
    PROVE  /\ work[p].pc \in Planned \cup {"members", "enter", "admit", "evict", "sized", "scanned", "summed",
                                          "take", "drop"} =>
                /\ work[p].game \in Games /\ Closure[work[p].game] \subseteq Assets
                /\ LockedBy(p, Closure[work[p].game])
           /\ work[p].pc \in Planned => work[p].todo \subseteq Closure[work[p].game]
           /\ work[p].pc \in OnAsset => work[p].asset \in Closure[work[p].game] /\ work[p].asset \in Assets
           /\ work[p].pc \in OnAsset \ {"move"} => work[p].asset \in work[p].todo
           /\ At(p, "move") => work[p].todo = {}
           /\ work[p].pc \in {"take", "drop", "rmwait", "rmdiscard", "rmfiles", "rmdrop"} =>
                work[p].target \in Games /\ Closure[work[p].target] \subseteq Assets
           /\ work[p].pc \in {"drop", "rmdiscard", "rmfiles", "rmdrop"} => LockedBy(p, Closure[work[p].target])
BY Positions DEF LocksOf

LEMMA MediaSoundKept ==
    ASSUME ShapeSound, FilesSound, MediaSound, NEW p \in Procs, LocksOf(p), StagedOf(p), CopiedOf(p),
           Acts(p)
    PROVE  MediaSound'
<1> USE DEF db, files, plan, reservations, locks, user, sight, count, At
<1>m. /\ manifest \in [Assets -> BOOLEAN] /\ done \in [Assets -> BOOLEAN]
      /\ final \in [Assets -> Nat] /\ staged \in [Assets -> Nat]
      /\ \A a \in Assets : Size[a] \in Nat /\ Size[a] # 0
  BY Finite, Assumed DEF ShapeSound
<1>1. CASE Quiet
  BY <1>1 DEF Quiet, MediaSound, Intact
<1>2. CASE Evict(p)
  BY <1>m, <1>2 DEF Evict, Erased, MediaSound, Intact
<1>3. CASE DropEntry(p)
  BY <1>3 DEF DropEntry, MediaSound, Intact
<1>4. CASE ReplaceMembership(p)
  BY <1>4 DEF ReplaceMembership, MediaSound, Intact
<1>5. ASSUME NEW b \in Assets, PlanAsset(p, b) PROVE MediaSound'
  <2>1. CASE Adoptable(b)
    BY <1>5, <2>1 DEF PlanAsset, MediaSound, Intact
  <2>2. CASE ~Adoptable(b)
    <3>1. /\ manifest' = [manifest EXCEPT ![b] = TRUE]
          /\ done' = [done EXCEPT ![b] = @ /\ manifest[b]]
          /\ final' = final /\ staged' = staged
      BY <1>5, <2>2 DEF PlanAsset
    <3>2. final[b] # Size[b]
      BY <2>2, AdoptableIs DEF Intact
    <3>3. ASSUME NEW a \in Assets, a # b PROVE manifest'[a] = manifest[a] /\ done'[a] = done[a]
      BY <1>m, <3>1, <3>3
    <3>4. manifest'[b]
      BY <1>m, <3>1
    <3>5. QED
      BY <3>1, <3>2, <3>3, <3>4 DEF MediaSound, Intact
  <2>3. QED
    BY <2>1, <2>2
<1>p. work[p].pc \in {"cut", "copy"} =>
        work[p].asset \in Assets /\ final[work[p].asset] # Size[work[p].asset] /\ manifest[work[p].asset]
  BY Placed, Positions DEF CopiedOf, Intact
<1>6. CASE Cut(p)
  BY <1>m, <1>p, <1>6 DEF Cut, MediaSound, Intact
<1>7. CASE Copy(p)
  <2> DEFINE b == work[p].asset
  <2>1. b \in Assets /\ final[b] # Size[b] /\ manifest[b]
    BY <1>p, <1>7 DEF Copy
  <2>2. /\ final' = final /\ manifest' = manifest
        /\ \A a \in Assets : a # b => staged'[a] = staged[a] /\ done'[a] = done[a]
    BY <1>m, <1>7 DEF Copy
  <2> HIDE DEF b
  <2>3. QED
    BY <2>1, <2>2 DEF MediaSound, Intact
<1>8. CASE Promote(p)
  <2> DEFINE b == work[p].asset
  <2>1. b \in Assets /\ done[b] /\ staged[b] = Size[b]
    BY <1>m, <1>8, Placed, Positions DEF Promote, StagedOf, FilesSound
  <2>2. /\ final' = [final EXCEPT ![b] = staged[b]] /\ staged' = [staged EXCEPT ![b] = 0]
        /\ UNCHANGED <<manifest, done>>
    BY <1>8 DEF Promote
  <2> HIDE DEF b
  <2>3. QED
    BY <1>m, <2>1, <2>2 DEF MediaSound, Intact
<1>9. CASE Finalize(p)
  <2> DEFINE g == work[p].game
  <2>1. \A a \in Closure[g] : staged[a] = 0
    <3>1. g \in Games /\ Closure[g] \subseteq Assets /\ work[p].todo = {} /\ Promotable(g) = {}
          /\ work[p].pc \in Planned
      BY <1>9, Placed, Positions DEF Finalize
    <3>2. \A a \in Closure[g] : staged[a] > 0 => done[a]
      BY <3>1 DEF CopiedOf
    <3>3. QED
      BY <1>m, <3>1, <3>2 DEF Promotable
  <2>2. /\ UNCHANGED <<final, staged>>
        /\ manifest' = [a \in Assets |-> manifest[a] /\ a \notin Closure[g]]
        /\ done' = [a \in Assets |-> done[a] /\ a \notin Closure[g]]
    BY <1>9 DEF Finalize
  <2> HIDE DEF g
  <2>3. ASSUME NEW a \in Assets
        PROVE  \/ a \notin Closure[g] /\ manifest'[a] = manifest[a] /\ done'[a] = done[a]
               \/ a \in Closure[g] /\ staged[a] = 0 /\ ~manifest'[a]
    BY <1>m, <2>1, <2>2
  <2>4. QED
    BY <1>m, <2>2, <2>3 DEF MediaSound, Intact
<1>10. CASE RemoveFiles(p)
  BY <1>m, <1>10 DEF RemoveFiles, Erased, MediaSound, Intact
<1>11. CASE DropRemoved(p)
  BY <1>11 DEF DropRemoved, MediaSound, Intact
<1>12. CASE DiscardStaging(p)
  <2> DEFINE D == {a \in Closure[work[p].target] : Cardinality(Owners(a)) <= 1}
  <2>1. /\ final' = final
        /\ staged' = [a \in Assets |-> IF a \in D THEN 0 ELSE staged[a]]
        /\ manifest' = [a \in Assets |-> manifest[a] /\ a \notin D]
        /\ done' = [a \in Assets |-> done[a] /\ a \notin D]
    BY <1>12 DEF DiscardStaging, Discard
  <2> HIDE DEF D
  <2>2. ASSUME NEW a \in Assets
        PROVE  \/ /\ a \notin D /\ staged'[a] = staged[a]
                  /\ manifest'[a] = manifest[a] /\ done'[a] = done[a]
               \/ a \in D /\ staged'[a] = 0 /\ ~manifest'[a]
    BY <1>m, <2>1
  <2>3. QED
    BY <1>m, <2>1, <2>2 DEF MediaSound, Intact
<1>13. QED
  BY <1>1, <1>2, <1>3, <1>4, <1>5, <1>6, <1>7, <1>8, <1>9, <1>10, <1>11, <1>12, EffectOf
     DEF Effect

LEMMA MediaSoundBeside ==
    ASSUME ShapeSound, MediaSound, Beside
    PROVE  MediaSound' /\ \A a \in Assets : final'[a] <= final[a]
<1> USE DEF db, files, plan, reservations, locks, user, sight, count
<1>m. /\ manifest \in [Assets -> BOOLEAN] /\ done \in [Assets -> BOOLEAN]
      /\ final \in [Assets -> Nat] /\ staged \in [Assets -> Nat]
      /\ \A a \in Assets : Size[a] \in Nat /\ Size[a] # 0
  BY Finite, Assumed DEF ShapeSound
<1>1. ASSUME NEW b \in Assets, DiscardPartial(b) PROVE MediaSound' /\ final' = final
  BY <1>m, <1>1 DEF DiscardPartial, Discard, MediaSound, Intact
<1>2. ASSUME NEW b \in Assets, Damage(b) PROVE MediaSound' /\ \A a \in Assets : final'[a] <= final[a]
  <2>1. PICK n \in 0 .. final[b] - 1 : final' = [final EXCEPT ![b] = n]
    BY <1>2 DEF Damage
  <2>2. UNCHANGED <<staged, manifest, done>>
    BY <1>2 DEF Damage
  <2>3. QED
    BY <1>m, <2>1, <2>2 DEF MediaSound, Intact
<1>3. \/ UNCHANGED <<final, staged, manifest, done>>
      \/ \E a \in Assets : DiscardPartial(a) \/ Damage(a)
  BY DEF Beside, LaunchEnds, MarkLaunched, PinRead, UnpinRead, ControlWrite
<1>4. CASE UNCHANGED <<final, staged, manifest, done>>
  BY <1>m, <1>4 DEF MediaSound, Intact
<1>5. QED
  BY <1>m, <1>1, <1>2, <1>3, <1>4

LEMMA CopiedOfKept ==
    ASSUME ShapeSound, MediaSound, NEW p \in Procs, LocksOf(p), CopiedOf(p), Acts(p)
    PROVE  CopiedOf(p)'
<1> USE DEF db, files, plan, reservations, locks, user, sight, count, At, Goto
<1>t. /\ DOMAIN work = Procs /\ DOMAIN work[p] = Fields
      /\ "pc" \in Fields /\ "game" \in Fields /\ "need" \in Fields /\ "left" \in Fields
      /\ "seen" \in Fields /\ "owed" \in Fields
      /\ "have" \in Fields /\ "asset" \in Fields /\ "keep" \in Fields /\ "todo" \in Fields
      /\ "cands" \in Fields /\ "target" \in Fields /\ "existing" \in Fields
  BY FieldsOf
<1>s. /\ OnAsset = {"resume", "cut", "copy", "count", "move"}
      /\ Planned = {"resume", "cut", "copy", "count", "move", "plan"}
  BY Positions
<1>l. /\ work[p].pc \in Planned =>
           work[p].todo \subseteq Closure[work[p].game] /\ Closure[work[p].game] \subseteq Assets
      /\ work[p].pc \in OnAsset => work[p].asset \in Closure[work[p].game] /\ work[p].asset \in Assets
      /\ work[p].pc \in OnAsset \ {"move"} => work[p].asset \in work[p].todo
      /\ At(p, "move") => work[p].todo = {}
  BY Placed
<1>m. /\ manifest \in [Assets -> BOOLEAN] /\ done \in [Assets -> BOOLEAN]
      /\ final \in [Assets -> Nat] /\ staged \in [Assets -> Nat]
  BY DEF ShapeSound
<1>1. CASE EnterAdmission(p)
  BY <1>t, <1>s, IdleShape, <1>1 DEF EnterAdmission, CopiedOf
<1>2. CASE DropEntry(p)
  BY <1>t, <1>s, IdleShape, <1>2 DEF DropEntry, Delete, CopiedOf
<1>3. CASE Admit(p)
  BY <1>t, <1>s, IdleShape, <1>3 DEF Admit, CopiedOf
<1>4. CASE Refuse(p)
  BY <1>t, <1>s, IdleShape, <1>4 DEF Refuse, Unlocked, CopiedOf
<1>5. CASE Enter(p)
  BY <1>t, <1>s, IdleShape, <1>5 DEF Enter, CopiedOf
<1>6. CASE ReplaceMembership(p)
  BY <1>t, <1>s, <1>6 DEF ReplaceMembership, CopiedOf, Intact
<1>7. CASE MembershipRefused(p)
  BY <1>t, <1>s, IdleShape, <1>7 DEF MembershipRefused, Leave, Unlocked, CopiedOf
<1>8. CASE Evict(p)
  BY <1>t, <1>s, IdleShape, <1>8 DEF Evict, Erased, Held, Free, CopiedOf
<1>9. CASE Cut(p)
  BY <1>t, <1>s, <1>l, <1>m, <1>9 DEF Cut, CopiedOf, Intact
<1>10. CASE Copy(p)
  <2> DEFINE b == work[p].asset
             g == work[p].game
  <2>1. b \in work[p].todo /\ b \in Assets /\ Closure[g] \subseteq Assets
    BY <1>s, <1>l, <1>10 DEF Copy
  <2>2. ~Intact(b) /\ manifest[b] /\ \A a \in Closure[g] \ work[p].todo : staged[a] > 0 => done[a]
    BY <1>s, <1>10 DEF Copy, CopiedOf
  <2>3. final' = final /\ manifest' = manifest /\ work'[p].game = g /\ work[p].pc = "copy"
    BY <1>t, <1>10 DEF Copy
  <2>4. CASE staged[b] < Size[b]
    <3>1. /\ work'[p].pc = "count" /\ work'[p].todo = work[p].todo /\ work'[p].asset = b
          /\ \A a \in Assets : a # b => staged'[a] = staged[a] /\ done'[a] = done[a]
      BY <1>t, <1>m, <1>10, <2>4 DEF Copy
    <3> HIDE DEF b, g
    <3>2. QED
      BY <1>s, <2>1, <2>2, <2>3, <3>1 DEF CopiedOf, Intact
  <2>5. CASE ~(staged[b] < Size[b])
    <3>1. /\ work'[p].pc = "plan" /\ work'[p].todo = work[p].todo \ {b} /\ staged' = staged
          /\ done'[b] /\ \A a \in Assets : a # b => done'[a] = done[a]
      BY <1>t, <1>m, <1>10, <2>1, <2>5 DEF Copy
    <3> HIDE DEF b, g
    <3>2. QED
      BY <1>s, <2>1, <2>2, <2>3, <3>1 DEF CopiedOf, Intact
  <2>6. QED
    BY <2>4, <2>5
<1>11. CASE ConsumeGrowth(p)
  BY <1>t, <1>s, <1>11 DEF ConsumeGrowth, CopiedOf, Intact
<1>12. CASE Promote(p)
  BY <1>t, <1>s, <1>l, <1>m, <1>12 DEF Promote, CopiedOf, Intact
<1>13. CASE Finalize(p)
  BY <1>t, <1>s, IdleShape, <1>13 DEF Finalize, CopiedOf
<1>14. CASE Release(p)
  BY <1>t, <1>s, IdleShape, <1>14 DEF Release, Leave, Unlocked, CopiedOf
<1>15. CASE LockRemove(p)
  BY <1>t, <1>s, IdleShape, <1>15 DEF LockRemove, Held, Free, CopiedOf
<1>16. CASE RemoveFiles(p)
  BY <1>t, <1>s, IdleShape, <1>16 DEF RemoveFiles, Erased, CopiedOf
<1>17. CASE DropRemoved(p)
  BY <1>t, <1>s, IdleShape, <1>17 DEF DropRemoved, Delete, Unlocked, CopiedOf
<1>18. CASE Crash(p)
  BY <1>t, <1>s, IdleShape, <1>18 DEF Crash, Leave, Unlocked, CopiedOf
<1>19. ASSUME NEW g \in Games, LookAgain(p, g) PROVE CopiedOf(p)'
  BY <1>t, <1>s, IdleShape, <1>19 DEF LookAgain, Forgets, CopiedOf
<1>20. ASSUME NEW a \in Assets, PlanAsset(p, a) PROVE CopiedOf(p)'
  <2> DEFINE g == work[p].game
  <2>1. work[p].pc = "plan" /\ a \in work[p].todo /\ final' = final /\ staged' = staged
    BY <1>20 DEF PlanAsset
  <2>2. Closure[g] \subseteq Assets /\ \A b \in Closure[g] \ work[p].todo : staged[b] > 0 => done[b]
    BY <1>s, <1>l, <2>1 DEF CopiedOf
  <2>3. CASE Adoptable(a)
    <3>1. /\ UNCHANGED <<manifest, done>>
          /\ work'[p].todo = work[p].todo \ {a} /\ work'[p].game = g /\ work'[p].pc = "plan"
      BY <1>t, <1>20, <2>3 DEF PlanAsset
    <3>2. staged[a] = 0
      BY <2>3 DEF Adoptable, MediaSound
    <3> HIDE DEF g
    <3>3. QED
      BY <1>s, <2>1, <2>2, <3>1, <3>2 DEF CopiedOf
  <2>4. CASE ~Adoptable(a)
    <3>1. /\ work' = [work EXCEPT ![p].pc = "resume", ![p].asset = a]
          /\ manifest' = [manifest EXCEPT ![a] = TRUE]
          /\ done' = [done EXCEPT ![a] = @ /\ manifest[a]]
      BY <1>20, <2>4 DEF PlanAsset
    <3>2. /\ work'[p].todo = work[p].todo /\ work'[p].game = g /\ work'[p].pc = "resume"
          /\ work'[p].asset = a
      BY <1>t, <3>1
    <3>3. manifest'[a] /\ \A b \in Assets : b # a => done'[b] = done[b]
      BY <1>m, <3>1
    <3>4. ~Intact(a)
      BY <2>4, AdoptableIs
    <3> HIDE DEF g
    <3>5. QED
      BY <1>s, <2>1, <2>2, <3>2, <3>3, <3>4 DEF CopiedOf, Intact
  <2>5. QED
    BY <2>3, <2>4
<1>21. ASSUME NEW a \in Assets, Protect(p, a) PROVE CopiedOf(p)'
  BY <1>t, <1>s, <1>21 DEF Protect, CopiedOf, Intact
<1>22. ASSUME NEW checkpoint \in 0 .. Quota, Resume(p, checkpoint) PROVE CopiedOf(p)'
  BY <1>t, <1>s, <1>22 DEF Resume, CopiedOf, Intact
<1>23. ASSUME NEW g \in Games, Request(p, g) PROVE CopiedOf(p)'
  BY <1>t, <1>s, IdleShape, <1>23 DEF Request, Held, Free, CopiedOf
<1>24. ASSUME NEW g \in Games, AskRemove(p, g) PROVE CopiedOf(p)'
  BY <1>t, <1>s, IdleShape, <1>24 DEF AskRemove, CopiedOf
<1>25. ASSUME NEW status \in {"failed", "incomplete"}, Fail(p, status) PROVE CopiedOf(p)'
  BY <1>t, <1>s, IdleShape, <1>25 DEF Fail, Leave, Unlocked, Marked, Transferring, CopiedOf
<1>26. CASE Reads(p)
  BY <1>t, <1>s, IdleShape, <1>26 DEF Reads, ReadFinal, ReadStaging, ReadReserved, Enough,
       Forgets, CopiedOf
<1>27. CASE DiscardStaging(p)
  BY <1>t, <1>s, IdleShape, <1>27 DEF DiscardStaging, Discard, CopiedOf
<1>28. QED
  BY <1>1, <1>2, <1>3, <1>4, <1>5, <1>6, <1>7, <1>8, <1>9, <1>10, <1>11, <1>12, <1>13, <1>14,
     <1>15, <1>16, <1>17, <1>18, <1>19, <1>20, <1>21, <1>22, <1>23, <1>24, <1>25, <1>26,
     <1>27 DEF Acts,
     Program, Reads

LEMMA KeptOfKept ==
    ASSUME ShapeSound, NEW p \in Procs, LocksOf(p), KeptOf(p), Acts(p)
    PROVE  KeptOf(p)'
<1> USE DEF db, files, plan, reservations, locks, user, sight, count, At, Goto
<1>t. /\ DOMAIN work = Procs /\ DOMAIN work[p] = Fields
      /\ "pc" \in Fields /\ "game" \in Fields /\ "need" \in Fields /\ "left" \in Fields
      /\ "seen" \in Fields /\ "owed" \in Fields
      /\ "have" \in Fields /\ "asset" \in Fields /\ "keep" \in Fields /\ "todo" \in Fields
      /\ "cands" \in Fields /\ "target" \in Fields /\ "existing" \in Fields
  BY FieldsOf
<1>e. ASSUME work'[p].target = work[p].target, work[p].target \in Games,
             final' = Erased(Removable(work[p].target)), UNCHANGED member
      PROVE  KeptOf(p)'
  <2> DEFINE g == work[p].target
  <2>1. SUFFICES ASSUME NEW a \in DOMAIN member[g], Owners(a) = {g} PROVE final'[a] = 0
    BY <1>e DEF KeptOf, Owners
  <2>2. member[g] # NoMembers /\ a \in Assets
    BY <1>e, MembersInClosure DEF NoMembers
  <2>3. a \in Removable(g)
    BY <2>1, <2>2 DEF Removable
  <2>4. QED
    BY <1>e, <2>2, <2>3 DEF Erased
<1>l. work[p].pc \in {"take", "rmfiles"} => work[p].target \in Games
  BY DEF LocksOf
<1>1. CASE EnterAdmission(p)
  BY <1>t, IdleShape, <1>1 DEF EnterAdmission, KeptOf
<1>2. CASE DropEntry(p)
  BY <1>t, IdleShape, <1>2 DEF DropEntry, Delete, KeptOf
<1>3. CASE Admit(p)
  BY <1>t, IdleShape, <1>3 DEF Admit, KeptOf
<1>4. CASE Refuse(p)
  BY <1>t, IdleShape, <1>4 DEF Refuse, Unlocked, KeptOf
<1>5. CASE Enter(p)
  BY <1>t, IdleShape, <1>5 DEF Enter, KeptOf
<1>6. CASE ReplaceMembership(p)
  BY <1>t, IdleShape, <1>6 DEF ReplaceMembership, KeptOf
<1>7. CASE MembershipRefused(p)
  BY <1>t, IdleShape, <1>7 DEF MembershipRefused, Leave, Unlocked, KeptOf
<1>8. CASE Evict(p)
  <2>1. CASE Free(Closure[work[p].target])
    BY <1>t, <1>e, <1>l, <1>8, <2>1 DEF Evict
  <2>2. CASE ~Free(Closure[work[p].target])
    BY <1>t, <1>8, <2>2 DEF Evict, KeptOf
  <2>3. QED
    BY <2>1, <2>2
<1>9. CASE Cut(p)
  BY <1>t, IdleShape, <1>9 DEF Cut, KeptOf
<1>10. CASE Copy(p)
  BY <1>t, IdleShape, <1>10 DEF Copy, KeptOf
<1>11. CASE ConsumeGrowth(p)
  BY <1>t, IdleShape, <1>11 DEF ConsumeGrowth, KeptOf
<1>12. CASE Promote(p)
  BY <1>t, IdleShape, <1>12 DEF Promote, KeptOf
<1>13. CASE Finalize(p)
  BY <1>t, IdleShape, <1>13 DEF Finalize, KeptOf
<1>14. CASE Release(p)
  BY <1>t, IdleShape, <1>14 DEF Release, Leave, Unlocked, KeptOf
<1>15. CASE LockRemove(p)
  BY <1>t, IdleShape, <1>15 DEF LockRemove, Held, Free, KeptOf
<1>16. CASE RemoveFiles(p)
  BY <1>t, <1>e, <1>l, <1>16 DEF RemoveFiles
<1>17. CASE DropRemoved(p)
  BY <1>t, IdleShape, <1>17 DEF DropRemoved, Delete, Unlocked, KeptOf
<1>18. CASE Crash(p)
  BY <1>t, IdleShape, <1>18 DEF Crash, Leave, Unlocked, KeptOf
<1>19. ASSUME NEW g \in Games, LookAgain(p, g) PROVE KeptOf(p)'
  BY <1>t, IdleShape, <1>19 DEF LookAgain, Forgets, KeptOf
<1>20. ASSUME NEW a \in Assets, PlanAsset(p, a) PROVE KeptOf(p)'
  BY <1>t, IdleShape, <1>20 DEF PlanAsset, KeptOf
<1>21. ASSUME NEW a \in Assets, Protect(p, a) PROVE KeptOf(p)'
  BY <1>t, IdleShape, <1>21 DEF Protect, Promotable, KeptOf
<1>22. ASSUME NEW checkpoint \in 0 .. Quota, Resume(p, checkpoint) PROVE KeptOf(p)'
  BY <1>t, IdleShape, <1>22 DEF Resume, KeptOf
<1>23. ASSUME NEW g \in Games, Request(p, g) PROVE KeptOf(p)'
  BY <1>t, IdleShape, <1>23 DEF Request, Held, Free, KeptOf
<1>24. ASSUME NEW g \in Games, AskRemove(p, g) PROVE KeptOf(p)'
  BY <1>t, IdleShape, <1>24 DEF AskRemove, KeptOf
<1>25. ASSUME NEW status \in {"failed", "incomplete"}, Fail(p, status) PROVE KeptOf(p)'
  BY <1>t, IdleShape, <1>25 DEF Fail, Leave, Unlocked, Marked, Transferring, KeptOf
<1>26. CASE Reads(p)
  BY <1>t, IdleShape, <1>26 DEF Reads, ReadFinal, ReadStaging, ReadReserved, Enough, Forgets,
       KeptOf
<1>27. CASE DiscardStaging(p)
  BY <1>t, IdleShape, <1>27 DEF DiscardStaging, Discard, KeptOf
<1>28. QED
  BY <1>1, <1>2, <1>3, <1>4, <1>5, <1>6, <1>7, <1>8, <1>9, <1>10, <1>11, <1>12, <1>13, <1>14,
     <1>15, <1>16, <1>17, <1>18, <1>19, <1>20, <1>21, <1>22, <1>23, <1>24, <1>25, <1>26,
     <1>27 DEF Acts,
     Program, Reads

LEMMA SparedCare ==
    ASSUME ShapeSound, ShapeSound', MediaSound, NEW q \in Procs, LocksOf(q), CopiedOf(q), KeptOf(q), Spared(q)
    PROVE  CopiedOf(q)' /\ KeptOf(q)'
<1>m. /\ final \in [Assets -> Nat] /\ \A a \in Assets : final[a] <= Size[a] /\ Size[a] \in Nat
      /\ final' \in [Assets -> Nat]
  BY Assumed DEF ShapeSound, MediaSound
<1>w. work'[q] = work[q]
  BY DEF Spared
<1>1. CopiedOf(q)'
  <2> DEFINE g == work[q].game
             b == work[q].asset
  <2>1. ASSUME work[q].pc \in Planned, NEW a \in Closure[g] \ work[q].todo, staged'[a] > 0
        PROVE  done'[a]
    <3>1. a \in Assets /\ lock[a] = q
      BY <2>1, Placed DEF LockedBy
    <3>2. QED
      BY <2>1, <3>1 DEF Spared, CopiedOf
  <2>2. ASSUME work[q].pc \in OnAsset \ {"move"} PROVE final'[b] # Size[b] /\ manifest'[b]
    <3>1. b \in Assets /\ lock[b] = q
      BY <2>2, Placed, Positions DEF LockedBy
    <3>2. final[b] # Size[b] /\ manifest[b]
      BY <2>2 DEF CopiedOf, Intact
    <3>3. manifest'[b] = manifest[b] /\ (final'[b] = final[b] \/ final'[b] < final[b])
      BY <3>1 DEF Spared
    <3>4. QED
      BY <1>m, <3>1, <3>2, <3>3
  <2>3. QED
    BY <1>w, <2>1, <2>2 DEF CopiedOf, Intact
<1>2. KeptOf(q)'
  <2> DEFINE g == work[q].target
  <2>1. SUFFICES ASSUME work[q].pc \in {"drop", "rmdrop"}, NEW a \in DOMAIN member'[g],
                        a \notin stray', final'[a] # 0
                 PROVE  Owners(a)' # {g}
    BY <1>w DEF KeptOf
  <2>2. g \in Games /\ LockedBy(q, Closure[g]) /\ Closure[g] # {} /\ Closure[g] \subseteq Assets
    BY <2>1, Placed, Assumed
  <2>3. \E b \in Closure[g] : lock[b] = q
    BY <2>2 DEF LockedBy
  <2>4. member'[g] = member[g]
    BY <2>1, <2>2, <2>3 DEF Spared, NoMembers
  <2>5. a \in Closure[g] /\ lock[a] = q /\ a \in Assets
    BY <2>1, <2>2, <2>4, MembersInClosure DEF LockedBy
  <2>6. final[a] # 0 /\ a \notin stray
    <3>1. stray \subseteq stray' /\ (final'[a] = final[a] \/ final'[a] < final[a])
      BY <2>5 DEF Spared, OnlyMore
    <3>2. QED
      BY <1>m, <2>1, <2>5, <3>1
  <2>7. PICK h \in Owners(a) : h # g
    BY <2>1, <2>2, <2>4, <2>6 DEF KeptOf, Owners
  <2>8. h \in Games /\ a \in DOMAIN member[h] /\ a \in Closure[h]
    BY <2>7, MembersInClosure DEF Owners
  <2>9. member'[h] = member[h]
    BY <2>1, <2>5, <2>8 DEF Spared
  <2>10. QED
    BY <2>7, <2>8, <2>9 DEF Owners
<1>3. QED
  BY <1>1, <1>2

\* What a game recorded, at least as large as the file, counts it.
LEMMA CountedBy ==
    ASSUME ShapeSound, MembersTyped, NEW g \in Games, NEW a \in DOMAIN member[g],
           final[a] <= member[g][a]
    PROVE  Counted(a)
<1>1. a \in Assets /\ final[a] \in Nat /\ member[g][a] \in Nat
  <2>1. a \in Assets
    BY MembersInClosure
  <2>2. final[a] \in Nat
    BY <2>1 DEF ShapeSound
  <2>3. member[g] # NoMembers
    BY DEF NoMembers
  <2>4. member[g] \in [Closure[g] -> Nat]
    BY <2>3 DEF MembersTyped
  <2>5. QED
    BY <2>1, <2>2, <2>4
<1>2. 1 .. final[a] \subseteq 1 .. member[g][a]
  BY <1>1
<1>3. QED
  BY <1>2 DEF Counted, Tracked, Owners

\* The accounts of one game say nothing of what is not among its members.
LEMMA TrackedSame ==
    ASSUME NEW g, NEW a, \A h \in Games : h # g => member'[h] = member[h],
           a \notin DOMAIN member[g], a \notin DOMAIN member'[g]
    PROVE  Tracked(a)' = Tracked(a)
<1>1. Owners(a)' = Owners(a)
  BY DEF Owners
<1>2. \A h \in Owners(a) : member'[h] = member[h]
  BY DEF Owners
<1>3. QED
  BY <1>1, <1>2 DEF Tracked

\* Deleting an entry.
LEMMA DeleteCounts ==
    ASSUME ShapeSound, EveryByteCounted, NEW g \in Games, Delete(g), UNCHANGED <<final, manifest>>,
           \A a \in DOMAIN member[g] : a \in stray \/ final[a] = 0 \/ Owners(a) # {g},
           stray' = stray \cup Undercounted(KeptFor(g))
    PROVE  EveryByteCounted'
<1> SUFFICES ASSUME NEW a \in Assets, a \notin stray', ~manifest'[a]
             PROVE  1 .. final'[a] \subseteq Tracked(a)'
  BY DEF EveryByteCounted, Counted
<1>1. a \notin stray /\ ~manifest[a] /\ 1 .. final[a] \subseteq Tracked(a) /\ final[a] \in Nat
  BY DEF EveryByteCounted, Counted, ShapeSound
<1>2. DOMAIN member = Games /\ member' = [member EXCEPT ![g] = NoMembers]
  BY DEF ShapeSound, Delete
<1>3. CASE a \notin DOMAIN member[g]
  <2>1. Tracked(a)' = Tracked(a)
    BY <1>2, <1>3, TrackedSame DEF NoMembers
  <2>2. QED
    BY <1>1, <2>1
<1>4. CASE a \in DOMAIN member[g]
  <2>1. CASE final[a] = 0
    BY <2>1
  <2>2. CASE final[a] # 0
    BY <1>1, <1>4, <2>2 DEF KeptFor, Undercounted
  <2>3. QED
    BY <2>1, <2>2
<1>5. QED
  BY <1>3, <1>4

\* Discarding what is left of a transfer (discard_staging, discard_staging_asset).
LEMMA DiscardCounts ==
    ASSUME ShapeSound, EveryByteCounted, NEW S, Discard(S), UNCHANGED <<member, final>>
    PROVE  EveryByteCounted'
<1> SUFFICES ASSUME NEW a \in Assets, a \notin stray', ~manifest'[a], ~Counted(a)' PROVE FALSE
  BY DEF EveryByteCounted
<1>1. Counted(a)' = Counted(a)
  BY DEF Counted, Tracked, Owners
<1>2. /\ final[a] \in Nat /\ manifest[a] \in BOOLEAN
      /\ manifest'[a] = (manifest[a] /\ a \notin S)
      /\ stray' = stray \cup {b \in S : final[b] > 0 /\ ~Counted(b)}
  BY DEF Discard, ShapeSound
<1>3. ~Counted(a) => final[a] > 0
  BY <1>2 DEF Counted
<1>4. QED
  BY <1>1, <1>2, <1>3 DEF EveryByteCounted

LEMMA EveryByteKept ==
    ASSUME ShapeSound, MembersTyped, MembersTyped', ShapeSound', FilesSound, MediaSound, EveryByteCounted,
           NEW p \in Procs, ProcSound(p), CopiedOf(p), KeptOf(p), Acts(p)
    PROVE  EveryByteCounted'
<1> USE DEF db, files, plan, reservations, locks, user, sight, count, At
<1>l. LocksOf(p) /\ StagedOf(p) /\ EntryOf(p)
  BY DEF ProcSound
<1>m. /\ manifest \in [Assets -> BOOLEAN] /\ DOMAIN member = Games
      /\ final \in [Assets -> Nat] /\ staged \in [Assets -> Nat]
  BY DEF ShapeSound
<1>1. CASE Quiet
  BY <1>1 DEF Quiet, EveryByteCounted, Counted, Tracked, Owners
<1>2. ASSUME UNCHANGED <<member, manifest>>, stray \subseteq stray',
             \A a \in Assets : final'[a] = final[a] \/ final'[a] = 0
      PROVE  EveryByteCounted'
  <2>1. SUFFICES ASSUME NEW a \in Assets, a \notin stray', ~manifest'[a]
                 PROVE  1 .. final'[a] \subseteq Tracked(a)'
    BY DEF EveryByteCounted, Counted
  <2>2. Tracked(a)' = Tracked(a) /\ 1 .. final[a] \subseteq Tracked(a)
    BY <1>2, <2>1 DEF Tracked, Owners, EveryByteCounted, Counted
  <2>3. CASE final'[a] = 0
    BY <2>3
  <2>4. QED
    BY <1>2, <2>2, <2>3
<1>3. CASE Evict(p)
  BY <1>2, <1>3 DEF Evict, Erased
<1>4. CASE DropEntry(p)
  BY <1>l, <1>4, Placed, DeleteCounts DEF DropEntry, KeptOf
<1>5. CASE DropRemoved(p)
  BY <1>l, <1>5, Placed, DeleteCounts DEF DropRemoved, KeptOf
<1>6. CASE Cut(p) \/ Copy(p)
  BY <1>2, <1>6 DEF Cut, Copy
<1>7. ASSUME NEW b \in Assets, PlanAsset(p, b) PROVE EveryByteCounted'
  <2>1. UNCHANGED <<member, final, stray>> /\ \A a \in Assets : manifest[a] => manifest'[a]
    BY <1>m, <1>7 DEF PlanAsset
  <2>2. QED
    BY <2>1 DEF EveryByteCounted, Counted, Tracked, Owners
<1>8. CASE Promote(p)
  <2> DEFINE b == work[p].asset
  <2>1. b \in Assets /\ manifest[b]
    BY <1>l, <1>m, <1>8, Placed, Positions DEF Promote, StagedOf, MediaSound
  <2>2. UNCHANGED <<member, manifest, stray>> /\ final' = [final EXCEPT ![b] = staged[b]]
    BY <1>8 DEF Promote
  <2> HIDE DEF b
  <2>3. QED
    BY <1>m, <2>1, <2>2 DEF EveryByteCounted, Counted, Tracked, Owners
<1>9. CASE RemoveFiles(p) \/ DiscardStaging(p)
  <2>1. CASE RemoveFiles(p)
    BY <1>2, <2>1 DEF RemoveFiles, Erased
  <2>2. CASE DiscardStaging(p)
    BY <2>2, DiscardCounts DEF DiscardStaging
  <2>3. QED
    BY <1>9, <2>1, <2>2
<1>10. CASE ReplaceMembership(p)
  <2> DEFINE g == work[p].game
             recorded == [a \in Closure[g] |-> IF a \in work[p].have THEN Size[a] ELSE 0]
  <2>1. g \in Games /\ Closure[g] \subseteq Assets
    BY <1>l, <1>10, Placed DEF ReplaceMembership
  <2>2. /\ member' = [member EXCEPT ![g] = recorded] /\ UNCHANGED <<final, manifest>>
        /\ stray' = stray \cup {a \in Closure[g] : final[a] > 0 /\ ~manifest[a] /\ a \notin work[p].have}
    BY <1>10 DEF ReplaceMembership
  <2>3. member'[g] = recorded /\ \A h \in Games : h # g => member'[h] = member[h]
    BY <1>m, <2>1, <2>2
  <2>4. SUFFICES ASSUME NEW a \in Assets, a \notin stray', ~manifest'[a], final'[a] # 0
                 PROVE  1 .. final'[a] \subseteq Tracked(a)'
    BY DEF EveryByteCounted, Counted
  <2>5. a \notin stray /\ ~manifest[a] /\ final'[a] = final[a] /\ final[a] > 0
    BY <1>m, <2>2, <2>4
  <2>6. CASE a \in Closure[g]
    <3>1. a \in work[p].have
      BY <2>2, <2>4, <2>5, <2>6
    <3>2. a \in DOMAIN member'[g] /\ final'[a] <= member'[g][a]
      BY <2>3, <2>5, <2>6, <3>1 DEF MediaSound
    <3>3. 1 .. final'[a] \subseteq 1 .. member'[g][a]
      BY <3>2, <1>m, <2>1, <2>3, <2>5, <2>6
    <3>4. QED
      BY <2>1, <3>2, <3>3 DEF Tracked, Owners
  <2>7. CASE a \notin Closure[g]
    <3>1. a \notin DOMAIN member[g] /\ a \notin DOMAIN member'[g]
      BY <2>1, <2>3, <2>7, MembersInClosure
    <3>2. Tracked(a)' = Tracked(a)
      BY <2>3, <3>1, TrackedSame
    <3>3. QED
      BY <2>5, <3>2 DEF EveryByteCounted, Counted
  <2>8. QED
    BY <2>6, <2>7
<1>11. CASE Finalize(p)
  <2> DEFINE g == work[p].game
             sized == [a \in DOMAIN member[g] |-> final[a]]
  <2>1. g \in Games /\ Closure[g] \subseteq Assets
    BY <1>l, <1>11, Placed, Positions DEF Finalize
  <2>2. /\ member' = [member EXCEPT ![g] = sized] /\ UNCHANGED <<final, stray>>
        /\ manifest' = [a \in Assets |-> manifest[a] /\ a \notin Closure[g]]
    BY <1>11 DEF Finalize
  <2>3. member'[g] = sized /\ \A h \in Games : h # g => member'[h] = member[h]
    BY <1>m, <2>1, <2>2
  <2>4. SUFFICES ASSUME NEW a \in Assets, a \notin stray', ~manifest'[a]
                 PROVE  1 .. final'[a] \subseteq Tracked(a)'
    BY DEF EveryByteCounted, Counted
  <2>5. CASE a \in Closure[g]
    <3>1. member[g] # NoMembers
      BY <1>l, <1>11, <2>2, <2>4, <2>5, Positions DEF EntryOf, Finalize
    <3>2. DOMAIN member[g] = Closure[g]
      BY <2>1, <3>1 DEF ShapeSound
    <3>3. a \in DOMAIN member'[g] /\ member'[g][a] = final'[a]
      BY <2>2, <2>3, <2>5, <3>2
    <3>4. QED
      BY <2>1, <3>3 DEF Tracked, Owners
  <2>6. CASE a \notin Closure[g]
    <3>1. a \notin DOMAIN member[g] /\ a \notin DOMAIN member'[g] /\ ~manifest[a]
      BY <1>m, <2>1, <2>2, <2>3, <2>4, <2>6, MembersInClosure
    <3>2. Tracked(a)' = Tracked(a)
      BY <2>3, <3>1, TrackedSame
    <3>3. QED
      BY <2>2, <2>4, <3>1, <3>2 DEF EveryByteCounted, Counted
  <2>7. QED
    BY <2>5, <2>6
<1>12. QED
  BY <1>1, <1>3, <1>4, <1>5, <1>6, <1>7, <1>8, <1>9, <1>10, <1>11, EffectOf DEF Effect

LEMMA EveryByteBeside ==
    ASSUME ShapeSound, EveryByteCounted, MediaSound, Beside
    PROVE  EveryByteCounted'
<1> USE DEF db, files, plan, reservations, locks, user, sight, count
<1>m. /\ manifest \in [Assets -> BOOLEAN] /\ DOMAIN member = Games /\ final \in [Assets -> Nat]
  BY DEF ShapeSound
<1>1. CASE UNCHANGED <<manifest, final, member, stray>>
  BY <1>1 DEF EveryByteCounted, Counted, Tracked, Owners
<1>2. ASSUME NEW b \in Assets, DiscardPartial(b) PROVE EveryByteCounted'
  BY <1>2, DiscardCounts DEF DiscardPartial
<1>3. ASSUME NEW b \in Assets, Damage(b) PROVE EveryByteCounted'
  <2>1. UNCHANGED <<member, manifest, stray>> /\ \A a \in Assets : final'[a] <= final[a]
    BY <1>3, MediaSoundBeside DEF Damage
  <2>2. \A a \in Assets : final'[a] \in Nat
    <3>1. PICK n \in 0 .. final[b] - 1 : final' = [final EXCEPT ![b] = n]
      BY <1>3 DEF Damage
    <3>2. QED
      BY <1>m, <3>1
  <2>3. \A a \in Assets : 1 .. final'[a] \subseteq 1 .. final[a]
    BY <1>m, <2>1, <2>2
  <2>4. \A a \in Assets : Tracked(a)' = Tracked(a)
    BY <2>1 DEF Tracked, Owners
  <2>5. QED
    BY <2>1, <2>3, <2>4 DEF EveryByteCounted, Counted
<1>4. CASE ControlWrite
  <2> DEFINE g == control.game
  <2>1. g \in Games /\ UNCHANGED <<manifest, final>>
    BY <1>4 DEF ControlWrite, ShapeSound
  <2>2. CASE UNCHANGED <<member, stray>>
    BY <1>1, <2>1, <2>2
  <2>3. CASE Delete(g) /\ stray' = stray \cup {a \in DOMAIN member[g] : final[a] > 0 \/ lock[a] # Nobody}
    <3>1. member' = [member EXCEPT ![g] = NoMembers]
      BY <2>3 DEF Delete
    <3>2. SUFFICES ASSUME NEW a \in Assets, a \notin stray', ~manifest'[a], final'[a] # 0
                   PROVE  1 .. final'[a] \subseteq Tracked(a)'
      BY DEF EveryByteCounted, Counted
    <3>3. a \notin DOMAIN member[g] /\ a \notin stray
      BY <1>m, <2>1, <2>3, <3>2
    <3>4. Tracked(a)' = Tracked(a)
      BY <1>m, <2>1, <3>1, <3>3, TrackedSame DEF NoMembers
    <3>5. QED
      BY <2>1, <3>2, <3>3, <3>4 DEF EveryByteCounted, Counted
  <2>4. QED
    BY <1>4, <2>2, <2>3 DEF ControlWrite
<1>5. \/ UNCHANGED <<manifest, final, member, stray>> \/ ControlWrite
      \/ \E a \in Assets : DiscardPartial(a) \/ Damage(a)
  BY DEF Beside, LaunchEnds, MarkLaunched, PinRead, UnpinRead
<1>6. QED
  BY <1>1, <1>2, <1>3, <1>4, <1>5

-----------------------------------------------------------------------------
(* What is still to come fits into the rows.                               *)

Missing(S) == {a \in S : ~Intact(a)}
Remaining == [a \in Assets |-> Size[a] - staged[a]]

\* What an admitted transfer has still to deal with, and what of it is not in place.
Pending(p) == IF work[p].pc \in {"enter", "members"} THEN Closure[work[p].game]
              ELSE IF work[p].pc \in Planned THEN work[p].todo ELSE {}
Owing(p) == Missing(Pending(p))
DebtOf(S) == UNION {Owing(p) : p \in S}

\* What it will write of each: before a cut, also what the cut takes away.
ToCome(p) == [a \in Assets |-> IF At(p, "cut") /\ a = work[p].asset THEN Size[a] - work[p].keep
                                                                     ELSE Size[a] - staged[a]]
Uncounted(p) == IF At(p, "count") THEN 1 ELSE 0

\* What is asked for covers what is missing; what is left covers what is to come; the row
\* is never behind it.  A file damaged during a transfer was not planned for.
NeedOf(p) ==
    work[p].pc \in {"admit", "evict", "sized", "scanned", "summed", "take", "drop"} /\ unplanned = {} =>
        Total(Remaining, Missing(Closure[work[p].game])) <= work[p].need
LeftOf(p) ==
    work[p].pc \in {"enter", "members"} \cup Planned =>
        /\ work[p].left <= row[p]
        /\ unplanned = {} => Total(ToCome(p), Owing(p)) + Uncounted(p) <= work[p].left

\* What the cache takes when each process of S has written what it still has to.
Reach(f, s, D) == [a \in Assets |-> f[a] + (IF a \in D THEN Size[a] ELSE s[a])]
PeakOf(S) == Reach(final, staged, DebtOf(S))
Clean == stray = {} /\ unplanned = {} /\ ~overlooked
PeakKept == /\ unplanned = {} => Total(PeakOf(Procs), Assets) <= Disk
            /\ Clean => Total(PeakOf(Procs), Assets) <= Quota

LEMMA RemainingTyped ==
    ASSUME ShapeSound, FilesSound
    PROVE  /\ Remaining \in [Assets -> Nat]
           /\ \A a \in Assets : Remaining[a] + staged[a] = Size[a] /\ Remaining[a] = Size[a] - staged[a]
BY Assumed DEF ShapeSound, FilesSound, Remaining

LEMMA ToComeTyped ==
    ASSUME ShapeSound, FilesSound, NEW p \in Procs, LocksOf(p), StagedOf(p)
    PROVE  /\ ToCome(p) \in [Assets -> Nat]
           /\ ~At(p, "cut") => ToCome(p) = Remaining
<1>1. ASSUME NEW a \in Assets
      PROVE  (IF At(p, "cut") /\ a = work[p].asset
              THEN Size[a] - work[p].keep ELSE Size[a] - staged[a]) \in Nat
  <2>1. CASE At(p, "cut") /\ a = work[p].asset
    BY <2>1, Assumed DEF StagedOf
  <2>2. CASE ~(At(p, "cut") /\ a = work[p].asset)
    BY <2>2, Assumed DEF ShapeSound, FilesSound
  <2>3. QED
    BY <2>1, <2>2
<1>2. ToCome(p) \in [Assets -> Nat]
  BY <1>1 DEF ToCome
<1>3. ASSUME ~At(p, "cut") PROVE ToCome(p) = Remaining
  BY <1>3 DEF ToCome, Remaining
<1>4. QED
  BY <1>2, <1>3

LEMMA PendingTyped ==
    ASSUME ShapeSound, NEW p \in Procs, LocksOf(p)
    PROVE  /\ Pending(p) \subseteq Assets /\ IsFiniteSet(Pending(p)) /\ LockedBy(p, Pending(p))
           /\ Owing(p) \subseteq Assets /\ IsFiniteSet(Owing(p))
<1>1. Pending(p) \subseteq Assets /\ LockedBy(p, Pending(p))
  BY Placed, Positions DEF Pending, LockedBy
<1>2. Owing(p) \subseteq Assets
  BY <1>1 DEF Owing, Missing
<1>3. QED
  BY <1>1, <1>2, Finite, FS_Subset

\* _needed_bytes: what is asked for covers what the transfer will write.
LEMMA NeededCovers ==
    ASSUME ShapeSound, FilesSound, MediaSound, NEW g \in Games
    PROVE  Total(Remaining, Missing(Closure[g])) <= Needed(g)
<1> DEFINE M == Missing(Closure[g])
           missing == Total(Size, M)
           retained == Total(staged, Closure[g])
<1>1. Closure[g] \subseteq Assets /\ M \subseteq Assets /\ IsFiniteSet(M) /\ IsFiniteSet(Closure[g])
  BY Finite, Assumed, FS_Subset DEF Missing
<1>2. /\ \A a \in Assets : staged[a] \in Nat /\ Remaining[a] \in Nat /\ Size[a] \in Nat
      /\ \A a \in Assets : Remaining[a] + staged[a] = Size[a]
  BY RemainingTyped, Assumed DEF ShapeSound
<1>3. {a \in Closure[g] : ~Adoptable(a)} = M
  BY <1>1, AdoptableIs DEF Missing
<1>4. Total(Remaining, M) + Total(staged, M) <= missing
  <2>1. \A a \in M : /\ Remaining[a] \in Nat /\ staged[a] \in Nat /\ Size[a] \in Nat
                     /\ Remaining[a] + staged[a] <= Size[a]
    BY <1>1, <1>2
  <2> HIDE DEF M
  <2>2. QED
    BY <1>1, <2>1, TotalJoin
<1>5. retained <= Total(staged, M)
  <2>1. \A a \in Closure[g] : staged[a] = 0 \/ (a \in M /\ staged[a] <= staged[a])
    BY <1>1, <1>2 DEF Missing, MediaSound
  <2>2. (\A a \in M : staged[a] \in Nat) /\ (\A a \in Closure[g] : staged[a] \in Nat)
    BY <1>1, <1>2
  <2> HIDE DEF M
  <2>3. QED
    BY <1>1, <2>1, <2>2, TotalMono
<1>6. /\ Total(Remaining, M) \in Nat /\ Total(staged, M) \in Nat /\ missing \in Nat
      /\ retained \in Nat
  <2>1. /\ \A a \in M : Remaining[a] \in Nat /\ staged[a] \in Nat /\ Size[a] \in Nat
        /\ \A a \in Closure[g] : staged[a] \in Nat
    BY <1>1, <1>2
  <2> HIDE DEF M
  <2>2. QED
    BY <1>1, <2>1, TotalFinite
<1>7. Needed(g) = IF missing > retained THEN missing - retained ELSE 0
  BY <1>3 DEF Needed
<1> HIDE DEF M, missing, retained
<1>8. QED
  BY <1>4, <1>5, <1>6, <1>7 DEF M

\* A claim stays what it is while its files stay as they are.
LEMMA ClaimSame ==
    ASSUME NEW S, S \subseteq Assets, \A a \in S : final'[a] = final[a] /\ staged'[a] = staged[a]
    PROVE  /\ Missing(S)' = Missing(S)
           /\ Total(Remaining, Missing(S))' = Total(Remaining, Missing(S))
<1>1. Missing(S)' = Missing(S)
  BY DEF Missing, Intact
<1>2. \A a \in Missing(S) : Remaining'[a] = Remaining[a]
  BY DEF Missing, Remaining
<1>3. Total(Remaining', Missing(S)) = Total(Remaining, Missing(S))
  BY <1>2, TotalSame
<1>4. QED
  BY <1>1, <1>3 DEF Total, Units

LEMMA NeedOfKept ==
    ASSUME ShapeSound, ShapeSound', FilesSound, MediaSound, NEW p \in Procs, LocksOf(p), LocksOf(p)',
           NeedOf(p), Acts(p)
    PROVE  NeedOf(p)'
<1> USE DEF db, files, plan, reservations, locks, user, sight, count, At, Goto
<1>t. /\ DOMAIN work = Procs /\ DOMAIN work[p] = Fields
      /\ "pc" \in Fields /\ "game" \in Fields /\ "need" \in Fields /\ "left" \in Fields
      /\ "seen" \in Fields /\ "owed" \in Fields
      /\ "have" \in Fields /\ "asset" \in Fields /\ "keep" \in Fields /\ "todo" \in Fields
      /\ "cands" \in Fields /\ "target" \in Fields /\ "existing" \in Fields
  BY FieldsOf
<1>k. ASSUME work[p].pc \in {"admit", "evict", "sized", "scanned", "summed", "take", "drop"},
             work'[p].game = work[p].game,
             work'[p].need = work[p].need, unplanned' = unplanned,
             \A a \in Closure[work[p].game] : final'[a] = final[a] /\ staged'[a] = staged[a]
      PROVE  NeedOf(p)'
  <2> DEFINE S == Closure[work[p].game]
  <2>1. S \subseteq Assets
    BY <1>k, Placed
  <2>2. Total(Remaining, Missing(S))' = Total(Remaining, Missing(S))
    BY <1>k, <2>1, ClaimSame
  <2>3. Total(Remaining', Missing(S)') = Total(Remaining, Missing(S))
    BY <2>2 DEF Total, Units
  <2>4. Closure[work'[p].game] = S
    BY <1>k
  <2>5. Total(Remaining, Missing(Closure[work[p].game]))' = Total(Remaining, Missing(S))
    BY <1>k, <2>2
  <2> HIDE DEF S
  <2>6. QED
    BY <1>k, <2>5 DEF NeedOf, S
<1>1. CASE EnterAdmission(p)
  BY <1>t, <1>k, <1>1 DEF EnterAdmission
<1>2. CASE DropEntry(p)
  BY <1>t, <1>k, <1>2 DEF DropEntry
<1>3. CASE Admit(p)
  BY <1>t, IdleShape, <1>3 DEF Admit, NeedOf
<1>4. CASE Refuse(p)
  BY <1>t, IdleShape, <1>4 DEF Refuse, Unlocked, NeedOf
<1>5. CASE Enter(p)
  BY <1>t, IdleShape, <1>5 DEF Enter, NeedOf
<1>6. CASE ReplaceMembership(p)
  BY <1>t, IdleShape, <1>6 DEF ReplaceMembership, NeedOf
<1>7. CASE MembershipRefused(p)
  BY <1>t, IdleShape, <1>7 DEF MembershipRefused, Leave, Unlocked, NeedOf
<1>8. CASE Evict(p)
  <2>0. work[p].pc = "take" /\ work[p].target \in Games
    BY <1>8, Placed DEF Evict
  <2>1. /\ work'[p].game = work[p].game /\ work'[p].need = work[p].need
        /\ unplanned' = unplanned /\ staged' = staged
    BY <1>t, <1>8 DEF Evict
  <2>2. ASSUME NEW a \in Closure[work[p].game] PROVE final'[a] = final[a]
    <3>1. a \in Assets /\ lock[a] = p
      BY <2>0, Placed DEF LockedBy
    <3>2. CASE Free(Closure[work[p].target])
      <4>1. a \notin Closure[work[p].target]
        BY <3>1, <3>2, Assumed DEF Free
      <4>2. a \notin Removable(work[p].target)
        BY <2>0, <4>1, RemovableInClosure
      <4>3. QED
        BY <1>8, <3>1, <3>2, <4>2 DEF Evict, Erased
    <3>3. CASE ~Free(Closure[work[p].target])
      BY <1>8, <3>3 DEF Evict
    <3>4. QED
      BY <3>2, <3>3
  <2>3. QED
    BY <1>k, <2>0, <2>1, <2>2
<1>9. CASE Cut(p)
  BY <1>t, IdleShape, <1>9 DEF Cut, NeedOf
<1>10. CASE Copy(p)
  BY <1>t, IdleShape, <1>10 DEF Copy, NeedOf
<1>11. CASE ConsumeGrowth(p)
  BY <1>t, IdleShape, <1>11 DEF ConsumeGrowth, NeedOf
<1>12. CASE Promote(p)
  BY <1>t, IdleShape, <1>12 DEF Promote, NeedOf
<1>13. CASE Finalize(p)
  BY <1>t, IdleShape, <1>13 DEF Finalize, NeedOf
<1>14. CASE Release(p)
  BY <1>t, IdleShape, <1>14 DEF Release, Leave, Unlocked, NeedOf
<1>15. CASE LockRemove(p)
  BY <1>t, IdleShape, <1>15 DEF LockRemove, Held, Free, NeedOf
<1>16. CASE RemoveFiles(p)
  BY <1>t, IdleShape, <1>16 DEF RemoveFiles, Erased, NeedOf
<1>17. CASE DropRemoved(p)
  BY <1>t, IdleShape, <1>17 DEF DropRemoved, Delete, Unlocked, NeedOf
<1>18. CASE Crash(p)
  BY <1>t, IdleShape, <1>18 DEF Crash, Leave, Unlocked, NeedOf
<1>19. ASSUME NEW g \in Games, LookAgain(p, g) PROVE NeedOf(p)'
  BY <1>t, <1>k, <1>19 DEF LookAgain, Forgets
<1>20. ASSUME NEW a \in Assets, PlanAsset(p, a) PROVE NeedOf(p)'
  BY <1>t, IdleShape, <1>20 DEF PlanAsset, NeedOf
<1>21. ASSUME NEW a \in Assets, Protect(p, a) PROVE NeedOf(p)'
  BY <1>t, IdleShape, <1>21 DEF Protect, Promotable, NeedOf
<1>22. ASSUME NEW checkpoint \in 0 .. Quota, Resume(p, checkpoint) PROVE NeedOf(p)'
  BY <1>t, IdleShape, <1>22 DEF Resume, NeedOf
<1>23. ASSUME NEW g \in Games, Request(p, g) PROVE NeedOf(p)'
  <2>1. /\ work'[p].game = g /\ work'[p].need = Needed(g)
        /\ final' = final /\ staged' = staged
    BY <1>t, IdleShape, <1>23 DEF Request, Idle
  <2>2. Total(Remaining, Missing(Closure[g])) <= Needed(g)
    BY NeededCovers
  <2>3. Total(Remaining, Missing(Closure[g]))' = Total(Remaining, Missing(Closure[g]))
    BY <2>1, ClaimSame, Assumed
  <2>4. Total(Remaining, Missing(Closure[work[p].game]))' = Total(Remaining, Missing(Closure[g]))'
    BY <2>1
  <2>5. QED
    BY <2>1, <2>2, <2>3, <2>4 DEF NeedOf
<1>24. ASSUME NEW g \in Games, AskRemove(p, g) PROVE NeedOf(p)'
  BY <1>t, IdleShape, <1>24 DEF AskRemove, NeedOf
<1>25. ASSUME NEW status \in {"failed", "incomplete"}, Fail(p, status) PROVE NeedOf(p)'
  BY <1>t, IdleShape, <1>25 DEF Fail, Leave, Unlocked, Marked, Transferring, NeedOf
<1>26. CASE Reads(p)
  BY <1>t, <1>k, <1>26 DEF Reads, ReadFinal, ReadStaging, ReadReserved, Enough, Forgets
<1>27. CASE DiscardStaging(p)
  BY <1>t, IdleShape, <1>27 DEF DiscardStaging, Discard, NeedOf
<1>28. QED
  BY <1>1, <1>2, <1>3, <1>4, <1>5, <1>6, <1>7, <1>8, <1>9, <1>10, <1>11, <1>12, <1>13, <1>14,
     <1>15, <1>16, <1>17, <1>18, <1>19, <1>20, <1>21, <1>22, <1>23, <1>24, <1>25, <1>26,
     <1>27 DEF Acts,
     Program, Reads

LEMMA TotalLess ==
    ASSUME NEW T, IsFiniteSet(T), NEW S, S \subseteq T, NEW f, NEW g,
           \A a \in T : f[a] \in Nat /\ g[a] \in Nat, \A a \in S : f[a] <= g[a]
    PROVE  Total(f, S) <= Total(g, T) /\ Total(f, S) \in Nat /\ Total(g, T) \in Nat
<1>1. IsFiniteSet(S)
  BY FS_Subset
<1>2. Total(f, S) \in Nat
  BY <1>1, TotalFinite
<1>3. Total(g, T) \in Nat
  BY TotalFinite
<1>4. \A a \in S : f[a] \in Nat /\ (f[a] = 0 \/ (a \in T /\ f[a] <= g[a]))
  OBVIOUS
<1>5. Total(f, S) <= Total(g, T)
  BY <1>4, TotalMono
<1>6. QED
  BY <1>2, <1>3, <1>5

LEMMA LeftOfKept ==
    ASSUME ShapeSound, ShapeSound', FilesSound, FilesSound', MediaSound, RowsTyped, RowsTyped',
           NEW p \in Procs, MemoryTyped(p), MemoryTyped(p)', LocksOf(p), LocksOf(p)', StagedOf(p), StagedOf(p)',
           CopiedOf(p), NeedOf(p), LeftOf(p), Acts(p)
    PROVE  LeftOf(p)'
<1> USE DEF db, files, plan, reservations, locks, user, sight, count, At, Goto
<1>t. /\ DOMAIN work = Procs /\ DOMAIN work[p] = Fields
      /\ "pc" \in Fields /\ "game" \in Fields /\ "need" \in Fields /\ "left" \in Fields
      /\ "seen" \in Fields /\ "owed" \in Fields
      /\ "have" \in Fields /\ "asset" \in Fields /\ "keep" \in Fields /\ "todo" \in Fields
      /\ "cands" \in Fields /\ "target" \in Fields /\ "existing" \in Fields
  BY FieldsOf
<1>s. /\ OnAsset = {"resume", "cut", "copy", "count", "move"}
      /\ Planned = {"resume", "cut", "copy", "count", "move", "plan"}
  BY Positions
<1>m. /\ work[p].left \in Nat /\ row \in [Procs -> Nat] /\ staged \in [Assets -> Nat]
      /\ work[p].need \in Nat /\ row[p] \in Nat /\ work'[p].left \in Nat
  BY DEF MemoryTyped, RowsTyped, ShapeSound
<1>c. /\ ToCome(p) \in [Assets -> Nat] /\ (~At(p, "cut") => ToCome(p) = Remaining)
      /\ Owing(p) \subseteq Assets /\ IsFiniteSet(Owing(p)) /\ Total(ToCome(p), Owing(p)) \in Nat
  <2>1. /\ ToCome(p) \in [Assets -> Nat] /\ (~At(p, "cut") => ToCome(p) = Remaining)
        /\ Owing(p) \subseteq Assets /\ IsFiniteSet(Owing(p))
    BY ToComeTyped, PendingTyped
  <2>2. QED
    BY <2>1, TotalFinite
<1>d. /\ ToCome(p)' \in [Assets -> Nat]
      /\ Owing(p)' \subseteq Assets /\ IsFiniteSet(Owing(p)') /\ Total(ToCome(p)', Owing(p)') \in Nat
  <2>1. ToCome(p)' \in [Assets -> Nat]
    <3>1. ASSUME NEW a \in Assets
          PROVE  (IF work'[p].pc = "cut" /\ a = work'[p].asset
                  THEN Size[a] - work'[p].keep ELSE Size[a] - staged'[a]) \in Nat
      <4>1. CASE work'[p].pc = "cut" /\ a = work'[p].asset
        BY <4>1, Assumed DEF StagedOf
      <4>2. CASE ~(work'[p].pc = "cut" /\ a = work'[p].asset)
        BY <4>2, Assumed DEF ShapeSound, FilesSound
      <4>3. QED
        BY <4>1, <4>2
    <3>2. QED
      BY <3>1 DEF ToCome
  <2>2. Pending(p)' \subseteq Assets
    BY <1>s, Assumed DEF LocksOf, Working, Admitting, Transferring, Pending
  <2>3. Owing(p)' \subseteq Assets
    BY <2>2 DEF Owing, Missing
  <2>4. IsFiniteSet(Owing(p)')
    BY <2>3, Finite, FS_Subset
  <2>5. QED
    BY <2>1, <2>3, <2>4, TotalFinite
\* Nothing more to come, and nothing of the row used up.
<1>k. ASSUME work[p].pc \in {"enter", "members"} \cup Planned,
             Owing(p)' \subseteq Owing(p), unplanned' = unplanned,
             \A a \in Owing(p)' : ToCome(p)'[a] <= ToCome(p)[a],
             ~At(p, "count"), work'[p].pc # "count", work'[p].left = work[p].left, row'[p] = row[p]
      PROVE  LeftOf(p)'
  <2>1. Total(ToCome(p)', Owing(p)') <= Total(ToCome(p), Owing(p))
    BY <1>k, <1>c, <1>d, TotalLess
  <2>2. Uncounted(p) = 0 /\ Uncounted(p)' = 0
    BY <1>k DEF Uncounted
  <2>3. ASSUME unplanned' = {} PROVE Total(ToCome(p)', Owing(p)') + Uncounted(p)' <= work'[p].left
    BY <1>k, <1>m, <1>c, <1>d, <2>1, <2>2, <2>3 DEF LeftOf
  <2>4. work'[p].left <= row'[p]
    BY <1>k DEF LeftOf
  <2>5. QED
    BY <2>3, <2>4 DEF LeftOf, Total, Units
<1>1. CASE EnterAdmission(p)
  BY <1>t, <1>s, IdleShape, <1>1 DEF EnterAdmission, LeftOf
<1>2. CASE DropEntry(p)
  BY <1>t, <1>s, IdleShape, <1>2 DEF DropEntry, Delete, LeftOf
<1>3. CASE Admit(p)
  <2>1. /\ work[p].pc = "summed" /\ work'[p].pc = "enter" /\ work'[p].game = work[p].game
        /\ work'[p].left = work[p].need /\ row'[p] = work[p].need
        /\ unplanned' = unplanned /\ final' = final /\ staged' = staged
    BY <1>t, <1>m, <1>3 DEF Admit
  <2>2. Owing(p)' = Missing(Closure[work[p].game])
    BY <2>1 DEF Owing, Pending, Missing, Intact
  <2>3. ToCome(p)' = Remaining
    BY <2>1 DEF ToCome, Remaining
  <2>4. Uncounted(p)' = 0
    BY <2>1 DEF Uncounted
  <2>5. unplanned = {} => Total(Remaining, Missing(Closure[work[p].game])) <= work[p].need
    BY <2>1 DEF NeedOf
  <2>6. unplanned' = {} => Total(ToCome(p)', Owing(p)') + Uncounted(p)' <= work'[p].left
    BY <1>m, <1>d, <2>1, <2>2, <2>3, <2>4, <2>5
  <2>7. QED
    BY <1>m, <2>1, <2>6 DEF LeftOf, Total, Units
<1>4. CASE Refuse(p)
  BY <1>t, <1>s, IdleShape, <1>4 DEF Refuse, Unlocked, LeftOf
<1>5. CASE Enter(p)
  <2>1. /\ work[p].pc = "enter" /\ work'[p].pc = "members" /\ work'[p].game = work[p].game
        /\ work'[p].left = work[p].left /\ row' = row
        /\ unplanned' = unplanned /\ final' = final /\ staged' = staged
    BY <1>t, <1>5 DEF Enter
  <2>2. Owing(p)' = Owing(p)
    BY <2>1 DEF Owing, Pending, Missing, Intact
  <2>3. ToCome(p)' = ToCome(p)
    BY <2>1 DEF ToCome
  <2>4. QED
    BY <1>k, <1>c, <2>1, <2>2, <2>3
<1>6. CASE ReplaceMembership(p)
  <2>1. /\ work[p].pc = "members" /\ work'[p].pc = "plan" /\ work'[p].todo = Closure[work[p].game]
        /\ work'[p].left = work[p].left /\ row' = row
        /\ unplanned' = unplanned /\ final' = final /\ staged' = staged
    BY <1>t, <1>6 DEF ReplaceMembership
  <2>2. Owing(p)' = Owing(p)
    BY <1>s, <2>1 DEF Owing, Pending, Missing, Intact
  <2>3. ToCome(p)' = ToCome(p)
    BY <2>1 DEF ToCome
  <2>4. QED
    BY <1>k, <1>c, <2>1, <2>2, <2>3
<1>7. CASE MembershipRefused(p)
  BY <1>t, <1>s, IdleShape, <1>7 DEF MembershipRefused, Leave, Unlocked, LeftOf
<1>8. CASE Evict(p)
  BY <1>t, <1>s, IdleShape, <1>8 DEF Evict, Erased, Held, Free, LeftOf
<1>9. CASE Cut(p)
  <2> DEFINE b == work[p].asset
  <2>1. /\ work[p].pc = "cut" /\ work'[p].pc = "copy" /\ work'[p].todo = work[p].todo
        /\ work'[p].left = work[p].left /\ row' = row
        /\ unplanned' = unplanned /\ final' = final
        /\ staged' = [staged EXCEPT ![b] = work[p].keep]
    BY <1>t, <1>9 DEF Cut
  <2>2. Owing(p)' = Owing(p)
    BY <1>s, <2>1 DEF Owing, Pending, Missing, Intact
  <2>3. \A a \in Assets : ToCome(p)'[a] = ToCome(p)[a]
    BY <1>m, <2>1 DEF ToCome
  <2>4. \A a \in Owing(p)' : ToCome(p)'[a] <= ToCome(p)[a]
    BY <1>c, <2>2, <2>3
  <2>5. QED
    BY <1>s, <1>k, <2>1, <2>2, <2>4
<1>10. CASE Copy(p)
  <2> DEFINE b == work[p].asset
  <2>1. /\ work[p].pc = "copy" /\ b \in Assets /\ b \in work[p].todo /\ ~Intact(b)
        /\ staged[b] \in Nat /\ row' = row /\ unplanned' = unplanned /\ final' = final
    BY <1>s, <1>m, <1>10, Placed DEF Copy, CopiedOf
  <2>2. CASE staged[b] < Size[b]
    <3>1. /\ work'[p].pc = "count" /\ work'[p].todo = work[p].todo
          /\ work'[p].left = work[p].left
          /\ staged' = [staged EXCEPT ![b] = staged[b] + 1]
      BY <1>t, <1>10, <2>2 DEF Copy
    <3>2. Owing(p)' = Owing(p) /\ b \in Owing(p)
      BY <1>s, <2>1, <3>1 DEF Owing, Pending, Missing, Intact
    <3>3. /\ ToCome(p)'[b] + 1 = ToCome(p)[b]
          /\ \A a \in Owing(p) \ {b} : ToCome(p)'[a] = ToCome(p)[a]
      <4>1. staged'[b] = staged[b] + 1 /\ \A a \in Assets : a # b => staged'[a] = staged[a]
        BY <1>m, <2>1, <3>1
      <4>2. ToCome(p)'[b] = Size[b] - staged'[b] /\ ToCome(p)[b] = Size[b] - staged[b]
        BY <2>1, <3>1 DEF ToCome
      <4>3. \A a \in Assets : a # b => ToCome(p)'[a] = ToCome(p)[a]
        BY <2>1, <3>1, <4>1 DEF ToCome
      <4>4. QED
        BY <1>c, <2>1, <4>1, <4>2, <4>3, Assumed
    <3> HIDE DEF b
    <3>4. Total(ToCome(p)', Owing(p)) + 1 = Total(ToCome(p), Owing(p))
      <4>1. \A a \in Owing(p) : ToCome(p)[a] \in Nat /\ ToCome(p)'[a] \in Nat
        BY <1>c, <1>d
      <4>2. Total(ToCome(p), Owing(p)) = Total(ToCome(p), Owing(p) \ {b}) + ToCome(p)[b]
        BY <1>c, <3>2, <4>1, TotalAt
      <4>3. Total(ToCome(p)', Owing(p)) = Total(ToCome(p)', Owing(p) \ {b}) + ToCome(p)'[b]
        BY <1>c, <3>2, <4>1, TotalAt
      <4>4. Total(ToCome(p)', Owing(p) \ {b}) = Total(ToCome(p), Owing(p) \ {b})
        BY <3>3, TotalSame
      <4>5. IsFiniteSet(Owing(p) \ {b}) /\ Total(ToCome(p), Owing(p) \ {b}) \in Nat
        BY <1>c, <4>1, FS_RemoveElement, TotalFinite
      <4>6. QED
        BY <3>2, <3>3, <4>1, <4>2, <4>3, <4>4, <4>5
    <3>5. Uncounted(p) = 0 /\ Uncounted(p)' = 1
      BY <2>1, <3>1 DEF Uncounted
    <3>6. unplanned' = {} => Total(ToCome(p)', Owing(p)') + Uncounted(p)' <= work'[p].left
      BY <1>s, <1>m, <1>c, <2>1, <3>1, <3>2, <3>4, <3>5 DEF LeftOf
    <3>7. work'[p].left <= row'[p]
      BY <1>s, <2>1, <3>1 DEF LeftOf
    <3>8. QED
      BY <3>6, <3>7 DEF LeftOf, Total, Units
  <2>3. CASE ~(staged[b] < Size[b])
    <3>1. /\ work'[p].pc = "plan" /\ work'[p].todo = work[p].todo \ {b}
          /\ work'[p].left = work[p].left /\ staged' = staged
      BY <1>t, <1>10, <2>3 DEF Copy
    <3>2. Owing(p)' \subseteq Owing(p)
      BY <1>s, <2>1, <3>1 DEF Owing, Pending, Missing, Intact
    <3>3. ToCome(p)' = ToCome(p)
      BY <2>1, <3>1 DEF ToCome
    <3>4. QED
      BY <1>s, <1>k, <1>c, <2>1, <3>1, <3>2, <3>3
  <2>4. QED
    BY <2>2, <2>3
<1>11. CASE ConsumeGrowth(p)
  <2> DEFINE left == IF work[p].left > 0 THEN work[p].left - 1 ELSE 0
             persist == left = 0 \/ row[p] >= left + Lag
  <2>1. /\ work[p].pc = "count" /\ work'[p].pc = "copy" /\ work'[p].todo = work[p].todo
        /\ work'[p].left = left /\ unplanned' = unplanned /\ final' = final /\ staged' = staged
        /\ row'[p] = IF persist THEN left ELSE row[p]
    BY <1>t, <1>m, <1>11 DEF ConsumeGrowth
  <2>2. left \in Nat /\ left <= work[p].left /\ work[p].left <= row[p]
    BY <1>s, <1>m, <2>1 DEF LeftOf
  <2>3. Owing(p)' = Owing(p)
    BY <1>s, <2>1 DEF Owing, Pending, Missing, Intact
  <2>4. ToCome(p)' = ToCome(p)
    BY <2>1 DEF ToCome
  <2>5. Uncounted(p) = 1 /\ Uncounted(p)' = 0
    BY <2>1 DEF Uncounted
  <2>6. unplanned' = {} => Total(ToCome(p)', Owing(p)') + Uncounted(p)' <= work'[p].left
    BY <1>s, <1>m, <1>c, <2>1, <2>3, <2>4, <2>5 DEF LeftOf
  <2>7. work'[p].left <= row'[p]
    BY <1>m, <2>1, <2>2
  <2>8. QED
    BY <2>6, <2>7 DEF LeftOf, Total, Units
<1>12. CASE Promote(p)
  <2>1. /\ work[p].pc = "move" /\ work'[p].pc = "plan" /\ work'[p].todo = {}
        /\ work'[p].left = work[p].left /\ row' = row
    BY <1>t, <1>12, Placed DEF Promote
  <2>2. Owing(p)' = {} /\ Uncounted(p)' = 0
    BY <1>s, <2>1 DEF Owing, Pending, Missing, Uncounted
  <2>3. Total(ToCome(p)', Owing(p)') = 0
    BY <2>2, TotalNone
  <2>4. work'[p].left <= row'[p]
    BY <1>s, <2>1 DEF LeftOf
  <2>5. QED
    BY <1>m, <2>1, <2>2, <2>3, <2>4 DEF LeftOf, Total, Units
<1>13. CASE Finalize(p)
  BY <1>t, <1>s, IdleShape, <1>13 DEF Finalize, LeftOf
<1>14. CASE Release(p)
  BY <1>t, <1>s, IdleShape, <1>14 DEF Release, Leave, Unlocked, LeftOf
<1>15. CASE LockRemove(p)
  BY <1>t, <1>s, IdleShape, <1>15 DEF LockRemove, Held, Free, LeftOf
<1>16. CASE RemoveFiles(p)
  BY <1>t, <1>s, IdleShape, <1>16 DEF RemoveFiles, Erased, LeftOf
<1>17. CASE DropRemoved(p)
  BY <1>t, <1>s, IdleShape, <1>17 DEF DropRemoved, Delete, Unlocked, LeftOf
<1>18. CASE Crash(p)
  BY <1>t, <1>s, IdleShape, <1>18 DEF Crash, Leave, Unlocked, LeftOf
<1>19. ASSUME NEW g \in Games, LookAgain(p, g) PROVE LeftOf(p)'
  BY <1>t, <1>s, IdleShape, <1>19 DEF LookAgain, Forgets, LeftOf
<1>20. ASSUME NEW a \in Assets, PlanAsset(p, a) PROVE LeftOf(p)'
  <2>1. /\ work[p].pc = "plan" /\ work'[p].pc \in {"plan", "resume"} /\ work'[p].todo \subseteq work[p].todo
        /\ work'[p].left = work[p].left /\ row' = row
        /\ unplanned' = unplanned /\ final' = final /\ staged' = staged
    BY <1>t, <1>20 DEF PlanAsset
  <2>2. Owing(p)' \subseteq Owing(p)
    BY <1>s, <2>1 DEF Owing, Pending, Missing, Intact
  <2>3. ToCome(p)' = ToCome(p)
    BY <2>1 DEF ToCome
  <2>4. QED
    BY <1>s, <1>k, <1>c, <2>1, <2>2, <2>3
<1>21. ASSUME NEW a \in Assets, Protect(p, a) PROVE LeftOf(p)'
  <2>1. /\ work'[p].pc = "move" /\ work'[p].todo = {}
        /\ work'[p].left = work[p].left + staged[a] /\ row'[p] = work[p].left + staged[a]
    BY <1>t, <1>m, <1>21 DEF Protect
  <2>2. Owing(p)' = {} /\ Uncounted(p)' = 0
    BY <1>s, <2>1 DEF Owing, Pending, Missing, Uncounted
  <2>3. Total(ToCome(p)', Owing(p)') = 0
    BY <2>2, TotalNone
  <2>4. QED
    BY <1>m, <2>1, <2>2, <2>3 DEF LeftOf, Total, Units
<1>22. ASSUME NEW checkpoint \in 0 .. Quota, Resume(p, checkpoint) PROVE LeftOf(p)'
  <2> DEFINE b == work[p].asset
             lost == staged[b] - checkpoint
  <2>1. /\ work[p].pc = "resume" /\ b \in Assets /\ b \in work[p].todo /\ ~Intact(b)
        /\ staged[b] \in Nat /\ checkpoint \in Nat /\ lost \in Nat
        /\ unplanned' = unplanned /\ final' = final /\ staged' = staged
    BY <1>s, <1>m, <1>22, Placed DEF Resume, CopiedOf
  <2>2. CASE lost = 0
    <3>1. /\ work'[p].pc = "copy" /\ work'[p].todo = work[p].todo
          /\ work'[p].left = work[p].left /\ row' = row
      BY <1>t, <1>22, <2>2 DEF Resume
    <3>2. Owing(p)' = Owing(p)
      BY <1>s, <2>1, <3>1 DEF Owing, Pending, Missing, Intact
    <3>3. ToCome(p)' = ToCome(p)
      BY <2>1, <3>1 DEF ToCome
    <3>4. QED
      BY <1>s, <1>k, <1>c, <2>1, <3>1, <3>2, <3>3
  <2>3. CASE lost # 0
    <3>1. /\ work'[p].pc = "cut" /\ work'[p].todo = work[p].todo /\ work'[p].asset = b
          /\ work'[p].keep = checkpoint
          /\ work'[p].left = work[p].left + lost /\ row'[p] = work[p].left + lost
      BY <1>t, <1>m, <1>22, <2>3 DEF Resume
    <3>2. Owing(p)' = Owing(p) /\ b \in Owing(p)
      BY <1>s, <2>1, <3>1 DEF Owing, Pending, Missing, Intact
    <3>3. /\ ToCome(p)'[b] = ToCome(p)[b] + lost
          /\ \A a \in Owing(p) \ {b} : ToCome(p)'[a] = ToCome(p)[a]
      <4>1. ToCome(p)'[b] = Size[b] - checkpoint /\ ToCome(p)[b] = Size[b] - staged[b]
        BY <2>1, <3>1 DEF ToCome
      <4>2. \A a \in Assets : a # b => ToCome(p)'[a] = ToCome(p)[a]
        BY <2>1, <3>1 DEF ToCome
      <4>3. QED
        BY <1>c, <2>1, <4>1, <4>2, Assumed
    <3> HIDE DEF b, lost
    <3>4. Total(ToCome(p)', Owing(p)) = Total(ToCome(p), Owing(p)) + lost
      <4>1. \A a \in Owing(p) : ToCome(p)[a] \in Nat /\ ToCome(p)'[a] \in Nat
        BY <1>c, <1>d
      <4>2. Total(ToCome(p), Owing(p)) = Total(ToCome(p), Owing(p) \ {b}) + ToCome(p)[b]
        BY <1>c, <3>2, <4>1, TotalAt
      <4>3. Total(ToCome(p)', Owing(p)) = Total(ToCome(p)', Owing(p) \ {b}) + ToCome(p)'[b]
        BY <1>c, <3>2, <4>1, TotalAt
      <4>4. Total(ToCome(p)', Owing(p) \ {b}) = Total(ToCome(p), Owing(p) \ {b})
        BY <3>3, TotalSame
      <4>5. IsFiniteSet(Owing(p) \ {b}) /\ Total(ToCome(p), Owing(p) \ {b}) \in Nat
        BY <1>c, <4>1, FS_RemoveElement, TotalFinite
      <4>6. QED
        BY <2>1, <3>2, <3>3, <4>1, <4>2, <4>3, <4>4, <4>5
    <3>5. Uncounted(p) = 0 /\ Uncounted(p)' = 0
      BY <2>1, <3>1 DEF Uncounted
    <3>6. unplanned' = {} => Total(ToCome(p)', Owing(p)') + Uncounted(p)' <= work'[p].left
      BY <1>s, <1>m, <1>c, <2>1, <3>1, <3>2, <3>4, <3>5 DEF LeftOf
    <3>7. QED
      BY <1>m, <2>1, <3>1, <3>6 DEF LeftOf, Total, Units
  <2>4. QED
    BY <2>2, <2>3
<1>23. ASSUME NEW g \in Games, Request(p, g) PROVE LeftOf(p)'
  BY <1>t, <1>s, IdleShape, <1>23 DEF Request, Held, Free, LeftOf
<1>24. ASSUME NEW g \in Games, AskRemove(p, g) PROVE LeftOf(p)'
  BY <1>t, <1>s, IdleShape, <1>24 DEF AskRemove, LeftOf
<1>25. ASSUME NEW status \in {"failed", "incomplete"}, Fail(p, status) PROVE LeftOf(p)'
  BY <1>t, <1>s, IdleShape, <1>25 DEF Fail, Leave, Unlocked, Marked, Transferring, LeftOf
<1>26. CASE Reads(p)
  BY <1>t, <1>s, IdleShape, <1>26 DEF Reads, ReadFinal, ReadStaging, ReadReserved, Enough,
       Forgets, LeftOf
<1>27. CASE DiscardStaging(p)
  BY <1>t, <1>s, IdleShape, <1>27 DEF DiscardStaging, Discard, LeftOf
<1>28. QED
  BY <1>1, <1>2, <1>3, <1>4, <1>5, <1>6, <1>7, <1>8, <1>9, <1>10, <1>11, <1>12, <1>13, <1>14,
     <1>15, <1>16, <1>17, <1>18, <1>19, <1>20, <1>21, <1>22, <1>23, <1>24, <1>25, <1>26,
     <1>27 DEF Acts,
     Program, Reads


\* The claims of a transfer while others act.
LEMMA SparedClaims ==
    ASSUME ShapeSound, FilesSound, MediaSound, NEW q \in Procs, LocksOf(q), StagedOf(q),
           NeedOf(q), LeftOf(q), Spared(q), row'[q] = row[q]
    PROVE  NeedOf(q)' /\ LeftOf(q)' /\ (unplanned' = {} => Owing(q)' = Owing(q))
<1>w. work'[q] = work[q] /\ unplanned \subseteq unplanned'
  BY DEF Spared, OnlyMore
<1>1. ASSUME NEW S, S \subseteq Assets, LockedBy(q, S), unplanned' = {}
      PROVE  \A a \in S : final'[a] = final[a] /\ staged'[a] = staged[a]
  BY <1>1 DEF LockedBy, Spared
<1>2. NeedOf(q)'
  <2> DEFINE S == Closure[work[q].game]
  <2>1. SUFFICES ASSUME work[q].pc \in {"admit", "evict", "sized", "scanned", "summed", "take", "drop"},
                        unplanned' = {}
                 PROVE  Total(Remaining, Missing(Closure[work[q].game]))' <= work[q].need
    BY <1>w DEF NeedOf
  <2>2. S \subseteq Assets /\ LockedBy(q, S)
    BY <2>1, Placed
  <2>3. \A a \in S : final'[a] = final[a] /\ staged'[a] = staged[a]
    BY <1>1, <2>1, <2>2
  <2>4. Total(Remaining, Missing(Closure[work[q].game]))' = Total(Remaining, Missing(S))
    <3>1. Missing(Closure[work[q].game])' = Missing(S)
      BY <1>w, <2>3 DEF Missing, Intact
    <3>2. \A a \in Missing(S) : Remaining'[a] = Remaining[a]
      BY <2>2, <2>3 DEF Missing, Remaining
    <3>3. Total(Remaining', Missing(S)) = Total(Remaining, Missing(S))
      BY <3>2, TotalSame
    <3>4. Total(Remaining, Missing(Closure[work[q].game]))'
            = Total(Remaining', Missing(Closure[work[q].game])')
      BY DEF Total, Units
    <3>5. QED
      BY <3>1, <3>3, <3>4
  <2>5. Total(Remaining, Missing(S)) <= work[q].need
    BY <1>w, <2>1 DEF NeedOf
  <2>6. QED
    BY <2>4, <2>5
<1>3. ASSUME unplanned' = {} PROVE Owing(q)' = Owing(q)
  <2>1. \A a \in Pending(q) : final'[a] = final[a]
    BY <1>1, <1>3, PendingTyped
  <2>2. Pending(q)' = Pending(q)
    BY <1>w DEF Pending
  <2>3. QED
    BY <2>1, <2>2 DEF Owing, Missing, Intact
<1>4. LeftOf(q)'
  <2>1. SUFFICES ASSUME work[q].pc \in {"enter", "members"} \cup Planned
                 PROVE  /\ work[q].left <= row[q]
                        /\ unplanned' = {} => Total(ToCome(q), Owing(q))' + Uncounted(q)' <= work[q].left
    BY <1>w DEF LeftOf
  <2>2. ASSUME unplanned' = {} PROVE Total(ToCome(q), Owing(q))' + Uncounted(q)' <= work[q].left
    <3>1. \A a \in Owing(q) : staged'[a] = staged[a] /\ a \in Assets
      BY <1>1, <2>2, PendingTyped DEF Owing, Missing
    <3>2. \A a \in Owing(q) : ToCome(q)'[a] = ToCome(q)[a]
      BY <1>w, <3>1 DEF ToCome, At
    <3>3. Total(ToCome(q)', Owing(q)) = Total(ToCome(q), Owing(q))
      BY <3>2, TotalSame
    <3>4. Total(ToCome(q), Owing(q))' = Total(ToCome(q)', Owing(q))
      BY <1>3, <2>2 DEF Total, Units
    <3>5. Uncounted(q)' = Uncounted(q)
      BY <1>w DEF Uncounted, At
    <3>6. QED
      BY <1>w, <2>1, <2>2, <3>3, <3>4, <3>5 DEF LeftOf
  <2>3. QED
    BY <2>1, <2>2 DEF LeftOf
<1>5. QED
  BY <1>2, <1>3, <1>4

-----------------------------------------------------------------------------
(* The budget.                                                             *)

LEMMA RowsSpared ==
    ASSUME NEW p \in Procs, Acts(p), RowsTyped, NEW q \in Procs, q # p
    PROVE  row'[q] = row[q]
<1> USE DEF db, files, plan, reservations, locks, user, sight, count
<1>t. row \in [Procs -> Nat]
  BY DEF RowsTyped
<1>1. CASE EnterAdmission(p)
  BY <1>t, <1>1 DEF EnterAdmission
<1>2. CASE DropEntry(p)
  BY <1>t, <1>2 DEF DropEntry, Delete
<1>3. CASE Admit(p)
  BY <1>t, <1>3 DEF Admit
<1>4. CASE Refuse(p)
  BY <1>t, <1>4 DEF Refuse, Unlocked
<1>5. CASE Enter(p)
  BY <1>t, <1>5 DEF Enter
<1>6. CASE ReplaceMembership(p)
  BY <1>t, <1>6 DEF ReplaceMembership
<1>7. CASE MembershipRefused(p)
  BY <1>t, <1>7 DEF MembershipRefused, Leave, Unlocked
<1>8. CASE Evict(p)
  BY <1>t, <1>8 DEF Evict, Erased, Held, Free
<1>9. CASE Cut(p)
  BY <1>t, <1>9 DEF Cut
<1>10. CASE Copy(p)
  BY <1>t, <1>10 DEF Copy
<1>11. CASE ConsumeGrowth(p)
  BY <1>t, <1>11 DEF ConsumeGrowth
<1>12. CASE Promote(p)
  BY <1>t, <1>12 DEF Promote
<1>13. CASE Finalize(p)
  BY <1>t, <1>13 DEF Finalize
<1>14. CASE Release(p)
  BY <1>t, <1>14 DEF Release, Leave, Unlocked
<1>15. CASE LockRemove(p)
  BY <1>t, <1>15 DEF LockRemove, Held, Free
<1>16. CASE RemoveFiles(p)
  BY <1>t, <1>16 DEF RemoveFiles, Erased
<1>17. CASE DropRemoved(p)
  BY <1>t, <1>17 DEF DropRemoved, Delete, Unlocked
<1>18. CASE Crash(p)
  BY <1>t, <1>18 DEF Crash, Leave, Unlocked
<1>19. ASSUME NEW g \in Games, LookAgain(p, g) PROVE row'[q] = row[q]
  BY <1>t, <1>19 DEF LookAgain, Forgets
<1>20. ASSUME NEW a \in Assets, PlanAsset(p, a) PROVE row'[q] = row[q]
  BY <1>t, <1>20 DEF PlanAsset
<1>21. ASSUME NEW a \in Assets, Protect(p, a) PROVE row'[q] = row[q]
  BY <1>t, <1>21 DEF Protect, Promotable
<1>22. ASSUME NEW checkpoint \in 0 .. Quota, Resume(p, checkpoint) PROVE row'[q] = row[q]
  BY <1>t, <1>22 DEF Resume
<1>23. ASSUME NEW g \in Games, Request(p, g) PROVE row'[q] = row[q]
  BY <1>t, <1>23 DEF Request, Held, Free
<1>24. ASSUME NEW g \in Games, AskRemove(p, g) PROVE row'[q] = row[q]
  BY <1>t, <1>24 DEF AskRemove
<1>25. ASSUME NEW status \in {"failed", "incomplete"}, Fail(p, status) PROVE row'[q] = row[q]
  BY <1>t, <1>25 DEF Fail, Leave, Unlocked, Marked, Transferring
<1>26. CASE Reads(p)
  BY <1>t, <1>26 DEF Reads, ReadFinal, ReadStaging, ReadReserved, Enough, Forgets
<1>27. CASE DiscardStaging(p)
  BY <1>t, <1>27 DEF DiscardStaging, Discard
<1>28. QED
  BY <1>1, <1>2, <1>3, <1>4, <1>5, <1>6, <1>7, <1>8, <1>9, <1>10, <1>11, <1>12, <1>13, <1>14,
     <1>15, <1>16, <1>17, <1>18, <1>19, <1>20, <1>21, <1>22, <1>23, <1>24, <1>25, <1>26,
     <1>27 DEF Acts,
     Program, Reads

\* Only an admission gives a process something to deal with, and what one has to deal with
\* stays as it is on disk until it is promoted.
LEMMA PendingShrinks ==
    ASSUME ShapeSound, NEW p \in Procs, LocksOf(p), Acts(p), ~Admit(p)
    PROVE  Pending(p)' = {} \/ (Pending(p)' \subseteq Pending(p) /\ final' = final)
<1> USE DEF db, files, plan, reservations, locks, user, sight, count, At, Goto
<1>t. /\ DOMAIN work = Procs /\ DOMAIN work[p] = Fields
      /\ "pc" \in Fields /\ "game" \in Fields /\ "need" \in Fields /\ "left" \in Fields
      /\ "seen" \in Fields /\ "owed" \in Fields
      /\ "have" \in Fields /\ "asset" \in Fields /\ "keep" \in Fields /\ "todo" \in Fields
      /\ "cands" \in Fields /\ "target" \in Fields /\ "existing" \in Fields
  BY FieldsOf
<1>s. Planned = {"resume", "cut", "copy", "count", "move", "plan"}
  BY Positions
<1>l. At(p, "move") => work[p].todo = {}
  BY Placed
<1>1. CASE EnterAdmission(p)
  BY <1>t, <1>s, IdleShape, <1>1 DEF EnterAdmission, Pending
<1>2. CASE DropEntry(p)
  BY <1>t, <1>s, IdleShape, <1>2 DEF DropEntry, Delete, Pending
<1>3. CASE Admit(p)
  BY <1>3
<1>4. CASE Refuse(p)
  BY <1>t, <1>s, IdleShape, <1>4 DEF Refuse, Unlocked, Pending
<1>5. CASE Enter(p)
  BY <1>t, <1>s, IdleShape, <1>5 DEF Enter, Pending
<1>6. CASE ReplaceMembership(p)
  BY <1>t, <1>s, IdleShape, <1>6 DEF ReplaceMembership, Pending
<1>7. CASE MembershipRefused(p)
  BY <1>t, <1>s, IdleShape, <1>7 DEF MembershipRefused, Leave, Unlocked, Pending
<1>8. CASE Evict(p)
  BY <1>t, <1>s, IdleShape, <1>8 DEF Evict, Erased, Held, Free, Pending
<1>9. CASE Cut(p)
  BY <1>t, <1>s, IdleShape, <1>9 DEF Cut, Pending
<1>10. CASE Copy(p)
  BY <1>t, <1>s, IdleShape, <1>10 DEF Copy, Pending
<1>11. CASE ConsumeGrowth(p)
  BY <1>t, <1>s, IdleShape, <1>11 DEF ConsumeGrowth, Pending
<1>12. CASE Promote(p)
  BY <1>t, <1>s, <1>l, <1>12 DEF Promote, Pending
<1>13. CASE Finalize(p)
  BY <1>t, <1>s, IdleShape, <1>13 DEF Finalize, Pending
<1>14. CASE Release(p)
  BY <1>t, <1>s, IdleShape, <1>14 DEF Release, Leave, Unlocked, Pending
<1>15. CASE LockRemove(p)
  BY <1>t, <1>s, IdleShape, <1>15 DEF LockRemove, Held, Free, Pending
<1>16. CASE RemoveFiles(p)
  BY <1>t, <1>s, IdleShape, <1>16 DEF RemoveFiles, Erased, Pending
<1>17. CASE DropRemoved(p)
  BY <1>t, <1>s, IdleShape, <1>17 DEF DropRemoved, Delete, Unlocked, Pending
<1>18. CASE Crash(p)
  BY <1>t, <1>s, IdleShape, <1>18 DEF Crash, Leave, Unlocked, Pending
<1>19. ASSUME NEW g \in Games, LookAgain(p, g)
       PROVE  Pending(p)' = {} \/ (Pending(p)' \subseteq Pending(p) /\ final' = final)
  BY <1>t, <1>s, IdleShape, <1>19 DEF LookAgain, Forgets, Pending
<1>20. ASSUME NEW a \in Assets, PlanAsset(p, a)
       PROVE  Pending(p)' = {} \/ (Pending(p)' \subseteq Pending(p) /\ final' = final)
  BY <1>t, <1>s, IdleShape, <1>20 DEF PlanAsset, Pending
<1>21. ASSUME NEW a \in Assets, Protect(p, a)
       PROVE  Pending(p)' = {} \/ (Pending(p)' \subseteq Pending(p) /\ final' = final)
  BY <1>t, <1>s, IdleShape, <1>21 DEF Protect, Promotable, Pending
<1>22. ASSUME NEW checkpoint \in 0 .. Quota, Resume(p, checkpoint)
       PROVE  Pending(p)' = {} \/ (Pending(p)' \subseteq Pending(p) /\ final' = final)
  BY <1>t, <1>s, IdleShape, <1>22 DEF Resume, Pending
<1>23. ASSUME NEW g \in Games, Request(p, g)
       PROVE  Pending(p)' = {} \/ (Pending(p)' \subseteq Pending(p) /\ final' = final)
  BY <1>t, <1>s, IdleShape, <1>23 DEF Request, Held, Free, Pending
<1>24. ASSUME NEW g \in Games, AskRemove(p, g)
       PROVE  Pending(p)' = {} \/ (Pending(p)' \subseteq Pending(p) /\ final' = final)
  BY <1>t, <1>s, IdleShape, <1>24 DEF AskRemove, Pending
<1>25. ASSUME NEW status \in {"failed", "incomplete"}, Fail(p, status)
       PROVE  Pending(p)' = {} \/ (Pending(p)' \subseteq Pending(p) /\ final' = final)
  BY <1>t, <1>s, IdleShape, <1>25 DEF Fail, Leave, Unlocked, Marked, Transferring, Pending
<1>26. CASE Reads(p)
  BY <1>t, <1>s, IdleShape, <1>26 DEF Reads, ReadFinal, ReadStaging, ReadReserved, Enough,
       Forgets, Pending
<1>27. CASE DiscardStaging(p)
  BY <1>t, <1>s, IdleShape, <1>27 DEF DiscardStaging, Discard, Pending
<1>28. QED
  BY <1>1, <1>2, <1>3, <1>4, <1>5, <1>6, <1>7, <1>8, <1>9, <1>10, <1>11, <1>12, <1>13, <1>14,
     <1>15, <1>16, <1>17, <1>18, <1>19, <1>20, <1>21, <1>22, <1>23, <1>24, <1>25, <1>26,
     <1>27 DEF Acts,
     Program, Reads

\* What may come of a state: a size, or what is there.
LEMMA ReachTyped ==
    ASSUME NEW f \in [Assets -> Nat], NEW s \in [Assets -> Nat], NEW D
    PROVE  /\ \A a \in Assets : /\ Reach(f, s, D)[a] = f[a] + (IF a \in D THEN Size[a] ELSE s[a])
                                /\ Reach(f, s, D)[a] \in Nat
           /\ Total(Reach(f, s, D), Assets) \in Nat
<1>1. ASSUME NEW a \in Assets
      PROVE  /\ Reach(f, s, D)[a] = f[a] + (IF a \in D THEN Size[a] ELSE s[a])
             /\ Reach(f, s, D)[a] \in Nat
  BY Assumed DEF Reach
<1>2. Total(Reach(f, s, D), Assets) \in Nat
  BY <1>1, Finite, TotalFinite
<1>3. QED
  BY <1>1, <1>2

\* Files that owe more may grow by what these still have to come.
LEMMA ReachWidened ==
    ASSUME NEW f \in [Assets -> Nat], NEW s \in [Assets -> Nat], \A a \in Assets : s[a] <= Size[a],
           NEW r, \A a \in Assets : r[a] = Size[a] - s[a],
           NEW D, NEW E, E \subseteq Assets, NEW D2, D2 \subseteq D \cup E
    PROVE  /\ Total(Reach(f, s, D2), Assets) <= Total(Reach(f, s, D), Assets) + Total(r, E)
           /\ Total(r, E) \in Nat
<1> DEFINE extra == [a \in Assets |-> IF a \in E THEN r[a] ELSE 0]
<1>1. \A a \in Assets : r[a] \in Nat /\ r[a] + s[a] = Size[a] /\ s[a] \in Nat /\ f[a] \in Nat
  BY Assumed
<1>2. \A a \in Assets : /\ extra[a] \in Nat
                        /\ extra[a] = IF a \in E THEN r[a] ELSE 0
  BY <1>1
<1> HIDE DEF extra
<1>3. ASSUME NEW a \in Assets
      PROVE  /\ Reach(f, s, D2)[a] \in Nat /\ Reach(f, s, D)[a] \in Nat
             /\ Reach(f, s, D2)[a] <= Reach(f, s, D)[a] + extra[a]
  <2>1. /\ Reach(f, s, D2)[a] = f[a] + (IF a \in D2 THEN Size[a] ELSE s[a])
        /\ Reach(f, s, D)[a] = f[a] + (IF a \in D THEN Size[a] ELSE s[a])
        /\ Reach(f, s, D2)[a] \in Nat /\ Reach(f, s, D)[a] \in Nat
    BY ReachTyped
  <2>2. a \in D2 => a \in D \/ a \in E
    OBVIOUS
  <2>3. QED
    BY <1>1, <1>2, <2>1, <2>2
<1>4. Total(Reach(f, s, D2), Assets) <= Total(Reach(f, s, D), Assets) + Total(extra, Assets)
  BY <1>2, <1>3, Finite, TotalSplit
<1>5. IsFiniteSet(E) /\ \A a \in E : r[a] \in Nat
  BY <1>1, Finite, FS_Subset
<1>6. Total(extra, Assets) <= Total(r, E)
  <2>1. \A a \in Assets : extra[a] \in Nat /\ (extra[a] = 0 \/ (a \in E /\ extra[a] <= r[a]))
    BY <1>1, <1>2
  <2>2. QED
    BY <1>5, <2>1, TotalMono
<1>7. /\ Total(Reach(f, s, D2), Assets) \in Nat /\ Total(Reach(f, s, D), Assets) \in Nat
      /\ Total(extra, Assets) \in Nat /\ Total(r, E) \in Nat
  BY <1>2, <1>5, Finite, ReachTyped, TotalFinite
<1>8. QED
  BY <1>4, <1>6, <1>7

\* What may come is at least what is there, and at most that and what is still to come.
LEMMA PeakBounds ==
    ASSUME ShapeSound, FilesSound, NEW D, D \subseteq Assets
    PROVE  /\ Physical <= Total(Reach(final, staged, D), Assets)
           /\ Total(Reach(final, staged, D), Assets) <= Physical + Total(Remaining, D)
           /\ Total(Reach(final, staged, D), Assets) \in Nat /\ Physical \in Nat
           /\ Total(Remaining, D) \in Nat
<1> DEFINE full == Reach(final, staged, D)
           bare == Reach(final, staged, {})
<1>1. /\ final \in [Assets -> Nat] /\ staged \in [Assets -> Nat]
      /\ \A a \in Assets : /\ staged[a] <= Size[a] /\ Size[a] \in Nat
                           /\ final[a] \in Nat /\ staged[a] \in Nat
                           /\ Remaining[a] = Size[a] - staged[a]
  BY RemainingTyped, Assumed DEF ShapeSound, FilesSound
<1>2. \A a \in Assets : full[a] = final[a] + (IF a \in D THEN Size[a] ELSE staged[a]) /\ full[a] \in Nat
  BY <1>1, ReachTyped
<1>3. \A a \in Assets : bare[a] = final[a] + staged[a] /\ bare[a] \in Nat
  BY <1>1, ReachTyped
<1>4. /\ Total(final, Assets) \in Nat /\ Total(staged, Assets) \in Nat
      /\ Total(full, Assets) \in Nat /\ Total(bare, Assets) \in Nat
  BY <1>1, Finite, ReachTyped, TotalFinite
<1>5. Total(full, Assets) <= Total(bare, Assets) + Total(Remaining, D) /\ Total(Remaining, D) \in Nat
  BY <1>1, ReachWidened
<1> HIDE DEF full, bare
<1>6. Total(final, Assets) + Total(staged, Assets) <= Total(full, Assets)
  <2>1. \A a \in Assets : final[a] \in Nat /\ staged[a] \in Nat /\ full[a] \in Nat
                          /\ final[a] + staged[a] <= full[a]
    BY <1>1, <1>2
  <2>2. QED
    BY <2>1, Finite, TotalJoin
<1>7. Total(bare, Assets) <= Total(final, Assets) + Total(staged, Assets)
  <2>1. \A a \in Assets : final[a] \in Nat /\ staged[a] \in Nat /\ bare[a] \in Nat
                          /\ bare[a] <= final[a] + staged[a]
    BY <1>1, <1>3
  <2>2. QED
    BY <2>1, Finite, TotalSplit
<1>8. QED
  BY <1>4, <1>5, <1>6, <1>7 DEF Physical, full

\* What may come does not grow with a step, when what is written was owed.
LEMMA ReachFalls ==
    ASSUME ShapeSound, FilesSound, MediaSound, ShapeSound', FilesSound',
           NEW p \in Procs, LocksOf(p), StagedOf(p), CopiedOf(p), Acts(p), ~Admit(p),
           NEW D, NEW D2, D2 \subseteq D, \A a \in D2 : final'[a] # Size[a],
           Owing(p) \subseteq D \/ \A a \in Assets : staged'[a] <= staged[a]
    PROVE  Total(Reach(final', staged', D2), Assets) <= Total(Reach(final, staged, D), Assets)
<1> USE DEF db, files, plan, reservations, locks, user, sight, count, At
<1>m. /\ final \in [Assets -> Nat] /\ staged \in [Assets -> Nat]
      /\ final' \in [Assets -> Nat] /\ staged' \in [Assets -> Nat]
      /\ \A a \in Assets : Size[a] \in Nat /\ staged[a] <= Size[a] /\ staged'[a] <= Size[a]
  BY Assumed DEF ShapeSound, FilesSound
<1>p. \A a \in Assets :
        /\ Reach(final, staged, D)[a] = final[a] + (IF a \in D THEN Size[a] ELSE staged[a])
        /\ Reach(final', staged', D2)[a] = final'[a] + (IF a \in D2 THEN Size[a] ELSE staged'[a])
        /\ Reach(final, staged, D)[a] \in Nat /\ Reach(final', staged', D2)[a] \in Nat
  BY <1>m, ReachTyped
<1>s. SUFFICES ASSUME NEW a \in Assets
               PROVE  Reach(final', staged', D2)[a] <= Reach(final, staged, D)[a]
  BY <1>p, Finite, TotalLess
<1>1. ASSUME final'[a] <= final[a], staged'[a] <= staged[a]
      PROVE  Reach(final', staged', D2)[a] <= Reach(final, staged, D)[a]
  BY <1>m, <1>p, <1>1
<1>2. ASSUME final'[a] = final[a], a \in D
      PROVE  Reach(final', staged', D2)[a] <= Reach(final, staged, D)[a]
  BY <1>m, <1>p, <1>2
<1>4. CASE Quiet \/ DropEntry(p) \/ ReplaceMembership(p) \/ (\E b \in Assets : PlanAsset(p, b))
           \/ Finalize(p) \/ DropRemoved(p)
  <2>1. final' = final /\ staged' = staged
    BY <1>4 DEF Quiet, DropEntry, ReplaceMembership, PlanAsset, Finalize, DropRemoved
  <2>2. QED
    BY <1>m, <1>1, <2>1
<1>5. CASE Evict(p) \/ RemoveFiles(p) \/ DiscardStaging(p)
  <2>1. /\ final'[a] = final[a] \/ final'[a] = 0
        /\ staged'[a] = staged[a] \/ staged'[a] = 0
    BY <1>5 DEF Evict, RemoveFiles, DiscardStaging, Discard, Erased
  <2>2. QED
    BY <1>m, <1>1, <2>1
<1>6. CASE Cut(p) \/ Copy(p)
  <2>1. final' = final /\ work[p].pc \in {"cut", "copy"}
    BY <1>6 DEF Cut, Copy
  <2>2. CASE a = work[p].asset
    <3>1. a \in work[p].todo /\ ~Intact(a)
      BY <2>1, <2>2, Placed, Positions DEF CopiedOf
    <3>2. a \in Owing(p)
      BY <2>1, <3>1, Positions DEF Owing, Missing, Pending
    <3>3. QED
      BY <1>m, <1>1, <1>2, <2>1, <3>2
  <2>3. CASE a # work[p].asset
    <3>1. staged'[a] = staged[a]
      BY <1>m, <1>6, <2>3 DEF Cut, Copy
    <3>2. QED
      BY <1>m, <1>1, <2>1, <3>1
  <2>4. QED
    BY <2>2, <2>3
<1>7. CASE Promote(p)
  <2> DEFINE b == work[p].asset
  <2>1. b \in Assets /\ staged[b] = Size[b]
    BY <1>m, <1>7, Placed, Positions DEF Promote, StagedOf, FilesSound
  <2>2. final' = [final EXCEPT ![b] = staged[b]] /\ staged' = [staged EXCEPT ![b] = 0]
    BY <1>7 DEF Promote
  <2>3. CASE a # b
    BY <1>m, <1>1, <2>2, <2>3
  <2>4. CASE a = b
    <3>1. final'[a] = Size[a] /\ staged'[a] = 0
      BY <1>m, <2>1, <2>2, <2>4
    <3>2. QED
      BY <1>m, <1>p, <2>1, <2>4, <3>1
  <2>5. QED
    BY <2>3, <2>4
<1>8. QED
  BY <1>4, <1>5, <1>6, <1>7, EffectOf DEF Effect

LEMMA DebtTyped ==
    ASSUME ShapeSound, \A q \in Procs : LocksOf(q), NEW S, S \subseteq Procs
    PROVE  DebtOf(S) \subseteq Assets
<1>1. \A q \in S : Owing(q) \subseteq Assets
  BY PendingTyped
<1>2. QED
  BY <1>1 DEF DebtOf

\* No step but an admission raises what the cache may come to take.
LEMMA PeakStep ==
    ASSUME ShapeSound, FilesSound, MediaSound, ShapeSound', FilesSound', PeakKept,
           NEW p \in Procs, \A q \in Procs : LocksOf(q), StagedOf(p), CopiedOf(p), Acts(p), ~Admit(p),
           unplanned' = {} => \A q \in Procs : q # p => Owing(q)' = Owing(q)
    PROVE  /\ PeakKept'
           /\ unplanned' = {} =>
                Total(PeakOf(Procs)', Assets) <= Total(PeakOf(Procs), Assets)
<1>o. stray \subseteq stray' /\ unplanned' = unplanned /\ (overlooked => overlooked')
  BY OnlyMoreGoesAstray, EffectOf DEF OnlyMore
<1>1. ASSUME unplanned' = {}
      PROVE  Total(PeakOf(Procs)', Assets) <= Total(PeakOf(Procs), Assets)
  <2> DEFINE D2 == UNION {Owing(q)' : q \in Procs}
  <2>1. Owing(p)' \subseteq Owing(p)
    BY PendingShrinks DEF Owing, Missing, Intact
  <2>2. D2 \subseteq DebtOf(Procs) /\ Owing(p) \subseteq DebtOf(Procs)
    BY <1>1, <2>1 DEF DebtOf
  <2>3. \A a \in D2 : final'[a] # Size[a]
    BY DEF Owing, Missing, Intact
  <2>4. PeakOf(Procs)' = Reach(final', staged', D2)
    BY DEF PeakOf, DebtOf, Reach
  <2> HIDE DEF D2
  <2>5. QED
    BY <2>2, <2>3, <2>4, ReachFalls DEF PeakOf
<1>2. /\ Total(PeakOf(Procs), Assets) \in Nat /\ Total(PeakOf(Procs)', Assets) \in Nat
  <2>1. /\ final \in [Assets -> Nat] /\ staged \in [Assets -> Nat]
        /\ final' \in [Assets -> Nat] /\ staged' \in [Assets -> Nat]
    BY DEF ShapeSound
  <2>2. PeakOf(Procs)' = Reach(final', staged', DebtOf(Procs)')
    BY DEF PeakOf, Reach
  <2>3. QED
    BY <2>1, <2>2, ReachTyped DEF PeakOf
<1>3. PeakKept'
  <2>1. unplanned' = {} => Total(PeakOf(Procs)', Assets) <= Disk
    BY <1>o, <1>1, <1>2, Finite DEF PeakKept
  <2>2. Clean' => Total(PeakOf(Procs)', Assets) <= Quota
    BY <1>o, <1>1, <1>2, Assumed DEF PeakKept, Clean
  <2>3. QED
    BY <2>1, <2>2 DEF PeakKept, Total, Units
<1>4. QED
  BY <1>1, <1>3

-----------------------------------------------------------------------------
(* What an admission reads, one sum after the other.                       *)

\* The bytes that only the members of the games can count.
Bare == [a \in Assets |-> IF manifest[a] THEN 0 ELSE final[a]]

LEMMA BareTyped ==
    ASSUME ShapeSound
    PROVE  /\ \A a \in Assets : Bare[a] = (IF manifest[a] THEN 0 ELSE final[a]) /\ Bare[a] \in Nat
           /\ Total(Bare, Assets) \in Nat
<1>1. \A a \in Assets : Bare[a] = (IF manifest[a] THEN 0 ELSE final[a]) /\ Bare[a] \in Nat
  BY DEF ShapeSound, Bare
<1>2. QED
  BY <1>1, Finite, TotalFinite

\* When none went astray, they are counted (_account_bytes).
LEMMA BareCounted ==
    ASSUME ShapeSound, EveryByteCounted, MembersTyped, stray = {}
    PROVE  Total(Bare, Assets) <= TotalSize
<1> DEFINE V == UNION {{a} \X Tracked(a) : a \in Assets}
<1>1. IsFiniteSet(V)
  BY TrackedFinite
<1>2. ASSUME NEW u \in Units(Bare, Assets) PROVE u \in V
  <2>1. PICK a \in Assets : u \in {a} \X (1 .. Bare[a])
    BY DEF Units
  <2>2. CASE manifest[a]
    <3>1. Bare[a] = 0
      BY <2>2, BareTyped
    <3>2. QED
      BY <2>1, <3>1
  <2>3. CASE ~manifest[a]
    <3>1. Bare[a] = final[a] /\ 1 .. final[a] \subseteq Tracked(a)
      BY <2>3, BareTyped DEF EveryByteCounted, Counted
    <3>2. u \in {a} \X Tracked(a)
      BY <2>1, <3>1
    <3>3. QED
      BY <3>2
  <2>4. QED
    BY <2>2, <2>3
<1> HIDE DEF V
<1>3. Cardinality(Units(Bare, Assets)) <= Cardinality(V)
  BY <1>1, <1>2, FS_Subset
<1>4. QED
  BY <1>3 DEF Total, TotalSize, V

\* staging_bytes counts the rest (_unfinalized_promotion_bytes).
LEMMA RestCounted ==
    ASSUME ShapeSound, MembersTyped, RowsTyped
    PROVE  Physical <= Total(Bare, Assets) + StagingBytes
<1> DEFINE M == {a \in Assets : manifest[a]}
           rest == [a \in Assets |-> IF manifest[a] THEN final[a] ELSE 0]
<1>1. \A a \in Assets : /\ final[a] \in Nat /\ Bare[a] \in Nat /\ rest[a] \in Nat
                        /\ final[a] <= Bare[a] + rest[a]
                        /\ rest[a] = 0 \/ (a \in M /\ rest[a] <= final[a])
  BY BareTyped DEF ShapeSound
<1>2. IsFiniteSet(M) /\ \A a \in M : final[a] \in Nat
  BY Finite, FS_Subset DEF ShapeSound
<1> HIDE DEF M, rest
<1>3. Total(final, Assets) <= Total(Bare, Assets) + Total(rest, Assets)
  BY <1>1, Finite, TotalSplit
<1>4. Total(rest, Assets) <= Total(final, M)
  BY <1>1, <1>2, TotalMono
<1>5. /\ Total(final, Assets) \in Nat /\ Total(Bare, Assets) \in Nat /\ Total(rest, Assets) \in Nat
      /\ Total(final, M) \in Nat /\ Total(staged, Assets) \in Nat
  BY <1>1, <1>2, Finite, TotalFinite, SumsTyped
<1>6. QED
  BY <1>3, <1>4, <1>5 DEF Physical, StagingBytes, M

\* A cut takes bytes away: the checkpoint it keeps is not beyond what is staged.
CutOf(p) == At(p, "cut") => work[p].keep <= staged[work[p].asset]

LEMMA CutOfKept ==
    ASSUME ShapeSound, NEW p \in Procs, LocksOf(p), Acts(p)
    PROVE  CutOf(p)'
<1> USE DEF db, files, plan, reservations, locks, user, sight, count, At, Goto
<1>t. /\ DOMAIN work = Procs /\ DOMAIN work[p] = Fields
      /\ "pc" \in Fields /\ "game" \in Fields /\ "need" \in Fields /\ "left" \in Fields
      /\ "seen" \in Fields /\ "owed" \in Fields
      /\ "have" \in Fields /\ "asset" \in Fields /\ "keep" \in Fields /\ "todo" \in Fields
      /\ "cands" \in Fields /\ "target" \in Fields /\ "existing" \in Fields
  BY FieldsOf
<1>1. CASE EnterAdmission(p)
  BY <1>t, IdleShape, <1>1 DEF EnterAdmission, CutOf
<1>2. CASE DropEntry(p)
  BY <1>t, IdleShape, <1>2 DEF DropEntry, Delete, CutOf
<1>3. CASE Admit(p)
  BY <1>t, IdleShape, <1>3 DEF Admit, CutOf
<1>4. CASE Refuse(p)
  BY <1>t, IdleShape, <1>4 DEF Refuse, Unlocked, CutOf
<1>5. CASE Enter(p)
  BY <1>t, IdleShape, <1>5 DEF Enter, CutOf
<1>6. CASE ReplaceMembership(p)
  BY <1>t, IdleShape, <1>6 DEF ReplaceMembership, CutOf
<1>7. CASE MembershipRefused(p)
  BY <1>t, IdleShape, <1>7 DEF MembershipRefused, Leave, Unlocked, CutOf
<1>8. CASE Evict(p)
  BY <1>t, IdleShape, <1>8 DEF Evict, Erased, Held, Free, CutOf
<1>9. CASE Cut(p)
  BY <1>t, IdleShape, <1>9 DEF Cut, CutOf
<1>10. CASE Copy(p)
  BY <1>t, IdleShape, <1>10 DEF Copy, CutOf
<1>11. CASE ConsumeGrowth(p)
  BY <1>t, IdleShape, <1>11 DEF ConsumeGrowth, CutOf
<1>12. CASE Promote(p)
  BY <1>t, IdleShape, <1>12 DEF Promote, CutOf
<1>13. CASE Finalize(p)
  BY <1>t, IdleShape, <1>13 DEF Finalize, CutOf
<1>14. CASE Release(p)
  BY <1>t, IdleShape, <1>14 DEF Release, Leave, Unlocked, CutOf
<1>15. CASE LockRemove(p)
  BY <1>t, IdleShape, <1>15 DEF LockRemove, Held, Free, CutOf
<1>16. CASE RemoveFiles(p)
  BY <1>t, IdleShape, <1>16 DEF RemoveFiles, Erased, CutOf
<1>17. CASE DropRemoved(p)
  BY <1>t, IdleShape, <1>17 DEF DropRemoved, Delete, Unlocked, CutOf
<1>18. CASE Crash(p)
  BY <1>t, IdleShape, <1>18 DEF Crash, Leave, Unlocked, CutOf
<1>19. ASSUME NEW g \in Games, LookAgain(p, g) PROVE CutOf(p)'
  BY <1>t, IdleShape, <1>19 DEF LookAgain, Forgets, CutOf
<1>20. ASSUME NEW a \in Assets, PlanAsset(p, a) PROVE CutOf(p)'
  BY <1>t, IdleShape, <1>20 DEF PlanAsset, CutOf
<1>21. ASSUME NEW a \in Assets, Protect(p, a) PROVE CutOf(p)'
  BY <1>t, IdleShape, <1>21 DEF Protect, Promotable, CutOf
<1>22. ASSUME NEW checkpoint \in 0 .. Quota, Resume(p, checkpoint) PROVE CutOf(p)'
  BY <1>t, IdleShape, <1>22 DEF Resume, CutOf
<1>23. ASSUME NEW g \in Games, Request(p, g) PROVE CutOf(p)'
  BY <1>t, IdleShape, <1>23 DEF Request, Held, Free, CutOf
<1>24. ASSUME NEW g \in Games, AskRemove(p, g) PROVE CutOf(p)'
  BY <1>t, IdleShape, <1>24 DEF AskRemove, CutOf
<1>25. ASSUME NEW status \in {"failed", "incomplete"}, Fail(p, status) PROVE CutOf(p)'
  BY <1>t, IdleShape, <1>25 DEF Fail, Leave, Unlocked, Marked, Transferring, CutOf
<1>26. CASE Reads(p)
  BY <1>t, IdleShape, <1>26 DEF Reads, ReadFinal, ReadStaging, ReadReserved, Enough, Forgets,
       CutOf
<1>27. CASE DiscardStaging(p)
  BY <1>t, IdleShape, <1>27 DEF DiscardStaging, Discard, CutOf
<1>28. QED
  BY <1>1, <1>2, <1>3, <1>4, <1>5, <1>6, <1>7, <1>8, <1>9, <1>10, <1>11, <1>12, <1>13, <1>14,
     <1>15, <1>16, <1>17, <1>18, <1>19, <1>20, <1>21, <1>22, <1>23, <1>24, <1>25, <1>26,
     <1>27 DEF Acts,
     Program, Reads

LEMMA SparedCut ==
    ASSUME ShapeSound, NEW q \in Procs, LocksOf(q), CutOf(q), Spared(q)
    PROVE  CutOf(q)'
<1>1. work'[q] = work[q]
  BY DEF Spared
<1>2. ASSUME At(q, "cut") PROVE staged'[work[q].asset] = staged[work[q].asset]
  <2>1. work[q].asset \in Assets /\ lock[work[q].asset] = q
    BY <1>2, Placed, Positions DEF At, LockedBy
  <2>2. QED
    BY <2>1 DEF Spared
<1>3. QED
  BY <1>1, <1>2 DEF CutOf, At

\* A row covers what its transfer still has to write.
ComingOf(q) == Total(ToCome(q), Owing(q))
Coming == [q \in Procs |-> ComingOf(q)]

LEMMA Claimed ==
    ASSUME ShapeSound, FilesSound, RowsTyped, NEW q \in Procs, MemoryTyped(q), LocksOf(q), StagedOf(q),
           CutOf(q), LeftOf(q)
    PROVE  /\ Owing(q) \subseteq Assets
           /\ Total(Remaining, Owing(q)) \in Nat /\ ComingOf(q) \in Nat /\ row[q] \in Nat
           /\ Coming[q] = ComingOf(q)
           /\ Total(Remaining, Owing(q)) <= ComingOf(q)
           /\ unplanned = {} => ComingOf(q) <= row[q]
<1>1. /\ row[q] \in Nat /\ work[q].left \in Nat /\ Remaining \in [Assets -> Nat]
      /\ \A a \in Assets : Size[a] \in Nat /\ staged[a] \in Nat /\ Remaining[a] = Size[a] - staged[a]
  BY Assumed, RemainingTyped DEF RowsTyped, MemoryTyped, ShapeSound
<1>2. Owing(q) \subseteq Assets /\ IsFiniteSet(Owing(q))
  BY PendingTyped
<1>3. ToCome(q) \in [Assets -> Nat] /\ \A a \in Assets : Remaining[a] <= ToCome(q)[a]
  <2>1. ToCome(q) \in [Assets -> Nat] /\ (~At(q, "cut") => ToCome(q) = Remaining)
    BY ToComeTyped
  <2>2. ASSUME At(q, "cut"), NEW a \in Assets PROVE Remaining[a] <= ToCome(q)[a]
    <3>1. work[q].keep \in Nat /\ work[q].keep <= staged[work[q].asset]
      BY <2>2 DEF CutOf, StagedOf
    <3>2. ToCome(q)[a] = IF a = work[q].asset THEN Size[a] - work[q].keep ELSE Size[a] - staged[a]
      BY <2>2 DEF ToCome
    <3>3. QED
      BY <1>1, <3>1, <3>2
  <2>3. QED
    BY <1>1, <2>1, <2>2
<1>4. /\ Total(Remaining, Owing(q)) <= ComingOf(q)
      /\ Total(Remaining, Owing(q)) \in Nat /\ ComingOf(q) \in Nat
  BY <1>1, <1>2, <1>3, TotalLess DEF ComingOf
<1>5. CASE work[q].pc \in {"enter", "members"} \cup Planned
  <2>1. Uncounted(q) \in Nat
    BY DEF Uncounted
  <2>2. /\ work[q].left <= row[q]
        /\ unplanned = {} => ComingOf(q) + Uncounted(q) <= work[q].left
    BY <1>5 DEF LeftOf, ComingOf
  <2>3. unplanned = {} => ComingOf(q) <= row[q]
    BY <1>1, <1>4, <2>1, <2>2
  <2>4. QED
    BY <1>1, <1>2, <1>4, <2>3 DEF Coming
<1>6. CASE ~(work[q].pc \in {"enter", "members"} \cup Planned)
  <2>1. Owing(q) = {}
    BY <1>6 DEF Owing, Pending, Missing
  <2>2. ComingOf(q) = 0
    BY <2>1, TotalNone DEF ComingOf
  <2>3. QED
    BY <1>1, <1>2, <1>4, <2>2 DEF Coming
<1>7. QED
  BY <1>5, <1>6

\* Rows together cover what their transfers owe together.
LEMMA DebtCovered ==
    ASSUME NEW S, S \subseteq Procs, NEW f, \A a \in Assets : f[a] \in Nat,
           NEW r, \A q \in S : Owing(q) \subseteq Assets /\ r[q] \in Nat /\ Total(f, Owing(q)) <= r[q]
    PROVE  Total(f, DebtOf(S)) <= Total(r, S)
<1> DEFINE D == [q \in S |-> Owing(q)]
<1>1. D \in [S -> SUBSET Assets] /\ IsFiniteSet(S) /\ IsFiniteSet(Assets)
  BY Finite, FS_Subset
<1>2. \A q \in S : D[q] = Owing(q) /\ r[q] \in Nat /\ Total(f, D[q]) <= r[q]
  OBVIOUS
<1>3. DebtOf(S) = UNION {D[q] : q \in S}
  BY <1>2 DEF DebtOf
<1> HIDE DEF D
<1>4. QED
  BY <1>1, <1>2, <1>3, SumOfSums

\* A sum in two parts.
LEMMA TotalParts ==
    ASSUME NEW S, IsFiniteSet(S), NEW T, T \subseteq S, NEW f, \A a \in S : f[a] \in Nat
    PROVE  Total(f, S) = Total(f, T) + Total(f, S \ T)
<1>1. IsFiniteSet(T) /\ IsFiniteSet(S \ T)
  BY FS_Subset
<1>2. /\ IsFiniteSet(Units(f, T)) /\ Total(f, T) \in Nat
      /\ IsFiniteSet(Units(f, S \ T)) /\ Total(f, S \ T) \in Nat
  <2>1. (\A a \in T : f[a] \in Nat) /\ (\A a \in S \ T : f[a] \in Nat)
    OBVIOUS
  <2>2. IsFiniteSet(Units(f, T)) /\ Total(f, T) \in Nat
    BY <1>1, <2>1, TotalFinite
  <2>3. IsFiniteSet(Units(f, S \ T)) /\ Total(f, S \ T) \in Nat
    BY <1>1, <2>1, TotalFinite
  <2>4. QED
    BY <2>2, <2>3
<1>3. Units(f, S) = Units(f, T) \cup Units(f, S \ T)
  BY DEF Units
<1>4. Units(f, T) \cap Units(f, S \ T) = {}
  BY DEF Units
<1>5. Cardinality(Units(f, T) \cap Units(f, S \ T)) = 0
  BY <1>4, FS_EmptySet
<1>6. Cardinality(Units(f, T) \cup Units(f, S \ T))
        = Cardinality(Units(f, T)) + Cardinality(Units(f, S \ T)) - 0
  BY <1>2, <1>5, FS_Union
<1>7. QED
  BY <1>2, <1>3, <1>6 DEF Total

\* While another process holds the admission lock, a transfer writes and follows what it has
\* planned, no more.
LEMMA PendingStays ==
    ASSUME ShapeSound, NEW p \in Procs, LocksOf(p), Acts(p), ~Admit(p), admission # Nobody
    PROVE  \/ Pending(p)' = {} \/ Cut(p) \/ Copy(p)
           \/ staged' = staged /\ ~At(p, "cut") /\ work'[p].pc # "cut"
<1> DEFINE Goal == \/ Pending(p)' = {} \/ Cut(p) \/ Copy(p)
                   \/ staged' = staged /\ ~At(p, "cut") /\ work'[p].pc # "cut"
<1> SUFFICES Goal
  OBVIOUS
<1> USE DEF db, files, plan, reservations, locks, user, sight, count, At, Goto
<1>t. /\ DOMAIN work = Procs /\ DOMAIN work[p] = Fields
      /\ "pc" \in Fields /\ "game" \in Fields /\ "need" \in Fields /\ "left" \in Fields
      /\ "seen" \in Fields /\ "owed" \in Fields
      /\ "have" \in Fields /\ "asset" \in Fields /\ "keep" \in Fields /\ "todo" \in Fields
      /\ "cands" \in Fields /\ "target" \in Fields /\ "existing" \in Fields
  BY FieldsOf
<1>s. Planned = {"resume", "cut", "copy", "count", "move", "plan"} /\ Idle.pc = "idle"
  BY Positions, IdleShape
<1>l. At(p, "move") => work[p].todo = {}
  BY Placed
<1>1. CASE EnterAdmission(p)
  BY <1>t, <1>s, <1>l, <1>1 DEF EnterAdmission, Pending
<1>2. CASE DropEntry(p)
  BY <1>t, <1>s, <1>l, <1>2 DEF DropEntry, Delete, Pending
<1>3. CASE Admit(p)
  BY <1>3
<1>4. CASE Refuse(p)
  BY <1>t, <1>s, <1>l, <1>4 DEF Refuse, Unlocked, Pending
<1>5. CASE Enter(p)
  BY <1>t, <1>s, <1>l, <1>5 DEF Enter, Pending
<1>6. CASE ReplaceMembership(p)
  BY <1>t, <1>s, <1>l, <1>6 DEF ReplaceMembership, Pending
<1>7. CASE MembershipRefused(p)
  BY <1>t, <1>s, <1>l, <1>7 DEF MembershipRefused, Leave, Unlocked, Pending
<1>8. CASE Evict(p)
  BY <1>t, <1>s, <1>l, <1>8 DEF Evict, Erased, Held, Free, Pending
<1>9. CASE Cut(p)
  BY <1>9
<1>10. CASE Copy(p)
  BY <1>10
<1>11. CASE ConsumeGrowth(p)
  BY <1>t, <1>s, <1>l, <1>11 DEF ConsumeGrowth, Pending
<1>12. CASE Promote(p)
  BY <1>t, <1>s, <1>l, <1>12 DEF Promote, Pending
<1>13. CASE Finalize(p)
  BY <1>t, <1>s, <1>l, <1>13 DEF Finalize, Pending
<1>14. CASE Release(p)
  BY <1>t, <1>s, <1>l, <1>14 DEF Release, Leave, Unlocked, Pending
<1>15. CASE LockRemove(p)
  BY <1>t, <1>s, <1>l, <1>15 DEF LockRemove, Held, Free, Pending
<1>16. CASE RemoveFiles(p)
  BY <1>t, <1>s, <1>l, <1>16 DEF RemoveFiles, Erased, Pending
<1>17. CASE DropRemoved(p)
  BY <1>t, <1>s, <1>l, <1>17 DEF DropRemoved, Delete, Unlocked, Pending
<1>18. CASE Crash(p)
  BY <1>t, <1>s, <1>l, <1>18 DEF Crash, Leave, Unlocked, Pending
<1>19. ASSUME NEW g \in Games, LookAgain(p, g) PROVE Goal
  BY <1>t, <1>s, <1>l, <1>19 DEF LookAgain, Forgets, Pending
<1>20. ASSUME NEW a \in Assets, PlanAsset(p, a) PROVE Goal
  BY <1>t, <1>s, <1>l, <1>20 DEF PlanAsset, Pending
<1>21. ASSUME NEW a \in Assets, Protect(p, a) PROVE Goal
  BY <1>t, <1>s, <1>l, <1>21 DEF Protect, Promotable, Pending
<1>22. ASSUME NEW checkpoint \in 0 .. Quota, Resume(p, checkpoint) PROVE Goal
  BY <1>t, <1>s, <1>l, <1>22 DEF Resume, Pending
<1>23. ASSUME NEW g \in Games, Request(p, g) PROVE Goal
  BY <1>t, <1>s, <1>l, <1>23 DEF Request, Held, Free, Pending
<1>24. ASSUME NEW g \in Games, AskRemove(p, g) PROVE Goal
  BY <1>t, <1>s, <1>l, <1>24 DEF AskRemove, Pending
<1>25. ASSUME NEW status \in {"failed", "incomplete"}, Fail(p, status) PROVE Goal
  BY <1>t, <1>s, <1>l, <1>25 DEF Fail, Leave, Unlocked, Marked, Transferring, Pending
<1>26. CASE Reads(p)
  BY <1>t, <1>s, <1>l, <1>26 DEF Reads, ReadFinal, ReadStaging, ReadReserved, Enough, Forgets,
       Pending
<1>27. CASE DiscardStaging(p)
  BY <1>t, <1>s, <1>l, <1>27 DEF DiscardStaging, Discard, Pending
<1>28. QED
  BY <1>1, <1>2, <1>3, <1>4, <1>5, <1>6, <1>7, <1>8, <1>9, <1>10, <1>11, <1>12, <1>13, <1>14,
     <1>15, <1>16, <1>17, <1>18, <1>19, <1>20, <1>21, <1>22, <1>23, <1>24, <1>25, <1>26,
     <1>27 DEF Acts, Program, Reads

LEMMA ToComeTypedNext ==
    ASSUME ShapeSound', FilesSound', NEW p \in Procs, LocksOf(p)', StagedOf(p)'
    PROVE  /\ ToCome(p)' \in [Assets -> Nat]
           /\ Owing(p)' \subseteq Assets /\ IsFiniteSet(Owing(p)') /\ Total(ToCome(p)', Owing(p)') \in Nat
<1>1. ToCome(p)' \in [Assets -> Nat]
  <2>1. ASSUME NEW a \in Assets
        PROVE  (IF work'[p].pc = "cut" /\ a = work'[p].asset
                THEN Size[a] - work'[p].keep ELSE Size[a] - staged'[a]) \in Nat
    <3>1. CASE work'[p].pc = "cut" /\ a = work'[p].asset
      BY <3>1, Assumed DEF StagedOf, At
    <3>2. CASE ~(work'[p].pc = "cut" /\ a = work'[p].asset)
      BY <3>2, Assumed DEF ShapeSound, FilesSound
    <3>3. QED
      BY <3>1, <3>2
  <2>2. QED
    BY <2>1 DEF ToCome, At
<1>2. Pending(p)' \subseteq Assets
  BY Positions, Assumed DEF LocksOf, Pending
<1>3. Owing(p)' \subseteq Assets
  BY <1>2 DEF Owing, Missing
<1>4. IsFiniteSet(Owing(p)')
  BY <1>3, Finite, FS_Subset
<1>5. QED
  BY <1>1, <1>3, <1>4, TotalFinite

\* Meanwhile nothing more is to come.
LEMMA ComingFalls ==
    ASSUME ShapeSound, FilesSound, ShapeSound', FilesSound', NEW p \in Procs,
           LocksOf(p), StagedOf(p), LocksOf(p)', StagedOf(p)', Acts(p), ~Admit(p), admission # Nobody
    PROVE  Total(ToCome(p)', Owing(p)') <= ComingOf(p) /\ Total(ToCome(p)', Owing(p)') \in Nat
<1>c. ToCome(p) \in [Assets -> Nat] /\ Owing(p) \subseteq Assets /\ IsFiniteSet(Owing(p))
  BY ToComeTyped, PendingTyped
<1>d. /\ ToCome(p)' \in [Assets -> Nat] /\ Total(ToCome(p)', Owing(p)') \in Nat
  BY ToComeTypedNext
<1>1. Owing(p)' \subseteq Owing(p)
  BY PendingShrinks DEF Owing, Missing, Intact
<1>m. /\ staged \in [Assets -> Nat] /\ staged' \in [Assets -> Nat] /\ \A a \in Assets : Size[a] \in Nat
      /\ ToCome(p)' = [a \in Assets |-> IF work'[p].pc = "cut" /\ a = work'[p].asset
                                        THEN Size[a] - work'[p].keep ELSE Size[a] - staged'[a]]
      /\ ToCome(p) = [a \in Assets |-> IF work[p].pc = "cut" /\ a = work[p].asset
                                       THEN Size[a] - work[p].keep ELSE Size[a] - staged[a]]
  BY Assumed DEF ShapeSound, ToCome, At
<1>2. ASSUME NEW a \in Owing(p)' PROVE ToCome(p)'[a] <= ToCome(p)[a]
  <2>0. a \in Assets
    BY <1>c, <1>1
  <2>1. CASE Pending(p)' = {}
    BY <2>1 DEF Owing, Missing
  <2>2. CASE staged' = staged /\ ~At(p, "cut") /\ work'[p].pc # "cut"
    BY <1>m, <1>d, <2>0, <2>2 DEF At
  <2>3. CASE Cut(p)
    <3>1. /\ work[p].pc = "cut" /\ work'[p].pc = "copy" /\ work[p].asset \in Assets
          /\ staged' = [staged EXCEPT ![work[p].asset] = work[p].keep]
      BY <2>3, FieldsOf, Placed, Positions DEF Cut, At
    <3>2. ToCome(p)'[a] = ToCome(p)[a]
      BY <1>m, <2>0, <3>1
    <3>3. QED
      BY <1>d, <2>0, <3>2
  <2>4. CASE Copy(p)
    <3>1. /\ work[p].pc = "copy" /\ work'[p].pc \in {"count", "plan"}
          /\ staged'[a] = staged[a] \/ staged'[a] = staged[a] + 1
      BY <1>m, <2>0, <2>4, FieldsOf DEF Copy, At, Goto
    <3>2. QED
      BY <1>m, <1>c, <1>d, <2>0, <3>1
  <2>5. QED
    BY <2>1, <2>2, <2>3, <2>4, PendingStays
<1>3. Total(ToCome(p)', Owing(p)') <= Total(ToCome(p), Owing(p))
  <2>1. /\ \A a \in Owing(p) : ToCome(p)'[a] \in Nat /\ ToCome(p)[a] \in Nat
    BY <1>c, <1>d
  <2>2. QED
    BY <1>c, <1>1, <1>2, <2>1, TotalLess
<1>4. QED
  BY <1>d, <1>3 DEF ComingOf

\* What a process outside may do to the rows and the staged files while another one reads them:
\* nothing but fewer bytes, a unit written, or an end.
Less == row' = row /\ unseen' = unseen /\ \A a \in Assets : staged'[a] <= staged[a]
Written(p) == row' = row /\ (Measured => unseen' = unseen \cup {p})
Ended(p) == /\ \A q \in Procs : q # p => row'[q] = row[q]
            /\ staged' = staged /\ unseen' = unseen \ {p}
            /\ Measured /\ p \in unseen => overlooked'

LEMMA Withheld ==
    ASSUME ShapeSound, RowsTyped, NEW p \in Procs, LocksOf(p), CutOf(p), Acts(p),
           work[p].pc \notin Admitting, admission # Nobody, admission # p
    PROVE  /\ admission' = admission /\ ~Admit(p)
           /\ Less \/ Written(p) \/ Ended(p)
<1> DEFINE Goal == admission' = admission /\ ~Admit(p) /\ (Less \/ Written(p) \/ Ended(p))
<1> SUFFICES Goal
  OBVIOUS
<1> USE DEF db, files, plan, reservations, locks, user, sight, count, At, Goto
<1>t. /\ row \in [Procs -> Nat] /\ staged \in [Assets -> Nat]
      /\ work[p].pc \notin {"evict", "sized", "scanned", "summed", "take", "drop"}
      /\ \A n \in Nat : n <= n
  BY DEF RowsTyped, ShapeSound, Admitting
<1>a. ~Admit(p)
  BY <1>t DEF Admit
<1>1. CASE EnterAdmission(p)
  BY <1>t, <1>a, <1>1 DEF EnterAdmission, Less
<1>2. CASE DropEntry(p)
  BY <1>t, <1>a, <1>2 DEF DropEntry, Delete, Less
<1>3. CASE Admit(p)
  BY <1>t, <1>a, <1>3 DEF Admit, Less
<1>4. CASE Refuse(p)
  BY <1>t, <1>a, <1>4 DEF Refuse, Unlocked, Less
<1>5. CASE Enter(p)
  BY <1>t, <1>a, <1>5 DEF Enter, Less
<1>6. CASE ReplaceMembership(p)
  BY <1>t, <1>a, <1>6 DEF ReplaceMembership, Less
<1>7. CASE MembershipRefused(p)
  BY <1>t, <1>a, <1>7 DEF MembershipRefused, Leave, Ended
<1>8. CASE Evict(p)
  BY <1>t, <1>a, <1>8 DEF Evict, Erased, Held, Free, Less
<1>9. CASE Cut(p)
  <2>1. /\ work[p].pc = "cut" /\ work[p].asset \in Assets
        /\ staged' = [staged EXCEPT ![work[p].asset] = work[p].keep]
        /\ UNCHANGED <<row, unseen, admission>>
    BY <1>9, Placed, Positions DEF Cut
  <2>2. work[p].keep <= staged[work[p].asset]
    BY <2>1 DEF CutOf
  <2>3. QED
    BY <1>t, <1>a, <2>1, <2>2 DEF Less
<1>10. CASE Copy(p)
  BY <1>t, <1>a, <1>10 DEF Copy, Less, Written
<1>11. CASE ConsumeGrowth(p)
  BY <1>t, <1>a, <1>11 DEF ConsumeGrowth, Less
<1>12. CASE Promote(p)
  BY <1>t, <1>a, <1>12 DEF Promote, Less
<1>13. CASE Finalize(p)
  BY <1>t, <1>a, <1>13 DEF Finalize, Less
<1>14. CASE Release(p)
  BY <1>t, <1>a, <1>14 DEF Release, Leave, Ended
<1>15. CASE LockRemove(p)
  BY <1>t, <1>a, <1>15 DEF LockRemove, Held, Free, Less
<1>16. CASE RemoveFiles(p)
  BY <1>t, <1>a, <1>16 DEF RemoveFiles, Erased, Less
<1>17. CASE DropRemoved(p)
  BY <1>t, <1>a, <1>17 DEF DropRemoved, Delete, Unlocked, Less
<1>18. CASE Crash(p)
  BY <1>t, <1>a, <1>18 DEF Crash, Leave, Ended
<1>19. ASSUME NEW g \in Games, LookAgain(p, g) PROVE Goal
  BY <1>t, <1>a, <1>19 DEF LookAgain, Forgets, Less
<1>20. ASSUME NEW a \in Assets, PlanAsset(p, a) PROVE Goal
  BY <1>t, <1>a, <1>20 DEF PlanAsset, Less
<1>21. ASSUME NEW a \in Assets, Protect(p, a) PROVE Goal
  BY <1>t, <1>a, <1>21 DEF Protect, Promotable, Less
<1>22. ASSUME NEW checkpoint \in 0 .. Quota, Resume(p, checkpoint) PROVE Goal
  BY <1>t, <1>a, <1>22 DEF Resume, Less
<1>23. ASSUME NEW g \in Games, Request(p, g) PROVE Goal
  BY <1>t, <1>a, <1>23 DEF Request, Held, Free, Less
<1>24. ASSUME NEW g \in Games, AskRemove(p, g) PROVE Goal
  BY <1>t, <1>a, <1>24 DEF AskRemove, Less
<1>25. ASSUME NEW status \in {"failed", "incomplete"}, Fail(p, status) PROVE Goal
  BY <1>t, <1>a, <1>25 DEF Fail, Leave, Ended
<1>26. CASE Reads(p)
  BY <1>t, <1>a, <1>26 DEF Reads, ReadFinal, ReadStaging, ReadReserved, Enough, Forgets,
       Less
<1>27. CASE DiscardStaging(p)
  BY <1>t, <1>a, <1>27 DEF DiscardStaging, Discard, Less
<1>28. QED
  BY <1>1, <1>2, <1>3, <1>4, <1>5, <1>6, <1>7, <1>8, <1>9, <1>10, <1>11, <1>12, <1>13, <1>14,
     <1>15, <1>16, <1>17, <1>18, <1>19, <1>20, <1>21, <1>22, <1>23, <1>24, <1>25, <1>26,
     <1>27 DEF Acts, Program, Reads

\* Nor are bytes that only a member counts added, or a manifest taken from them, unseen.
LEMMA BareFalls ==
    ASSUME ShapeSound, MediaSound, NEW p \in Procs, LocksOf(p), StagedOf(p), Acts(p),
           admission # Nobody, admission # p, \E q \in Procs : At(q, "sized")
    PROVE  overlooked' \/ \A a \in Assets : Bare'[a] <= Bare[a]
<1> USE DEF db, files, plan, reservations, locks, user, sight, count, At
<1>m. /\ final \in [Assets -> Nat] /\ manifest \in [Assets -> BOOLEAN] /\ staged \in [Assets -> Nat]
      /\ \A a \in Assets : Bare[a] = (IF manifest[a] THEN 0 ELSE final[a])
      /\ \A a \in Assets : Bare'[a] = (IF manifest'[a] THEN 0 ELSE final'[a])
  BY DEF ShapeSound, Bare
<1>1. CASE Quiet \/ DropEntry(p) \/ ReplaceMembership(p) \/ Cut(p) \/ Copy(p) \/ DropRemoved(p)
  <2>1. UNCHANGED <<final, manifest>>
    BY <1>1 DEF Quiet, DropEntry, ReplaceMembership, Cut, Copy, DropRemoved
  <2>2. QED
    BY <1>m, <2>1
<1>2. CASE Evict(p) \/ RemoveFiles(p)
  <2>1. manifest' = manifest /\ \A a \in Assets : final'[a] = final[a] \/ final'[a] = 0
    BY <1>2 DEF Evict, RemoveFiles, Erased
  <2>2. QED
    BY <1>m, <2>1
<1>3. CASE \E b \in Assets : PlanAsset(p, b)
  <2>1. final' = final /\ \A a \in Assets : manifest'[a] = manifest[a] \/ manifest'[a] = TRUE
    BY <1>m, <1>3 DEF PlanAsset
  <2>2. QED
    BY <1>m, <2>1
<1>4. CASE Promote(p)
  <2>1. /\ work[p].asset \in Assets /\ manifest[work[p].asset] /\ manifest' = manifest
        /\ \A a \in Assets : a # work[p].asset => final'[a] = final[a]
    BY <1>m, <1>4, Placed, Positions DEF Promote, StagedOf, MediaSound
  <2>2. QED
    BY <1>m, <2>1
<1>5. CASE Finalize(p)
  BY <1>5 DEF Finalize
<1>6. CASE DiscardStaging(p)
  <2> DEFINE S == {a \in Closure[work[p].target] : Cardinality(Owners(a)) <= 1}
  <2>1. final' = final /\ manifest' = [a \in Assets |-> manifest[a] /\ a \notin S]
    BY <1>6 DEF DiscardStaging, Discard
  <2>2. (\E a \in S : manifest[a] /\ final[a] > 0) => overlooked'
    BY <1>6 DEF DiscardStaging, Discard
  <2> HIDE DEF S
  <2>3. ASSUME ~overlooked', NEW a \in Assets PROVE Bare'[a] <= Bare[a]
    <3>1. a \in S /\ manifest[a] => final[a] = 0
      BY <1>m, <2>2, <2>3
    <3>2. manifest'[a] <=> manifest[a] /\ a \notin S
      BY <2>1
    <3>3. QED
      BY <1>m, <2>1, <3>1, <3>2
  <2>4. QED
    BY <2>3
<1>7. QED
  BY <1>1, <1>2, <1>3, <1>4, <1>5, <1>6, EffectOf DEF Effect

LEMMA ComingSpared ==
    ASSUME ShapeSound, NEW q \in Procs, LocksOf(q), Spared(q), unplanned' = {}, Owing(q)' = Owing(q)
    PROVE  Total(ToCome(q)', Owing(q)') = ComingOf(q)
<1>1. work'[q] = work[q] /\ \A a \in Owing(q) : staged'[a] = staged[a] /\ a \in Assets
  BY PendingTyped DEF Spared, LockedBy, Owing, Missing
<1>2. \A a \in Owing(q) : ToCome(q)'[a] = ToCome(q)[a]
  BY <1>1 DEF ToCome, At
<1>3. Total(ToCome(q)', Owing(q)) = Total(ToCome(q), Owing(q))
  BY <1>2, TotalSame
<1>4. QED
  BY <1>3 DEF ComingOf

\* What an admission has read so far is enough for what there was to count: first the bytes
\* that members count; then all bytes, and what the transfers that write from then on have
\* still to write; in the end all that the admitted transfers have still to write.
Window(p) ==
    /\ work[p].pc \in Admitting => admission = p
    /\ At(p, "sized") /\ Clean => Total(Bare, Assets) <= work[p].seen
    /\ At(p, "scanned") /\ Clean =>
         Total(PeakOf(unseen), Assets) <= work[p].seen + Total(row, unseen)
    /\ At(p, "summed") =>
         /\ unplanned = {} => Total(Coming, Procs) <= work[p].owed
         /\ Clean => Total(PeakOf(Procs), Assets) <= work[p].seen + work[p].owed

\* What the rest of the proof needs to know of a state.
Accounts ==
    /\ ShapeSound /\ FilesSound /\ MediaSound /\ MembersTyped /\ RowsTyped /\ RestTyped
    /\ EveryByteCounted
    /\ \A q \in Procs : /\ MemoryTyped(q) /\ LocksOf(q) /\ StagedOf(q) /\ CopiedOf(q) /\ CutOf(q)
                        /\ LeftOf(q)

\* Only the process that holds the admission lock admits.
LEMMA AdmissionKept ==
    ASSUME ShapeSound, NEW p \in Procs, work[p].pc \in Admitting => admission = p, Acts(p)
    PROVE  \/ work'[p].pc \notin Admitting
           \/ admission' = p /\ work'[p].pc \in {"evict", "take", "drop"}
           \/ ReadFinal(p) \/ ReadStaging(p) \/ ReadReserved(p)
<1> DEFINE Goal == \/ work'[p].pc \notin Admitting
                   \/ admission' = p /\ work'[p].pc \in {"evict", "take", "drop"}
                   \/ ReadFinal(p) \/ ReadStaging(p) \/ ReadReserved(p)
<1> SUFFICES Goal
  OBVIOUS
<1> USE DEF db, files, plan, reservations, locks, user, sight, count, At, Goto
<1>t. /\ DOMAIN work = Procs /\ DOMAIN work[p] = Fields
      /\ "pc" \in Fields /\ "game" \in Fields /\ "need" \in Fields /\ "left" \in Fields
      /\ "seen" \in Fields /\ "owed" \in Fields
      /\ "have" \in Fields /\ "asset" \in Fields /\ "keep" \in Fields /\ "todo" \in Fields
      /\ "cands" \in Fields /\ "target" \in Fields /\ "existing" \in Fields
  BY FieldsOf
<1>s. Admitting = {"evict", "sized", "scanned", "summed", "take", "drop"} /\ Idle.pc = "idle"
  BY IdleShape DEF Admitting
<1>1. CASE EnterAdmission(p)
  BY <1>t, <1>s, <1>1 DEF EnterAdmission, Goal
<1>2. CASE DropEntry(p)
  BY <1>t, <1>s, <1>2 DEF DropEntry, Delete, Goal
<1>3. CASE Admit(p)
  BY <1>t, <1>s, <1>3 DEF Admit, Goal
<1>4. CASE Refuse(p)
  BY <1>t, <1>s, <1>4 DEF Refuse, Unlocked, Goal
<1>5. CASE Enter(p)
  BY <1>t, <1>s, <1>5 DEF Enter, Goal
<1>6. CASE ReplaceMembership(p)
  BY <1>t, <1>s, <1>6 DEF ReplaceMembership, Goal
<1>7. CASE MembershipRefused(p)
  BY <1>t, <1>s, <1>7 DEF MembershipRefused, Leave, Unlocked, Goal
<1>8. CASE Evict(p)
  BY <1>t, <1>s, <1>8 DEF Evict, Erased, Held, Free, Goal
<1>9. CASE Cut(p)
  BY <1>t, <1>s, <1>9 DEF Cut, Goal
<1>10. CASE Copy(p)
  BY <1>t, <1>s, <1>10 DEF Copy, Goal
<1>11. CASE ConsumeGrowth(p)
  BY <1>t, <1>s, <1>11 DEF ConsumeGrowth, Goal
<1>12. CASE Promote(p)
  BY <1>t, <1>s, <1>12 DEF Promote, Goal
<1>13. CASE Finalize(p)
  BY <1>t, <1>s, <1>13 DEF Finalize, Goal
<1>14. CASE Release(p)
  BY <1>t, <1>s, <1>14 DEF Release, Leave, Unlocked, Goal
<1>15. CASE LockRemove(p)
  BY <1>t, <1>s, <1>15 DEF LockRemove, Held, Free, Goal
<1>16. CASE RemoveFiles(p)
  BY <1>t, <1>s, <1>16 DEF RemoveFiles, Erased, Goal
<1>17. CASE DropRemoved(p)
  BY <1>t, <1>s, <1>17 DEF DropRemoved, Delete, Unlocked, Goal
<1>18. CASE Crash(p)
  BY <1>t, <1>s, <1>18 DEF Crash, Leave, Unlocked, Goal
<1>19. ASSUME NEW g \in Games, LookAgain(p, g) PROVE Goal
  BY <1>t, <1>s, <1>19 DEF LookAgain, Forgets, Goal
<1>20. ASSUME NEW a \in Assets, PlanAsset(p, a) PROVE Goal
  BY <1>t, <1>s, <1>20 DEF PlanAsset, Goal
<1>21. ASSUME NEW a \in Assets, Protect(p, a) PROVE Goal
  BY <1>t, <1>s, <1>21 DEF Protect, Promotable, Goal
<1>22. ASSUME NEW checkpoint \in 0 .. Quota, Resume(p, checkpoint) PROVE Goal
  BY <1>t, <1>s, <1>22 DEF Resume, Goal
<1>23. ASSUME NEW g \in Games, Request(p, g) PROVE Goal
  BY <1>t, <1>s, <1>23 DEF Request, Held, Free, Goal
<1>24. ASSUME NEW g \in Games, AskRemove(p, g) PROVE Goal
  BY <1>t, <1>s, <1>24 DEF AskRemove, Goal
<1>25. ASSUME NEW status \in {"failed", "incomplete"}, Fail(p, status) PROVE Goal
  BY <1>t, <1>s, <1>25 DEF Fail, Leave, Unlocked, Marked, Transferring, Goal
<1>26. CASE Reads(p)
  BY <1>t, <1>s, <1>26 DEF Reads, ReadFinal, ReadStaging, ReadReserved, Enough, Forgets,
       Goal
<1>27. CASE DiscardStaging(p)
  BY <1>t, <1>s, <1>27 DEF DiscardStaging, Discard, Goal
<1>28. QED
  BY <1>1, <1>2, <1>3, <1>4, <1>5, <1>6, <1>7, <1>8, <1>9, <1>10, <1>11, <1>12, <1>13, <1>14,
     <1>15, <1>16, <1>17, <1>18, <1>19, <1>20, <1>21, <1>22, <1>23, <1>24, <1>25, <1>26,
     <1>27 DEF Acts, Program, Reads

LEMMA WindowFinal ==
    ASSUME Accounts, NEW p \in Procs, Window(p), ReadFinal(p)
    PROVE  Window(p)'
<1>1. /\ work'[p].pc = "sized" /\ work'[p].seen = TotalSize /\ admission' = admission
      /\ work[p].pc = "evict" /\ UNCHANGED <<final, manifest, stray>>
  BY FieldsOf DEF Accounts, ReadFinal, At, locks, files, plan
<1>2. admission' = p
  BY <1>1 DEF Window, Admitting
<1>3. Bare' = Bare
  BY <1>1 DEF Bare
<1>4. stray = {} => Total(Bare, Assets) <= TotalSize
  BY BareCounted DEF Accounts
<1>5. Total(Bare, Assets)' = Total(Bare, Assets)
  BY <1>3 DEF Total, Units
<1>6. QED
  BY <1>1, <1>2, <1>4, <1>5 DEF Window, At, Clean

LEMMA WindowStaging ==
    ASSUME Accounts, NEW p \in Procs, Window(p), ReadStaging(p)
    PROVE  Window(p)'
<1>1. /\ work'[p].pc = "scanned" /\ work'[p].seen = work[p].seen + StagingBytes /\ admission' = admission
      /\ work[p].pc = "sized" /\ UNCHANGED <<final, staged, stray, unplanned, overlooked>> /\ unseen' = {}
  BY FieldsOf DEF Accounts, ReadStaging, At, locks, files
<1>2. admission' = p
  BY <1>1 DEF Window, Admitting
<1>3. PeakOf(unseen)' = Reach(final, staged, {})
  BY <1>1 DEF PeakOf, Reach, DebtOf
<1>4. Total(PeakOf(unseen), Assets)' = Total(Reach(final, staged, {}), Assets)
  BY <1>3 DEF Total, Units
<1>5. Total(row, unseen)' = 0
  <2>1. Total(row, unseen)' = Total(row', {})
    BY <1>1 DEF Total, Units
  <2>2. QED
    BY <2>1, TotalNone
<1>6. /\ Total(Reach(final, staged, {}), Assets) <= Physical + Total(Remaining, {})
      /\ Total(Reach(final, staged, {}), Assets) \in Nat /\ Physical \in Nat
  BY PeakBounds DEF Accounts
<1>7. Total(Remaining, {}) = 0
  BY TotalNone
<1>8. Physical <= Total(Bare, Assets) + StagingBytes /\ Total(Bare, Assets) \in Nat /\ StagingBytes \in Nat
  BY RestCounted, SumsTyped, BareTyped DEF Accounts
<1>9. Clean => Total(Bare, Assets) <= work[p].seen
  BY <1>1 DEF Window, At
<1>10. work[p].seen \in Nat
  BY DEF Accounts, MemoryTyped
<1>11. Clean' => Total(Reach(final, staged, {}), Assets) <= work'[p].seen + 0
  BY <1>1, <1>6, <1>7, <1>8, <1>9, <1>10 DEF Clean
<1>12. QED
  BY <1>1, <1>2, <1>4, <1>5, <1>11 DEF Window, At

LEMMA WindowReserved ==
    ASSUME Accounts, NEW p \in Procs, Window(p), ReadReserved(p)
    PROVE  Window(p)'
<1>1. /\ work'[p].pc = "summed" /\ work'[p].seen = work[p].seen /\ work'[p].owed = Reserved
      /\ admission' = admission /\ work[p].pc = "scanned"
      /\ UNCHANGED <<final, staged, stray, unplanned, overlooked>>
      /\ \A q \in Procs : q # p => work'[q] = work[q]
  BY FieldsOf DEF Accounts, ReadReserved, At, locks, files, user, sight
<1>2. admission' = p
  BY <1>1 DEF Window, Admitting
<1>c. \A q \in Procs : /\ Owing(q) \subseteq Assets
                       /\ Total(Remaining, Owing(q)) \in Nat /\ Coming[q] \in Nat /\ row[q] \in Nat
                       /\ unplanned = {} => /\ Coming[q] <= row[q]
                                            /\ Total(Remaining, Owing(q)) <= row[q]
  <2>1. ASSUME NEW q \in Procs
        PROVE  /\ Owing(q) \subseteq Assets
               /\ Total(Remaining, Owing(q)) \in Nat /\ ComingOf(q) \in Nat /\ row[q] \in Nat
               /\ Coming[q] = ComingOf(q)
               /\ Total(Remaining, Owing(q)) <= ComingOf(q)
               /\ unplanned = {} => ComingOf(q) <= row[q]
    BY Claimed DEF Accounts
  <2>2. QED
    BY <2>1
<1>n. /\ Total(row, Procs) \in Nat /\ stale \in Nat /\ work[p].seen \in Nat
      /\ Reserved = Total(row, Procs) + stale
  BY <1>c, Finite, TotalFinite DEF Accounts, RowsTyped, MemoryTyped, Reserved
<1>3. unplanned = {} => Total(Coming, Procs) <= Reserved
  <2>1. Total(Coming, Procs) \in Nat
    BY <1>c, Finite, TotalFinite
  <2>2. unplanned = {} => Total(Coming, Procs) <= Total(row, Procs)
    BY <1>c, Finite, TotalLess
  <2>3. QED
    BY <1>n, <2>1, <2>2
<1>4. ASSUME Clean PROVE Total(PeakOf(Procs), Assets) <= work[p].seen + Reserved
  <2> DEFINE rest == Procs \ unseen
  <2>1. unseen \subseteq Procs
    BY DEF Accounts, RestTyped
  <2>2. DebtOf(rest) \subseteq Assets /\ DebtOf(Procs) \subseteq DebtOf(unseen) \cup DebtOf(rest)
    BY <1>c, <2>1 DEF DebtOf
  <2>3. /\ final \in [Assets -> Nat] /\ staged \in [Assets -> Nat]
        /\ \A a \in Assets : /\ staged[a] <= Size[a] /\ Remaining[a] = Size[a] - staged[a]
                             /\ Remaining[a] \in Nat
    BY RemainingTyped DEF Accounts, ShapeSound, FilesSound
  <2>4. /\ Total(PeakOf(Procs), Assets) <= Total(PeakOf(unseen), Assets) + Total(Remaining, DebtOf(rest))
        /\ Total(Remaining, DebtOf(rest)) \in Nat
    BY <2>2, <2>3, ReachWidened DEF PeakOf
  <2>5. Total(Remaining, DebtOf(rest)) <= Total(row, rest)
    BY <1>4, <1>c, <2>3, DebtCovered DEF Clean
  <2>6. Total(row, Procs) = Total(row, unseen) + Total(row, rest)
    BY <1>c, <2>1, Finite, TotalParts
  <2>7. /\ Total(PeakOf(Procs), Assets) \in Nat /\ Total(PeakOf(unseen), Assets) \in Nat
        /\ Total(row, unseen) \in Nat /\ Total(row, rest) \in Nat
    <3>1. Total(PeakOf(Procs), Assets) \in Nat /\ Total(PeakOf(unseen), Assets) \in Nat
      BY <2>3, ReachTyped DEF PeakOf
    <3>2. IsFiniteSet(unseen) /\ \A q \in unseen : row[q] \in Nat
      BY <1>c, <2>1, Finite, FS_Subset
    <3>3. IsFiniteSet(rest) /\ \A q \in rest : row[q] \in Nat
      BY <1>c, Finite, FS_Subset
    <3>4. QED
      BY <3>1, <3>2, <3>3, TotalFinite
  <2>8. Total(PeakOf(unseen), Assets) <= work[p].seen + Total(row, unseen)
    BY <1>1, <1>4 DEF Window, At
  <2> HIDE DEF rest
  <2>9. QED
    BY <1>n, <2>4, <2>5, <2>6, <2>7, <2>8
<1>5. /\ Coming' = Coming \/ unplanned # {}
      /\ PeakOf(Procs)' = PeakOf(Procs)
  <2>1. ASSUME NEW q \in Procs PROVE ToCome(q)' = ToCome(q) /\ Owing(q)' = Owing(q)
    <3>1. CASE q = p
      <4>1. Pending(q) = {} /\ Pending(q)' = {}
        BY <1>1, <3>1, Positions DEF Pending
      <4>2. ToCome(q)' = ToCome(q)
        BY <1>1, <3>1 DEF ToCome, At
      <4>3. QED
        BY <4>1, <4>2 DEF Owing, Missing
    <3>2. CASE q # p
      BY <1>1, <3>2 DEF ToCome, At, Owing, Missing, Pending, Intact
    <3>3. QED
      BY <3>1, <3>2
  <2>2. \A q \in Procs : ComingOf(q)' = ComingOf(q)
    BY <2>1 DEF ComingOf, Total, Units
  <2>3. Coming' = Coming
    BY <2>2 DEF Coming
  <2>4. DebtOf(Procs)' = DebtOf(Procs)
    BY <2>1 DEF DebtOf
  <2>5. QED
    BY <1>1, <2>3, <2>4 DEF PeakOf, Reach
<1>6. /\ Total(Coming, Procs)' = Total(Coming, Procs) \/ unplanned # {}
      /\ Total(PeakOf(Procs), Assets)' = Total(PeakOf(Procs), Assets)
  BY <1>5 DEF Total, Units
<1>7. Clean' => Clean
  BY <1>1 DEF Clean
<1>8. QED
  BY <1>1, <1>2, <1>3, <1>4, <1>6, <1>7 DEF Window, At

LEMMA WindowKept ==
    ASSUME Accounts, NEW p \in Procs, Window(p), Acts(p)
    PROVE  Window(p)'
<1>1. \/ work'[p].pc \notin Admitting
      \/ admission' = p /\ work'[p].pc \in {"evict", "take", "drop"}
      \/ ReadFinal(p) \/ ReadStaging(p) \/ ReadReserved(p)
  BY AdmissionKept DEF Window, Accounts
<1>2. QED
  BY <1>1, WindowFinal, WindowStaging, WindowReserved DEF Window, At, Admitting

\* The others' steps do not make what an admission has read too little.
LEMMA WindowSpared ==
    ASSUME Accounts, ShapeSound', FilesSound', NEW p \in Procs, LocksOf(p)', StagedOf(p)', Window(p),
           NEW q \in Procs, q # p, Window(q), Acts(p),
           \A r \in Procs : r # p => Spared(r) /\ (unplanned' = {} => Owing(r)' = Owing(r))
    PROVE  Window(q)'
<1>c. /\ ShapeSound /\ FilesSound /\ MediaSound /\ RowsTyped /\ RestTyped
      /\ \A r \in Procs : /\ LocksOf(r) /\ StagedOf(r) /\ CopiedOf(r) /\ CutOf(r) /\ LeftOf(r)
                          /\ MemoryTyped(r)
  BY DEF Accounts
<1>w. work'[q] = work[q]
  BY DEF Spared
<1>o. unplanned' = unplanned /\ (Clean' => Clean)
  <2>1. unplanned' = unplanned /\ (overlooked => overlooked')
    BY EffectOf
  <2>2. stray \subseteq stray'
    BY <1>c, OnlyMoreGoesAstray DEF OnlyMore
  <2>3. QED
    BY <2>1, <2>2 DEF Clean
<1>0. SUFFICES ASSUME work[q].pc \in Admitting PROVE Window(q)'
  BY <1>w DEF Window, At, Admitting
<1>a. admission = q /\ admission # Nobody /\ admission # p /\ work[p].pc \notin Admitting
  BY <1>0, Assumed DEF Window
<1>b. /\ admission' = q /\ ~Admit(p)
      /\ Less \/ Written(p) \/ Ended(p)
  BY <1>c, <1>a, Withheld
<1>n. work[q].seen \in Nat /\ work[q].owed \in Nat /\ Quota \in Nat
  BY <1>c, Assumed DEF MemoryTyped
<1>m. /\ final \in [Assets -> Nat] /\ staged \in [Assets -> Nat]
      /\ final' \in [Assets -> Nat] /\ staged' \in [Assets -> Nat]
      /\ \A a \in Assets : staged[a] <= Size[a] /\ Remaining[a] = Size[a] - staged[a]
  BY <1>c, RemainingTyped DEF ShapeSound, FilesSound
<1>r. /\ \A r \in Procs : Owing(r) \subseteq Assets /\ row[r] \in Nat
      /\ unplanned' = {} => \A r \in Procs : Owing(r)' \subseteq Owing(r)
  <2>1. Owing(p)' \subseteq Owing(p)
    BY <1>c, <1>b, PendingShrinks DEF Owing, Missing, Intact
  <2>2. QED
    BY <1>c, <2>1, PendingTyped DEF RowsTyped
<1>1. ASSUME At(q, "sized"), Clean' PROVE Total(Bare, Assets)' <= work[q].seen
  <2>1. \A a \in Assets : Bare'[a] <= Bare[a]
    BY <1>c, <1>a, <1>1, BareFalls DEF Clean
  <2>2. \A a \in Assets : Bare[a] \in Nat /\ Bare'[a] \in Nat
    BY <1>c DEF Bare, ShapeSound
  <2>3. /\ Total(Bare', Assets) <= Total(Bare, Assets)
        /\ Total(Bare', Assets) \in Nat /\ Total(Bare, Assets) \in Nat
    BY <2>1, <2>2, Finite, TotalLess
  <2>4. Total(Bare, Assets) <= work[q].seen
    BY <1>o, <1>1 DEF Window
  <2>5. Total(Bare, Assets)' = Total(Bare', Assets)
    BY DEF Total, Units
  <2>6. QED
    BY <1>n, <2>3, <2>4, <2>5
<1>2. ASSUME At(q, "scanned"), Clean'
      PROVE  Total(PeakOf(unseen), Assets)' <= work[q].seen + Total(row, unseen)'
  <2> DEFINE after == unseen'
             owed == UNION {Owing(r)' : r \in after}
             next == Reach(final', staged', owed)
  <2>0. /\ unplanned = {} /\ unplanned' = {} /\ Clean /\ Measured /\ unseen \subseteq Procs
        /\ Total(PeakOf(unseen), Assets) <= work[q].seen + Total(row, unseen)
    BY <1>c, <1>o, <1>2 DEF Clean, Measured, Window, RestTyped
  <2>1. Total(PeakOf(unseen), Assets)' = Total(next, Assets)
    <3>1. PeakOf(unseen)' = next
      BY DEF PeakOf, DebtOf, Reach
    <3>2. QED
      BY <3>1 DEF Total, Units
  <2>2. Total(row, unseen)' = Total(row', after)
    BY DEF Total, Units
  <2>3. \A a \in owed : final'[a] # Size[a]
    BY DEF Owing, Missing, Intact
  <2>4. /\ Total(PeakOf(unseen), Assets) \in Nat /\ Total(next, Assets) \in Nat
    BY <1>m, ReachTyped DEF PeakOf
  <2>5. IsFiniteSet(unseen) /\ Total(row, unseen) \in Nat
    <3>1. IsFiniteSet(unseen) /\ \A r \in unseen : row[r] \in Nat
      BY <1>r, <2>0, Finite, FS_Subset
    <3>2. QED
      BY <3>1, TotalFinite
  <2>6. ASSUME after = unseen, \A a \in Assets : staged'[a] <= staged[a]
        PROVE  Total(next, Assets) <= Total(PeakOf(unseen), Assets)
    <3>1. owed \subseteq DebtOf(unseen)
      BY <1>r, <2>0, <2>6 DEF DebtOf
    <3> HIDE DEF owed
    <3>2. QED
      BY <1>c, <1>b, <2>3, <2>6, <3>1, ReachFalls DEF PeakOf
  <2>7. CASE Less
    BY <1>n, <2>0, <2>1, <2>2, <2>4, <2>5, <2>6, <2>7 DEF Less
  <2>8. CASE Ended(p)
    <3>1. p \notin unseen
      BY <1>2, <2>0, <2>8 DEF Ended, Clean
    <3>2. after = unseen /\ \A r \in unseen : row'[r] = row[r]
      BY <2>0, <2>8, <3>1 DEF Ended
    <3>3. Total(row', after) = Total(row, unseen)
      BY <3>2, TotalSame
    <3>4. \A a \in Assets : staged'[a] <= staged[a]
      BY <1>m, <2>8 DEF Ended
    <3>5. Total(next, Assets) <= Total(PeakOf(unseen), Assets)
      BY <2>6, <3>2, <3>4
    <3>6. QED
      BY <1>n, <2>0, <2>1, <2>2, <2>4, <2>5, <3>3, <3>5
  <2>9. CASE Written(p)
    <3> DEFINE wider == unseen \cup {p}
    <3>1. after = wider /\ row' = row
      BY <2>0, <2>9 DEF Written
    <3>2. Total(next, Assets) <= Total(PeakOf(wider), Assets)
      <4>1. owed \subseteq DebtOf(wider) /\ Owing(p) \subseteq DebtOf(wider)
        BY <1>r, <2>0, <3>1 DEF DebtOf
      <4> HIDE DEF owed, wider
      <4>2. QED
        BY <1>c, <1>b, <2>3, <4>1, ReachFalls DEF PeakOf
    <3>3. /\ Total(PeakOf(wider), Assets) <= Total(PeakOf(unseen), Assets) + Total(Remaining, Owing(p))
          /\ Total(Remaining, Owing(p)) \in Nat
      <4>1. DebtOf(wider) \subseteq DebtOf(unseen) \cup Owing(p)
        BY DEF DebtOf
      <4>2. QED
        BY <1>m, <1>r, <4>1, ReachWidened DEF PeakOf
    <3>4. Total(Remaining, Owing(p)) <= row[p] /\ row[p] \in Nat
      <4>1. /\ Total(Remaining, Owing(p)) <= ComingOf(p) /\ ComingOf(p) \in Nat
            /\ unplanned = {} => ComingOf(p) <= row[p]
        BY <1>c, Claimed
      <4>2. QED
        BY <1>r, <2>0, <3>3, <4>1
    <3>5. CASE p \in unseen
      <4>1. wider = unseen
        BY <3>5
      <4> HIDE DEF wider, next, after, owed
      <4>2. /\ Total(PeakOf(wider), Assets) = Total(PeakOf(unseen), Assets)
            /\ Total(row', after) = Total(row, unseen)
        BY <3>1, <4>1
      <4>3. Total(next, Assets) <= Total(PeakOf(unseen), Assets)
        BY <3>2, <4>2
      <4>4. QED
        BY <1>n, <2>0, <2>1, <2>2, <2>4, <2>5, <4>2, <4>3
    <3>6. CASE p \notin unseen
      <4>1. Total(row, wider) = Total(row, unseen) + row[p]
        <5>0. IsFiniteSet(wider)
          BY <2>5, FS_AddElement
        <5>1. p \in wider /\ wider \ {p} = unseen
          BY <3>6
        <5>2. \A r \in wider : row[r] \in Nat
          BY <1>r, <2>0
        <5> HIDE DEF wider
        <5>3. QED
          BY <5>0, <5>1, <5>2, TotalAt
      <4>2. Total(PeakOf(wider), Assets) \in Nat
        BY <1>m, ReachTyped DEF PeakOf
      <4>3. QED
        BY <1>n, <2>0, <2>1, <2>2, <2>4, <2>5, <3>1, <3>2, <3>3, <3>4, <4>1, <4>2
    <3>7. QED
      BY <3>5, <3>6
  <2>10. QED
    BY <1>b, <2>7, <2>8, <2>9
<1>3. ASSUME At(q, "summed"), unplanned' = {} PROVE Total(Coming, Procs)' <= work[q].owed
  <2>1. ASSUME NEW r \in Procs
        PROVE  /\ Coming[r] \in Nat
               /\ Total(ToCome(r)', Owing(r)') <= Coming[r] /\ Total(ToCome(r)', Owing(r)') \in Nat
    <3>1. Coming[r] = ComingOf(r) /\ ComingOf(r) \in Nat
      BY <1>c, Claimed
    <3>2. CASE r = p
      BY <1>c, <1>a, <1>b, <3>1, <3>2, ComingFalls
    <3>3. CASE r # p
      BY <1>c, <1>3, <3>1, <3>3, ComingSpared
    <3>4. QED
      BY <3>2, <3>3
  <2> DEFINE next == [r \in Procs |-> Total(ToCome(r)', Owing(r)')]
  <2>2. \A r \in Procs : next[r] \in Nat /\ Coming[r] \in Nat /\ next[r] <= Coming[r]
    BY <2>1
  <2>3. Coming' = next
    BY DEF Coming, ComingOf, Total, Units
  <2> HIDE DEF next
  <2>4. /\ Total(next, Procs) <= Total(Coming, Procs)
        /\ Total(next, Procs) \in Nat /\ Total(Coming, Procs) \in Nat
    BY <2>2, Finite, TotalLess
  <2>5. Total(Coming, Procs)' = Total(next, Procs)
    BY <2>3 DEF Total, Units
  <2>6. Total(Coming, Procs) <= work[q].owed
    BY <1>o, <1>3 DEF Window
  <2>7. QED
    BY <1>n, <2>4, <2>5, <2>6
<1>4. ASSUME At(q, "summed"), Clean'
      PROVE  Total(PeakOf(Procs), Assets)' <= work[q].seen + work[q].owed
  <2> DEFINE owed == UNION {Owing(r)' : r \in Procs}
             next == Reach(final', staged', owed)
  <2>1. Total(PeakOf(Procs), Assets)' = Total(next, Assets)
    <3>1. PeakOf(Procs)' = next
      BY DEF PeakOf, DebtOf, Reach
    <3>2. QED
      BY <3>1 DEF Total, Units
  <2>2. \A a \in owed : final'[a] # Size[a]
    BY DEF Owing, Missing, Intact
  <2>3. Total(next, Assets) <= Total(PeakOf(Procs), Assets)
    <3>1. owed \subseteq DebtOf(Procs) /\ Owing(p) \subseteq DebtOf(Procs)
      BY <1>r, <1>4 DEF DebtOf, Clean
    <3> HIDE DEF owed
    <3>2. QED
      BY <1>c, <1>b, <2>2, <3>1, ReachFalls DEF PeakOf
  <2>4. Total(PeakOf(Procs), Assets) \in Nat /\ Total(next, Assets) \in Nat
    BY <1>m, ReachTyped DEF PeakOf
  <2>5. Total(PeakOf(Procs), Assets) <= work[q].seen + work[q].owed
    BY <1>o, <1>4 DEF Window
  <2> HIDE DEF next
  <2>6. QED
    BY <1>n, <2>1, <2>3, <2>4, <2>5
<1>5. QED
  BY <1>w, <1>b, <1>1, <1>2, <1>3, <1>4 DEF Window, At

LEMMA ReachLess ==
    ASSUME ShapeSound, ShapeSound', NEW D,
           \A a \in Assets : final'[a] <= final[a] /\ staged'[a] <= staged[a]
    PROVE  /\ Total(Reach(final', staged', D), Assets) <= Total(Reach(final, staged, D), Assets)
           /\ Total(Reach(final', staged', D), Assets) \in Nat
           /\ Total(Reach(final, staged, D), Assets) \in Nat
<1>1. /\ final \in [Assets -> Nat] /\ staged \in [Assets -> Nat]
      /\ final' \in [Assets -> Nat] /\ staged' \in [Assets -> Nat]
      /\ \A a \in Assets : Size[a] \in Nat
  BY Assumed DEF ShapeSound
<1>2. \A a \in Assets :
        /\ Reach(final, staged, D)[a] = final[a] + (IF a \in D THEN Size[a] ELSE staged[a])
        /\ Reach(final', staged', D)[a] = final'[a] + (IF a \in D THEN Size[a] ELSE staged'[a])
        /\ Reach(final, staged, D)[a] \in Nat /\ Reach(final', staged', D)[a] \in Nat
  BY <1>1, ReachTyped
<1>3. \A a \in Assets : Reach(final', staged', D)[a] <= Reach(final, staged, D)[a]
  BY <1>1, <1>2
<1>4. QED
  BY <1>2, <1>3, Finite, TotalLess

\* Commands and other programs only make the cache smaller.
LEMMA BesideLess ==
    ASSUME ShapeSound, ShapeSound', MediaSound, Beside
    PROVE  /\ UNCHANGED <<row, admission, unseen>>
           /\ \A a \in Assets : final'[a] <= final[a] /\ staged'[a] <= staged[a]
           /\ Clean' => Clean
           /\ unplanned \subseteq unplanned'
           /\ (\E q \in Procs : At(q, "sized")) => overlooked' \/ \A a \in Assets : Bare'[a] <= Bare[a]
<1> USE DEF db, files, plan, reservations, locks, user, sight, count
<1>m. /\ final \in [Assets -> Nat] /\ staged \in [Assets -> Nat] /\ final' \in [Assets -> Nat]
      /\ manifest \in [Assets -> BOOLEAN]
      /\ \A a \in Assets : Bare[a] = (IF manifest[a] THEN 0 ELSE final[a])
      /\ \A a \in Assets : Bare'[a] = (IF manifest'[a] THEN 0 ELSE final'[a])
      /\ \A a \in Assets : final'[a] <= final[a]
  BY MediaSoundBeside DEF ShapeSound, Bare
<1> DEFINE Goal == /\ UNCHANGED <<row, admission, unseen>>
                   /\ \A a \in Assets : staged'[a] <= staged[a]
                   /\ Clean' => Clean
                   /\ unplanned \subseteq unplanned'
                   /\ (\E q \in Procs : At(q, "sized")) => overlooked' \/ \A a \in Assets : Bare'[a] <= Bare[a]
<1>1. CASE ControlWrite
  <2>1. /\ stray \subseteq stray' /\ UNCHANGED <<unplanned, staged, manifest, row, admission, unseen, overlooked>>
    BY <1>1 DEF ControlWrite
  <2>2. Goal
    BY <1>m, <2>1 DEF Clean
  <2>3. QED
    BY <1>m, <2>2
<1>2. ASSUME NEW b \in Assets, DiscardPartial(b) PROVE Goal
  <2>1. /\ stray \subseteq stray' /\ unplanned' = unplanned /\ final' = final
        /\ staged' = [a \in Assets |-> IF a \in {b} THEN 0 ELSE staged[a]]
        /\ manifest' = [a \in Assets |-> manifest[a] /\ a \notin {b}]
        /\ (overlooked => overlooked') /\ UNCHANGED <<row, admission, unseen>>
    BY <1>2 DEF DiscardPartial, Discard
  <2>2. (\E q \in Procs : At(q, "sized")) /\ manifest[b] /\ final[b] > 0 => overlooked'
    BY <1>2 DEF DiscardPartial, Discard
  <2>3. ASSUME \E q \in Procs : At(q, "sized"), ~overlooked', NEW a \in Assets PROVE Bare'[a] <= Bare[a]
    <3>1. a = b /\ manifest[a] => final[a] = 0
      BY <1>m, <2>2, <2>3
    <3>2. manifest'[a] <=> manifest[a] /\ a # b
      BY <2>1
    <3>3. QED
      BY <1>m, <2>1, <3>1, <3>2
  <2>4. \A a \in Assets : staged'[a] <= staged[a]
    BY <1>m, <2>1
  <2>5. QED
    BY <2>1, <2>3, <2>4 DEF Clean
<1>3. ASSUME NEW b \in Assets, Damage(b) PROVE Goal
  <2>1. /\ stray' = stray /\ unplanned \subseteq unplanned'
        /\ UNCHANGED <<staged, manifest, row, admission, unseen, overlooked>>
    BY <1>3 DEF Damage
  <2>2. QED
    BY <1>m, <2>1 DEF Clean
<1>4. ASSUME ~ControlWrite, \A b \in Assets : ~DiscardPartial(b) /\ ~Damage(b) PROVE Goal
  <2>1. UNCHANGED <<stray, unplanned, final, staged, manifest, row, admission, unseen, overlooked>>
    BY <1>4 DEF Beside, LaunchEnds, MarkLaunched, PinRead, UnpinRead
  <2>2. QED
    BY <1>m, <2>1 DEF Clean
<1>5. QED
  BY <1>m, <1>1, <1>2, <1>3, <1>4

LEMMA WindowBeside ==
    ASSUME Accounts, ShapeSound', NEW q \in Procs, Window(q),
           UNCHANGED <<row, admission, unseen>>, Clean' => Clean, unplanned \subseteq unplanned',
           \A a \in Assets : final'[a] <= final[a] /\ staged'[a] <= staged[a],
           At(q, "sized") => overlooked' \/ \A a \in Assets : Bare'[a] <= Bare[a],
           \A r \in Procs : Spared(r) /\ (unplanned' = {} => Owing(r)' = Owing(r))
    PROVE  Window(q)'
<1>c. /\ ShapeSound /\ FilesSound /\ RowsTyped /\ RestTyped
      /\ \A r \in Procs : /\ LocksOf(r) /\ StagedOf(r) /\ CutOf(r) /\ LeftOf(r) /\ MemoryTyped(r)
  BY DEF Accounts
<1>w. work'[q] = work[q] /\ admission' = admission
  BY DEF Spared
<1>n. work[q].seen \in Nat /\ work[q].owed \in Nat
  BY <1>c DEF MemoryTyped
<1>1. ASSUME At(q, "sized"), Clean' PROVE Total(Bare, Assets)' <= work[q].seen
  <2>1. \A a \in Assets : Bare'[a] <= Bare[a] /\ Bare[a] \in Nat /\ Bare'[a] \in Nat
    BY <1>c, <1>1 DEF Clean, Bare, ShapeSound
  <2>2. /\ Total(Bare', Assets) <= Total(Bare, Assets)
        /\ Total(Bare', Assets) \in Nat /\ Total(Bare, Assets) \in Nat
    BY <2>1, Finite, TotalLess
  <2>3. Total(Bare, Assets) <= work[q].seen
    BY <1>1 DEF Window
  <2>4. Total(Bare, Assets)' = Total(Bare', Assets)
    BY DEF Total, Units
  <2>5. QED
    BY <1>n, <2>2, <2>3, <2>4
<1>2. ASSUME unplanned' = {}, NEW S, S \subseteq Procs
      PROVE  UNION {Owing(r)' : r \in S} = DebtOf(S)
  BY <1>2 DEF DebtOf
<1>3. ASSUME At(q, "scanned"), Clean'
      PROVE  Total(PeakOf(unseen), Assets)' <= work[q].seen + Total(row, unseen)'
  <2>1. unseen \subseteq Procs /\ Total(PeakOf(unseen), Assets) <= work[q].seen + Total(row, unseen)
    BY <1>c, <1>3 DEF RestTyped, Window
  <2>2. PeakOf(unseen)' = Reach(final', staged', DebtOf(unseen))
    <3>1. PeakOf(unseen)' = Reach(final', staged', UNION {Owing(r)' : r \in unseen})
      BY DEF PeakOf, DebtOf, Reach
    <3>2. UNION {Owing(r)' : r \in unseen} = DebtOf(unseen)
      BY <1>2, <1>3, <2>1 DEF Clean
    <3>3. QED
      BY <3>1, <3>2
  <2>3. Total(PeakOf(unseen), Assets)' = Total(Reach(final', staged', DebtOf(unseen)), Assets)
    BY <2>2 DEF Total, Units
  <2>4. Total(row, unseen)' = Total(row, unseen)
    BY DEF Total, Units
  <2>5. Total(row, unseen) \in Nat
    <3>1. IsFiniteSet(unseen) /\ \A r \in unseen : row[r] \in Nat
      BY <1>c, <2>1, Finite, FS_Subset DEF RowsTyped
    <3>2. QED
      BY <3>1, TotalFinite
  <2>6. QED
    BY <1>c, <1>n, <2>1, <2>3, <2>4, <2>5, ReachLess DEF PeakOf
<1>4. ASSUME At(q, "summed"), unplanned' = {} PROVE Total(Coming, Procs)' <= work[q].owed
  <2>1. \A r \in Procs : ComingOf(r)' = ComingOf(r)
    <3>1. ASSUME NEW r \in Procs PROVE ComingOf(r)' = ComingOf(r)
      <4>1. Total(ToCome(r)', Owing(r)') = ComingOf(r)
        BY <1>c, <1>4, ComingSpared
      <4>2. QED
        BY <4>1 DEF ComingOf, Total, Units
    <3>2. QED
      BY <3>1
  <2>2. Coming' = Coming
    BY <2>1 DEF Coming
  <2>3. Total(Coming, Procs)' = Total(Coming, Procs)
    BY <2>2 DEF Total, Units
  <2>4. unplanned = {}
    BY <1>4
  <2>5. QED
    BY <1>4, <2>3, <2>4 DEF Window
<1>5. ASSUME At(q, "summed"), Clean'
      PROVE  Total(PeakOf(Procs), Assets)' <= work[q].seen + work[q].owed
  <2>1. Total(PeakOf(Procs), Assets) <= work[q].seen + work[q].owed
    BY <1>5 DEF Window
  <2>2. PeakOf(Procs)' = Reach(final', staged', DebtOf(Procs))
    <3>1. PeakOf(Procs)' = Reach(final', staged', UNION {Owing(r)' : r \in Procs})
      BY DEF PeakOf, DebtOf, Reach
    <3>2. UNION {Owing(r)' : r \in Procs} = DebtOf(Procs)
      BY <1>2, <1>5 DEF Clean
    <3>3. QED
      BY <3>1, <3>2
  <2>3. Total(PeakOf(Procs), Assets)' = Total(Reach(final', staged', DebtOf(Procs)), Assets)
    BY <2>2 DEF Total, Units
  <2>4. QED
    BY <1>c, <1>n, <2>1, <2>3, ReachLess DEF PeakOf
<1>6. QED
  BY <1>w, <1>1, <1>3, <1>4, <1>5 DEF Window, At

LEMMA PeakBeside ==
    ASSUME ShapeSound, FilesSound, ShapeSound', PeakKept, Clean' => Clean, unplanned \subseteq unplanned',
           \A a \in Assets : final'[a] <= final[a] /\ staged'[a] <= staged[a],
           unplanned' = {} => \A r \in Procs : Owing(r)' = Owing(r)
    PROVE  PeakKept'
<1>1. ASSUME unplanned' = {}
      PROVE  /\ Total(PeakOf(Procs), Assets)' <= Total(PeakOf(Procs), Assets)
             /\ Total(PeakOf(Procs), Assets)' \in Nat /\ Total(PeakOf(Procs), Assets) \in Nat
  <2>1. PeakOf(Procs)' = Reach(final', staged', UNION {Owing(r)' : r \in Procs})
    BY DEF PeakOf, DebtOf, Reach
  <2>2. UNION {Owing(r)' : r \in Procs} = DebtOf(Procs)
    BY <1>1 DEF DebtOf
  <2>3. Total(PeakOf(Procs), Assets)' = Total(Reach(final', staged', DebtOf(Procs)), Assets)
    BY <2>1, <2>2 DEF Total, Units
  <2>4. QED
    BY <2>3, ReachLess DEF PeakOf
<1>2. ASSUME unplanned' = {} PROVE Total(PeakOf(Procs), Assets)' <= Disk
  BY <1>1, <1>2, Finite DEF PeakKept
<1>3. ASSUME Clean' PROVE Total(PeakOf(Procs), Assets)' <= Quota
  BY <1>1, <1>3, Assumed DEF PeakKept, Clean
<1>4. QED
  BY <1>2, <1>3 DEF PeakKept

\* admit: what has been read is enough for every admitted transfer and the new one.
LEMMA AdmitPeak ==
    ASSUME Accounts, NEW p \in Procs, NeedOf(p), Window(p), Admit(p)
    PROVE  PeakKept'
<1> DEFINE M == Missing(Closure[work[p].game])
           S == Procs
<1>c. /\ ShapeSound /\ FilesSound /\ RowsTyped
      /\ \A q \in Procs : MemoryTyped(q) /\ LocksOf(q) /\ StagedOf(q) /\ CutOf(q) /\ LeftOf(q)
  BY DEF Accounts
<1>m. /\ final \in [Assets -> Nat] /\ staged \in [Assets -> Nat]
      /\ work[p].need \in Nat /\ work[p].seen \in Nat /\ work[p].owed \in Nat
      /\ \A a \in Assets : /\ staged[a] <= Size[a] /\ Remaining[a] = Size[a] - staged[a]
                           /\ Remaining[a] \in Nat
  BY <1>c, RemainingTyped DEF ShapeSound, FilesSound, MemoryTyped
<1>t. /\ DOMAIN work = Procs /\ DOMAIN work[p] = Fields /\ "pc" \in Fields /\ "left" \in Fields
      /\ "game" \in Fields /\ "seen" \in Fields /\ "owed" \in Fields
  BY <1>c, FieldsOf
<1>a. /\ work[p].pc = "summed" /\ work'[p].pc = "enter" /\ work'[p].game = work[p].game
      /\ \A q \in Procs \ {p} : work'[q] = work[q]
      /\ final' = final /\ staged' = staged
      /\ UNCHANGED <<stray, unplanned, overlooked>>
  BY <1>t DEF Admit, At, files, user, sight
<1>f. /\ work[p].seen + work[p].owed + work[p].need <= Quota
      /\ Physical + work[p].owed + work[p].need <= Disk
  BY DEF Admit, Fits
<1>1. M \subseteq Assets
  BY <1>c, <1>a, Placed DEF Missing
<1>2. unplanned = {} => Total(Remaining, M) <= work[p].need
  BY <1>a DEF NeedOf
<1>3. UNION {Owing(q)' : q \in Procs} \subseteq DebtOf(Procs) \cup M
  <2>1. Owing(p)' = M
    BY <1>a DEF Owing, Pending, Missing, Intact
  <2>2. \A q \in Procs : q # p => Owing(q)' = Owing(q)
    BY <1>a DEF Owing, Pending, Missing, Intact
  <2>3. QED
    BY <2>1, <2>2 DEF DebtOf
<1>4. /\ Total(PeakOf(Procs), Assets)' <= Total(PeakOf(Procs), Assets) + Total(Remaining, M)
      /\ Total(Remaining, M) \in Nat
      /\ Total(PeakOf(Procs), Assets)' \in Nat /\ Total(PeakOf(Procs), Assets) \in Nat
  <2> DEFINE owed == UNION {Owing(q)' : q \in Procs}
  <2>1. PeakOf(Procs)' = Reach(final, staged, owed)
    BY <1>a DEF PeakOf, DebtOf, Reach
  <2>2. Total(PeakOf(Procs), Assets)' = Total(Reach(final, staged, owed), Assets)
    BY <2>1 DEF Total, Units
  <2> HIDE DEF owed, M
  <2>3. owed \subseteq DebtOf(Procs) \cup M
    BY <1>3 DEF owed
  <2>4. /\ Total(Reach(final, staged, owed), Assets)
             <= Total(Reach(final, staged, DebtOf(Procs)), Assets) + Total(Remaining, M)
        /\ Total(Remaining, M) \in Nat
    BY <1>m, <1>1, <2>3, ReachWidened
  <2>5. QED
    BY <1>m, <2>2, <2>4, ReachTyped DEF PeakOf
<1>5. ASSUME unplanned' = {} PROVE Total(PeakOf(Procs), Assets)' <= Disk
  <2>1. Total(Coming, Procs) <= work[p].owed
    BY <1>a, <1>5 DEF Window, At
  <2>2. /\ \A q \in Procs : /\ Owing(q) \subseteq Assets /\ Coming[q] \in Nat
                            /\ Total(Remaining, Owing(q)) <= Coming[q]
    <3>1. ASSUME NEW q \in Procs
          PROVE  /\ Owing(q) \subseteq Assets /\ ComingOf(q) \in Nat /\ Coming[q] = ComingOf(q)
                 /\ Total(Remaining, Owing(q)) <= ComingOf(q)
      BY <1>c, Claimed
    <3>2. QED
      BY <3>1
  <2>3. Total(Remaining, DebtOf(Procs)) <= Total(Coming, Procs)
    BY <1>m, <2>2, DebtCovered
  <2>4. Total(Coming, Procs) \in Nat
    BY <2>2, Finite, TotalFinite
  <2>5. DebtOf(Procs) \subseteq Assets
    BY <2>2 DEF DebtOf
  <2>6. /\ Total(PeakOf(Procs), Assets) <= Physical + Total(Remaining, DebtOf(Procs))
        /\ Physical \in Nat /\ Total(Remaining, DebtOf(Procs)) \in Nat
    BY <1>c, <2>5, PeakBounds DEF PeakOf
  <2>7. Total(Remaining, M) <= work[p].need
    BY <1>a, <1>2, <1>5
  <2> HIDE DEF M
  <2>8. QED
    BY <1>f, <1>m, <1>4, <2>1, <2>3, <2>4, <2>6, <2>7, Finite
<1>6. ASSUME Clean' PROVE Total(PeakOf(Procs), Assets)' <= Quota
  <2>1. Clean /\ unplanned = {}
    BY <1>a, <1>6 DEF Clean
  <2>2. Total(PeakOf(Procs), Assets) <= work[p].seen + work[p].owed
    BY <1>a, <2>1 DEF Window, At
  <2>3. Total(Remaining, M) <= work[p].need
    BY <1>2, <2>1
  <2> HIDE DEF M
  <2>4. QED
    BY <1>f, <1>m, <1>4, <2>2, <2>3, Assumed
<1>7. QED
  BY <1>5, <1>6 DEF PeakKept

\* Sizes, manifests, accounts and claims, together.
CareOf(p) == CopiedOf(p) /\ KeptOf(p) /\ CutOf(p) /\ NeedOf(p) /\ LeftOf(p)
BudgetInv ==
    /\ CacheInv /\ TypeOK /\ MediaSound /\ EveryByteCounted /\ PeakKept
    /\ \A p \in Procs : CareOf(p) /\ Window(p)

LEMMA BudgetInit == Init => BudgetInv
<1> SUFFICES ASSUME Init PROVE BudgetInv
  OBVIOUS
<1>1. PICK S \in SUBSET Games :
        LET present == UNION {Closure[g] : g \in S} IN
        /\ Total(Size, present) <= Quota /\ Total(Size, present) <= Disk
        /\ entry = [g \in Games |-> IF g \in S THEN "complete" ELSE "none"]
        /\ member = [g \in Games |-> IF g \in S THEN [a \in Closure[g] |-> Size[a]] ELSE NoMembers]
        /\ final = [a \in Assets |-> IF a \in present THEN Size[a] ELSE 0]
  BY DEF Init
<1>2. /\ pin = [g \in Games |-> FALSE] /\ row = [p \in Procs |-> 0] /\ stale = 0
      /\ manifest = [a \in Assets |-> FALSE] /\ done = [a \in Assets |-> FALSE]
      /\ staged = [a \in Assets |-> 0] /\ admission = Nobody
      /\ work = [p \in Procs |-> Idle] /\ launch = [p \in Procs |-> Nobody]
      /\ wanted = {} /\ stray = {} /\ unplanned = {} /\ unseen = {} /\ overlooked = FALSE
      /\ requests = 0 /\ controls = 0 /\ faults = 0
  BY DEF Init
<1> DEFINE present == UNION {Closure[g] : g \in S}
<1>3. CacheInv /\ ShapeSound
  BY InitInv DEF CacheInv
<1>4. TypeOK
  <2>1. MembersTyped
    <3>1. pin \in [Games -> BOOLEAN] /\ \A g \in Games : ~pin[g]
      BY <1>2
    <3>2. ASSUME NEW g \in Games PROVE member[g] = NoMembers \/ member[g] \in [Closure[g] -> Nat]
      <4>1. [a \in Closure[g] |-> Size[a]] \in [Closure[g] -> Nat]
        BY Assumed
      <4>2. QED
        BY <1>1, <4>1
    <3>3. QED
      BY <3>1, <3>2 DEF MembersTyped
  <2>2. RowsTyped /\ RestTyped
    BY <1>2 DEF RowsTyped, RestTyped
  <2>3. ASSUME NEW p \in Procs PROVE MemoryTyped(p)
    BY <1>2, IdleTyped DEF MemoryTyped, Steps
  <2>4. QED
    BY <1>3, <2>1, <2>2, <2>3, TypeIs
<1>5. MediaSound
  BY <1>1, <1>2, Assumed DEF MediaSound
<1>6. EveryByteCounted
  <2> SUFFICES ASSUME NEW a \in Assets PROVE Counted(a)
    BY DEF EveryByteCounted
  <2>1. CASE a \in present
    <3>1. PICK g \in S : a \in Closure[g]
      BY <2>1
    <3>2. g \in Games /\ member[g] = [b \in Closure[g] |-> Size[b]]
      BY <1>1, <3>1
    <3>3. a \in DOMAIN member[g] /\ final[a] <= member[g][a]
      BY <1>1, <2>1, <3>1, <3>2, Assumed
    <3>4. MembersTyped
      BY <1>3, <1>4, TypeIs
    <3>5. QED
      BY <1>3, <3>2, <3>3, <3>4, CountedBy
  <2>2. CASE a \notin present
    <3>1. final[a] = 0
      BY <1>1, <2>2
    <3>2. QED
      BY <3>1 DEF Counted
  <2>3. QED
    BY <2>1, <2>2
<1>7. ASSUME NEW p \in Procs PROVE CareOf(p) /\ Window(p) /\ Owing(p) = {}
  <2>1. work[p].pc = "idle"
    BY <1>2, IdleTyped
  <2>2. QED
    BY <2>1, Positions DEF CareOf, CopiedOf, KeptOf, CutOf, NeedOf, LeftOf, Owing, Pending,
         Missing, At, Window, Admitting
<1>8. PeakKept
  <2>1. present \subseteq Assets /\ IsFiniteSet(present)
    <3>1. present \subseteq Assets
      BY Assumed
    <3>2. QED
      BY <3>1, Finite, FS_Subset
  <2>2. DebtOf(Procs) = {}
    BY <1>7 DEF DebtOf
  <2>3. ASSUME NEW a \in Assets
        PROVE  /\ PeakOf(Procs)[a] \in Nat
               /\ PeakOf(Procs)[a] = 0 \/ (a \in present /\ PeakOf(Procs)[a] <= Size[a])
    <3>1. PeakOf(Procs)[a] = final[a]
      BY <1>1, <1>2, <2>2, Assumed DEF PeakOf, Reach
    <3>2. QED
      BY <1>1, <3>1, Assumed
  <2>4. Total(PeakOf(Procs), Assets) <= Total(Size, present)
    <3>1. \A a \in present : Size[a] \in Nat
      BY <2>1, Assumed
    <3> HIDE DEF present
    <3>2. QED
      BY <2>1, <2>3, <3>1, TotalMono
  <2>5. Total(PeakOf(Procs), Assets) \in Nat /\ Total(Size, present) \in Nat
    <3>1. \A a \in present : Size[a] \in Nat
      BY <2>1, Assumed
    <3> HIDE DEF present
    <3>2. Total(Size, present) \in Nat
      BY <2>1, <3>1, TotalFinite
    <3>3. Total(PeakOf(Procs), Assets) \in Nat
      BY <2>3, Finite, TotalFinite
    <3>4. QED
      BY <3>2, <3>3
  <2>6. Total(Size, present) <= Quota /\ Total(Size, present) <= Disk
    BY <1>1
  <2> HIDE DEF present
  <2>7. QED
    BY <2>4, <2>5, <2>6, Finite, Assumed DEF PeakKept
<1>9. QED
  BY <1>3, <1>4, <1>5, <1>6, <1>7, <1>8 DEF BudgetInv

LEMMA BudgetStep == BudgetInv /\ [Next]_vars => BudgetInv'
<1> SUFFICES ASSUME BudgetInv, [Next]_vars PROVE BudgetInv'
  OBVIOUS
<1>c. /\ CacheInv /\ TypeOK /\ ShapeSound /\ FilesSound /\ MediaSound /\ EveryByteCounted /\ PeakKept
      /\ \A q \in Procs : ProcSound(q) /\ LocksOf(q) /\ StagedOf(q)
      /\ \A q \in Procs : CopiedOf(q) /\ KeptOf(q) /\ CutOf(q) /\ NeedOf(q) /\ LeftOf(q)
      /\ \A q \in Procs : Window(q)
  BY DEF BudgetInv, CacheInv, CareOf, ProcSound
<1>n. CacheInv' /\ TypeOK'
  BY <1>c, StepInv, TypeStep
<1>t. MembersTyped /\ RowsTyped /\ RestTyped /\ \A q \in Procs : MemoryTyped(q)
  BY <1>c, TypeIs
<1>a. Accounts
  BY <1>c, <1>t DEF Accounts
<1>s. /\ ShapeSound' /\ FilesSound' /\ MembersTyped' /\ RowsTyped'
      /\ \A q \in Procs : MemoryTyped(q)' /\ LocksOf(q)' /\ StagedOf(q)'
  <2>1. ShapeSound' /\ FilesSound' /\ \A q \in Procs : LocksOf(q)' /\ StagedOf(q)'
    BY <1>n DEF CacheInv, ProcSound
  <2>2. MembersTyped' /\ RowsTyped' /\ \A q \in Procs : MemoryTyped(q)'
    BY <1>n DEF TypeOK, MembersTyped, RowsTyped, MemoryTyped
  <2>3. QED
    BY <2>1, <2>2
<1>1. ASSUME NEW p \in Procs, Acts(p) PROVE BudgetInv'
  <2>1. MediaSound'
    BY <1>c, <1>1, MediaSoundKept
  <2>2. EveryByteCounted'
    BY <1>c, <1>t, <1>s, <1>1, EveryByteKept
  <2>3. CareOf(p)'
    <3>1. CopiedOf(p)' /\ KeptOf(p)' /\ CutOf(p)'
      BY <1>c, <1>1, CopiedOfKept, KeptOfKept, CutOfKept
    <3>2. NeedOf(p)'
      BY <1>c, <1>s, <1>1, NeedOfKept
    <3>3. LeftOf(p)'
      BY <1>c, <1>t, <1>s, <1>1, LeftOfKept
    <3>4. QED
      BY <3>1, <3>2, <3>3 DEF CareOf
  <2>4. ASSUME NEW q \in Procs, q # p
        PROVE  CareOf(q)' /\ Spared(q) /\ (unplanned' = {} => Owing(q)' = Owing(q))
    <3>1. Spared(q) /\ row'[q] = row[q]
      BY <1>c, <1>t, <1>1, <2>4, OthersSpared, RowsSpared
    <3>2. CopiedOf(q)' /\ KeptOf(q)' /\ CutOf(q)'
      BY <1>c, <1>s, <3>1, SparedCare, SparedCut
    <3>3. NeedOf(q)' /\ LeftOf(q)' /\ (unplanned' = {} => Owing(q)' = Owing(q))
      BY <1>c, <3>1, SparedClaims
    <3>4. QED
      BY <3>1, <3>2, <3>3 DEF CareOf
  <2>w. ASSUME NEW q \in Procs PROVE Window(q)'
    <3>1. CASE q = p
      BY <1>a, <1>c, <1>1, <3>1, WindowKept
    <3>2. CASE q # p
      BY <1>a, <1>c, <1>s, <1>1, <2>4, <3>2, WindowSpared
    <3>3. QED
      BY <3>1, <3>2
  <2>5. PeakKept'
    <3>1. CASE Admit(p)
      BY <1>a, <1>c, <3>1, AdmitPeak
    <3>2. CASE ~Admit(p)
      BY <1>c, <1>s, <1>1, <2>4, <3>2, PeakStep
    <3>3. QED
      BY <3>1, <3>2
  <2>6. QED
    BY <1>n, <2>1, <2>2, <2>3, <2>4, <2>5, <2>w DEF BudgetInv
<1>2. CASE Beside
  <2>1. \A q \in Procs : Spared(q) /\ row' = row
    <3>1. row' = row
      BY <1>2 DEF Beside, LaunchEnds, MarkLaunched, DiscardPartial, Discard, Damage, PinRead,
           UnpinRead,
         ControlWrite, reservations
    <3>2. QED
      BY <1>c, <1>2, <3>1, BesideSound
  <2>2. ASSUME NEW q \in Procs
        PROVE  CareOf(q)' /\ (unplanned' = {} => Owing(q)' = Owing(q))
    <3>1. CopiedOf(q)' /\ KeptOf(q)' /\ CutOf(q)'
      BY <1>c, <1>s, <2>1, SparedCare, SparedCut
    <3>2. NeedOf(q)' /\ LeftOf(q)' /\ (unplanned' = {} => Owing(q)' = Owing(q))
      BY <1>c, <2>1, SparedClaims
    <3>3. QED
      BY <3>1, <3>2 DEF CareOf
  <2>3. MediaSound' /\ EveryByteCounted'
    BY <1>c, <1>2, MediaSoundBeside, EveryByteBeside
  <2>b. /\ UNCHANGED <<row, admission, unseen>>
        /\ \A a \in Assets : final'[a] <= final[a] /\ staged'[a] <= staged[a]
        /\ Clean' => Clean
        /\ unplanned \subseteq unplanned'
        /\ (\E q \in Procs : At(q, "sized")) => overlooked' \/ \A a \in Assets : Bare'[a] <= Bare[a]
    BY <1>c, <1>s, <1>2, BesideLess
  <2>4. PeakKept'
    BY <1>c, <1>s, <2>2, <2>b, PeakBeside
  <2>w. ASSUME NEW q \in Procs PROVE Window(q)'
    BY <1>a, <1>c, <1>s, <2>1, <2>2, <2>b, WindowBeside
  <2>5. QED
    BY <1>n, <2>2, <2>3, <2>4, <2>w DEF BudgetInv
<1>3. CASE UNCHANGED vars
  <2> USE <1>3 DEF vars, db, files, plan, reservations, locks, user, sight, count
  <2>1. MediaSound' /\ EveryByteCounted'
    BY <1>c DEF MediaSound, EveryByteCounted, Counted, Tracked, Owners, Intact
  <2>2. ASSUME NEW q \in Procs PROVE Spared(q) /\ row'[q] = row[q]
    BY <1>c DEF Spared, OnlyMore, ShapeSound
  <2>3. ASSUME NEW q \in Procs PROVE CareOf(q)' /\ (unplanned' = {} => Owing(q)' = Owing(q))
    <3>1. CopiedOf(q)' /\ KeptOf(q)' /\ CutOf(q)'
      BY <1>c, <1>s, <2>2, SparedCare, SparedCut
    <3>2. NeedOf(q)' /\ LeftOf(q)' /\ (unplanned' = {} => Owing(q)' = Owing(q))
      BY <1>c, <2>2, SparedClaims
    <3>3. QED
      BY <3>1, <3>2 DEF CareOf
  <2>b. /\ UNCHANGED <<row, admission, unseen>>
        /\ \A a \in Assets : final'[a] <= final[a] /\ staged'[a] <= staged[a]
        /\ Clean' => Clean
        /\ unplanned \subseteq unplanned'
        /\ \A a \in Assets : Bare'[a] <= Bare[a]
    <3>1. \A a \in Assets : final[a] \in Nat /\ staged[a] \in Nat /\ Bare[a] \in Nat
      BY <1>c, BareTyped DEF ShapeSound
    <3>2. Bare' = Bare
      BY DEF Bare
    <3>3. QED
      BY <3>1, <3>2 DEF Clean
  <2>4. PeakKept'
    BY <1>c, <1>s, <2>3, <2>b, PeakBeside
  <2>w. ASSUME NEW q \in Procs PROVE Window(q)'
    BY <1>a, <1>c, <1>s, <2>2, <2>3, <2>b, WindowBeside
  <2>5. QED
    BY <1>n, <2>1, <2>3, <2>4, <2>w DEF BudgetInv
<1>4. QED
  BY <1>1, <1>2, <1>3, NextIs

\* What is on disk is never more than what it may grow to.
LEMMA BudgetSuffices == BudgetInv => BudgetKept
<1> SUFFICES ASSUME BudgetInv PROVE BudgetKept
  OBVIOUS
<1>c. ShapeSound /\ FilesSound /\ PeakKept /\ TypeOK /\ EveryByteCounted
  BY DEF BudgetInv, CacheInv
<1>1. \A q \in Procs : LocksOf(q)
  BY DEF BudgetInv, CacheInv, ProcSound
<1>2. DebtOf(Procs) \subseteq Assets
  BY <1>c, <1>1, DebtTyped
<1>3. /\ Physical <= Total(PeakOf(Procs), Assets)
      /\ Total(PeakOf(Procs), Assets) \in Nat /\ Physical \in Nat
  BY <1>c, <1>2, PeakBounds DEF PeakOf
<1>4. WithinQuota
  BY <1>c, <1>3, Assumed DEF WithinQuota, PeakKept, Clean
<1>5. ReserveKept
  BY <1>c, <1>3, Finite DEF ReserveKept, PeakKept
<1>6. QED
  BY <1>c, <1>4, <1>5 DEF BudgetKept

\* The cache never takes more than max_size_bytes, nor the space min_free_bytes keeps
\* free, and every byte of it is counted, however many transfers are admitted, resumed,
\* cut back, promoted, fail or die at once (admit, consume_growth, protect_removal,
\* _promote, _fits).  Each admitted transfer holds a row at least as large as what it
\* still has to write.  An admission reads sizes, staged bytes and rows one after the
\* other while transfers go on; what one of them writes after the staged bytes were
\* measured is still covered by its row, which is read last, unless it ended meanwhile
\* (Window; the exception is overlooked).  So what is on disk and what is still to come
\* together never exceed what an admission has found.
THEOREM BudgetIsKept == Spec => []BudgetKept
<1>1. Init => BudgetInv
  BY BudgetInit
<1>2. BudgetInv /\ [Next]_vars => BudgetInv'
  BY BudgetStep
<1>3. BudgetInv => BudgetKept
  BY BudgetSuffices
<1>4. QED
  BY <1>1, <1>2, <1>3, PTL DEF Spec
=============================================================================
