------------------------------ MODULE Catalog ------------------------------
(***************************************************************************)
(* The catalog of one system: the rows of the games, the record of the     *)
(* proxy path that each game owns, and the proxy files in the directory    *)
(* that EmulationStation and the user share.  A refresh scans the source,  *)
(* keeps the identity of what it knows, and writes the rest; it may die    *)
(* between any two steps, and another process may refresh at once.         *)
(***************************************************************************)
EXTENDS Naturals, FiniteSets

CONSTANTS
    Files,          \* what the source may hold: relative paths
    Cue, Track,     \* a cue sheet, and the file it may name
    Dir, Under,     \* a directory that an older release cataloged, and what lies in it
    TitleOf, Ids, Procs, None,
    MaxRuns, MaxMishaps  \* refreshes; failures and events of the world

CatalogAssumption ==
    /\ Ids \subseteq Nat \ {0} /\ Under \subseteq Files /\ {Cue, Track} \subseteq Files /\ Dir \notin Files
    /\ MaxRuns \in Nat /\ MaxMishaps \in Nat

Roots == {"old", "new"}
Default(path) == <<TitleOf[path], 0>>
Own(path, i) == <<TitleOf[path], i>>
Paths == Files \cup {Dir}
ProxyPaths == {<<TitleOf[p], i>> : p \in Paths, i \in Ids \cup {0}}

VARIABLES
    root, source, names,  \* the configured source; its files; whether the cue names the track
    selected,             \* whether the system is selected
    writes,               \* whether games are shown as proxies (Cache mode)
    rows, records, files, \* the games, their proxy records, the proxy files
    cached, used,         \* the games with a cache entry; ids that were given out
    proc, runs, mishaps

outside == <<root, source, names, selected, writes>>
vars == <<outside, rows, records, files, cached, used, proc, runs, mishaps>>

NoRow == [path |-> None, tracks |-> FALSE, root |-> None, eligible |-> FALSE]
Row(path, tracks, r) == [path |-> path, tracks |-> tracks, root |-> r, eligible |-> TRUE]
NoRecords == [i \in Ids |-> None]
Idle == [pc |-> "off", root |-> None, scan |-> {}, tracks |-> FALSE, was |-> [i \in Ids |-> NoRow],
         rec |-> NoRecords, kept |-> {}, todo |-> {}, met |-> FALSE, answer |-> None]
Exists(i) == rows[i] # NoRow
All == {i \in Ids : Exists(i)}
Free == \A p \in Procs : proc[p].pc = "off"
User == 99    \* a file of the user's, or of another program

\* An empty catalog; two games of one file, from before identities were kept; or
\* a directory that is a game.
Init ==
    /\ root = "new" /\ source \in {Files, {Cue, Track}} /\ names \in BOOLEAN /\ selected = TRUE /\ writes \in BOOLEAN
    /\ \E path \in {None, Cue, Dir} : \E first \in IF path = None THEN {{}} ELSE IF path = Dir THEN {{1}} ELSE {{1}, {1, 2}} :
         /\ rows = [i \in Ids |-> IF i \in first THEN Row(path, FALSE, IF i = 1 THEN "old" ELSE "new") ELSE NoRow]
         /\ records = [i \in Ids |-> IF i \notin first THEN None ELSE IF i = 1 THEN Default(path) ELSE Own(path, i)]
         /\ files = [q \in ProxyPaths |-> IF \E i \in first : records[i] = q THEN CHOOSE i \in first : records[i] = q ELSE 0]
         /\ cached \in SUBSET first /\ used = first
    /\ proc = [p \in Procs |-> Idle] /\ runs = 0 /\ mishaps = 0
-----------------------------------------------------------------------------
(* What a refresh decides. *)

\* A file that a cue sheet names belongs to that game.
Consumed(p) == IF proc[p].tracks /\ Cue \in proc[p].scan THEN {Track} \cap proc[p].scan ELSE {}
Primaries(p) == proc[p].scan \ Consumed(p)
Found(p, path) == Row(path, path = Cue /\ proc[p].tracks, proc[p].root)

Oldest(ids) == CHOOSE i \in ids : \A j \in ids : i <= j
Same(p, path) == {i \in Ids : proc[p].was[i].path = path}
\* A directory with one game in it becomes that game.
Legacy(p, path) == {i \in Same(p, Dir) : proc[p].scan \cap Under = {path}}
\* What is cached is preferred, then what is oldest.
OldestOnly(p, ids) == ids                       \* mutant: the cache is not asked
Preferred(p, ids) == IF ids \cap proc[p].kept # {} THEN ids \cap proc[p].kept ELSE ids
Identity(p, path) ==
    IF Same(p, path) # {} THEN Oldest(Preferred(p, Same(p, path)))
    ELSE IF Legacy(p, path) # {} THEN Oldest(Legacy(p, path)) ELSE 0
Unknown(p) == {path \in Primaries(p) : Identity(p, path) = 0}
Duplicates(p) == UNION {Same(p, path) \ {Identity(p, path)} : path \in Primaries(p)}
Survivors(p) == {Identity(p, path) : path \in {x \in Primaries(p) : Cardinality(Same(p, x)) > 1}}
Moved(p, i) == proc[p].was[i].root # proc[p].root
PathOf(p, i) == CHOOSE path \in Primaries(p) : Identity(p, path) = i
Migrated(p) == {Identity(p, path) : path \in {x \in Primaries(p) \ Unknown(p) : Moved(p, Identity(p, x))}}

\* A path is free when no game owns it and nothing is there.
RecordsOnly(q, i) == \E j \in Ids \ {i} : records[j] = q    \* mutant: what no game owns is taken
Taken(q, i) == IF \E j \in Ids : records[j] = q THEN records[i] # q ELSE files[q] # 0
AlwaysPlain(path, i) == Default(path)          \* mutant: the plain path, whoever owns it
Allocated(path, i) == IF Taken(Default(path), i) THEN Own(path, i) ELSE Default(path)

\* Of the proxy files only those that name their owner are removed.
RemoveFiles(ids) == [q \in ProxyPaths |-> IF \E i \in ids : records[i] = q /\ files[q] = i THEN 0 ELSE files[q]]
Written(q, i) == IF writes THEN [files EXCEPT ![q] = i] ELSE files
-----------------------------------------------------------------------------
(* The steps of a refresh. *)

Goto(p, pc) == proc' = [proc EXCEPT ![p].pc = pc]
Next1(p, pc, todo) == proc' = [proc EXCEPT ![p].pc = pc, ![p].todo = todo]
Done(p, x) == proc' = [proc EXCEPT ![p].todo = @ \ {x}]
Broken(p) == proc' = [proc EXCEPT ![p] = [Idle EXCEPT !.answer = "failed"]]
Succeed(p) == proc' = [proc EXCEPT ![p] = [Idle EXCEPT !.answer = "ok"]]
Outer == UNCHANGED <<outside, used, runs, mishaps>>
Quiet == Outer /\ UNCHANGED cached
\* A row that goes takes its record and its cache entry along.
Delete(ids) ==
    /\ rows' = [i \in Ids |-> IF i \in ids THEN NoRow ELSE rows[i]]
    /\ records' = [i \in Ids |-> IF i \in ids THEN None ELSE records[i]]
    /\ cached' = cached \ ids
Suppress(ids) ==
    /\ rows' = [i \in Ids |-> IF i \in ids THEN [rows[i] EXCEPT !.eligible = FALSE] ELSE rows[i]]
    /\ records' = [i \in Ids |-> IF i \in ids THEN None ELSE records[i]]
    /\ files' = RemoveFiles(ids)

\* The payload goes to the path on record, or to one that is allocated for it.
RewritePlain(p, i, path) == files' = Written(Default(path), i) /\ UNCHANGED records  \* mutant: the record is not asked
Rewrite(p, i, path) ==
    IF proc[p].rec[i] # None \/ records[i] # None
    THEN /\ files' = Written(IF proc[p].rec[i] # None THEN proc[p].rec[i] ELSE records[i], i) /\ UNCHANGED records
    ELSE LET q == Allocated(path, i) IN files' = Written(q, i) /\ records' = [records EXCEPT ![i] = q]

Begin(p) ==
    /\ proc[p].pc = "off" /\ runs < MaxRuns /\ runs' = runs + 1
    /\ proc' = [q \in Procs |-> IF q = p THEN [Idle EXCEPT !.pc = "list", !.root = root, !.met = ~Free]
                               ELSE [proc[q] EXCEPT !.met = (proc[q].pc # "off")]]
    /\ UNCHANGED <<outside, rows, records, files, cached, used, mishaps>>
\* The games of a system that is not selected are hidden.
List(p) ==
    /\ proc[p].pc = "list"
    /\ IF selected THEN Goto(p, "scan") /\ UNCHANGED <<rows, records, files>>
       ELSE Suppress(All) /\ Goto(p, "present")
    /\ Quiet
\* The source is scanned, then the database and the cache are read.
Scan(p) ==
    /\ proc[p].pc = "scan"
    /\ LET known == writes \/ (\E i \in All : rows[i].root # proc[p].root)
                      \/ \E i, j \in All : i # j /\ rows[i].path = rows[j].path
       IN proc' = [proc EXCEPT ![p].pc = "prune", ![p].scan = source, ![p].tracks = names, ![p].was = rows,
                               ![p].rec = IF known THEN records ELSE NoRecords, ![p].kept = cached]
    /\ UNCHANGED <<rows, records, files>> /\ Quiet
KeepThem(p) == {}                     \* mutant: what a cue sheet names stays a game
Pruned(p) == {i \in All : rows[i].eligible /\ rows[i].path \in Consumed(p)}
Prune(p) ==
    /\ proc[p].pc = "prune" /\ Delete(Pruned(p))
    /\ files' = [q \in ProxyPaths |-> IF \E i \in Pruned(p) : records[i] = q THEN 0 ELSE files[q]]
    /\ Next1(p, "games", Primaries(p)) /\ Outer
\* One game that is known: it is updated, or its missing proxy is written again.
Game(p, path) ==
    /\ proc[p].pc = "games" /\ path \in proc[p].todo
    /\ LET i == Identity(p, path)
           changed == i # 0 /\ proc[p].was[i] # Found(p, path)
           alone == Cardinality(Same(p, path)) <= 1
       IN IF i = 0 \/ (changed /\ Moved(p, i)) \/ (~changed /\ proc[p].rec[i] = None)
          THEN UNCHANGED <<rows, records, files>>
          ELSE IF changed
          THEN /\ rows' = [rows EXCEPT ![i] = Found(p, path)]
               /\ IF alone THEN Rewrite(p, i, path) ELSE UNCHANGED <<records, files>>
          ELSE /\ files' = IF files[proc[p].rec[i]] = 0 THEN Written(proc[p].rec[i], i) ELSE files
               /\ UNCHANGED <<rows, records>>
    /\ Done(p, path) /\ Quiet
\* Ids for n games.
Fresh(n) == {i \in Ids \ used : Cardinality(used) + n >= i}
\* New games: rows and records in one transaction, then the files.
Register(p) ==
    /\ proc[p].pc = "games" /\ proc[p].todo = {}
    /\ \E id \in [Unknown(p) -> Fresh(Cardinality(Unknown(p)))] :
         LET ids == {id[x] : x \in Unknown(p)}
             gameOf(i) == CHOOSE x \in Unknown(p) : id[x] = i
             reserved(i) == {Default(gameOf(j)) : j \in {k \in ids : k < i}}
             place(i) == IF Default(gameOf(i)) \in reserved(i) THEN Own(gameOf(i), i) ELSE Allocated(gameOf(i), i)
         IN /\ Cardinality(ids) = Cardinality(Unknown(p))
            /\ used' = used \cup ids
            /\ rows' = [i \in Ids |-> IF i \in ids THEN Found(p, gameOf(i)) ELSE rows[i]]
            /\ records' = [i \in Ids |-> IF i \in ids THEN place(i) ELSE records[i]]
            /\ Next1(p, "payload", ids)
    /\ UNCHANGED <<outside, files, cached, runs, mishaps>>
Payload(p) ==
    /\ proc[p].pc = "payload"
    /\ IF proc[p].todo = {} THEN Goto(p, "migrate") /\ UNCHANGED files
       ELSE LET i == Oldest(proc[p].todo)
            IN Done(p, i) /\ files' = IF records[i] = None THEN files ELSE Written(records[i], i)
    /\ UNCHANGED <<rows, records>> /\ Quiet
\* What comes from another source keeps its identity.
Migrate(p) ==
    /\ proc[p].pc = "migrate"
    /\ rows' = [i \in Ids |-> IF i \in Migrated(p) THEN Found(p, PathOf(p, i)) ELSE rows[i]]
    /\ Next1(p, "rewrite", Migrated(p) \ Survivors(p))
    /\ UNCHANGED <<records, files>> /\ Quiet
\* (a record whose game is gone cannot be written: the system fails)
Moving(p) ==
    /\ proc[p].pc = "rewrite"
    /\ IF proc[p].todo = {} THEN Goto(p, "retire") /\ UNCHANGED <<records, files>>
       ELSE LET i == Oldest(proc[p].todo)
            IN IF Exists(i) THEN Rewrite(p, i, PathOf(p, i)) /\ Done(p, i)
               ELSE Broken(p) /\ UNCHANGED <<records, files>>
    /\ UNCHANGED rows /\ Quiet
\* The other games of the same file go, and the one that stays takes the plain path.
Retire(p) ==
    /\ proc[p].pc = "retire"
    /\ files' = [q \in ProxyPaths |-> IF \E i \in Duplicates(p) : proc[p].rec[i] = q /\ files[q] = i THEN 0 ELSE files[q]]
    /\ Delete(Duplicates(p)) /\ Next1(p, "canonical", Survivors(p)) /\ Outer
Canonical(p) ==
    /\ proc[p].pc = "canonical"
    /\ IF proc[p].todo = {} THEN Goto(p, "ineligible") /\ UNCHANGED <<records, files>>
       ELSE LET i == Oldest(proc[p].todo)
                at == proc[p].rec[i]
                q == Default(PathOf(p, i))
                occupied == \/ \E j \in Ids \ Duplicates(p) : j # i /\ proc[p].rec[j] = q
                            \/ at # q /\ files[q] # 0
                            \/ files[at] \notin {0, i}
                lost == ~Exists(i) \/ (at # None /\ \E j \in Ids \ {i} : records[j] = q)
            IN IF at # None /\ occupied THEN Done(p, i) /\ UNCHANGED <<records, files>>
               ELSE IF lost THEN Broken(p) /\ UNCHANGED <<records, files>>
               ELSE IF at = None THEN Rewrite(p, i, PathOf(p, i)) /\ Done(p, i)
               ELSE /\ Done(p, i) /\ records' = [records EXCEPT ![i] = q]
                    /\ files' = IF at = q THEN Written(q, i) ELSE [Written(q, i) EXCEPT ![at] = 0]
    /\ UNCHANGED rows /\ Quiet
\* What lies in the source and is no game; then what another source had.
Ineligible(p) ==
    /\ proc[p].pc = "ineligible" /\ Goto(p, "stale")
    /\ Suppress({i \in All : rows[i].path = Dir /\ Under \cap proc[p].scan # {}}) /\ Quiet
Stale(p) ==
    /\ proc[p].pc = "stale" /\ Goto(p, "present")
    /\ Suppress({i \in All : rows[i].root # proc[p].root}) /\ Quiet
\* With proxies every eligible game gets its own; without them there are none.
Unrecorded(eligible) == {i \in eligible : records[i] = None}
Present(p) ==
    /\ proc[p].pc = "present"
    /\ LET eligible == {i \in All : rows[i].eligible}
           bare == Unrecorded(eligible)
           first == IF bare = {} THEN 0 ELSE Oldest(bare)
           missing == {i \in eligible \ bare : files[records[i]] = 0}
       IN IF ~writes
          THEN /\ files' = RemoveFiles(Ids) /\ UNCHANGED records
               /\ Succeed(p)
          ELSE IF missing # {}
          THEN /\ files' = [q \in ProxyPaths |-> IF \E i \in missing : records[i] = q THEN CHOOSE i \in missing : records[i] = q ELSE files[q]]
               /\ UNCHANGED <<records, proc>>
          ELSE IF bare # {} THEN Rewrite(p, first, rows[first].path) /\ UNCHANGED proc
          ELSE Succeed(p) /\ UNCHANGED <<records, files>>
    /\ UNCHANGED rows /\ Quiet

\* The source cannot be read, or a step of the system fails, or the process dies.
Fail(p) ==
    /\ proc[p].pc # "off" /\ mishaps < MaxMishaps /\ mishaps' = mishaps + 1 /\ Broken(p)
    /\ UNCHANGED <<outside, rows, records, files, cached, used, runs>>

\* A game that is launched reads its cue sheet again, and saves what it knew.
Launch(i) ==
    /\ Exists(i) /\ rows[i].path = Cue /\ rows[i].tracks # names
    /\ rows' = [rows EXCEPT ![i].tracks = names]
    /\ UNCHANGED <<outside, records, files, cached, used, proc, runs, mishaps>>

World ==
    /\ mishaps < MaxMishaps /\ mishaps' = mishaps + 1
    /\ \/ names' = ~names /\ UNCHANGED <<root, source, selected, writes, files, cached>>
       \/ selected' = ~selected /\ UNCHANGED <<root, source, names, writes, files, cached>>
       \/ source' = Files /\ UNCHANGED <<root, names, selected, writes, files, cached>>
       \/ root' = (IF root = "new" THEN "old" ELSE "new") /\ UNCHANGED <<source, names, selected, writes, files, cached>>
       \/ \E i \in All : cached' = cached \cup {i} /\ UNCHANGED <<outside, files>>
       \/ \E path \in Paths : files[Default(path)] = 0 /\ files' = [files EXCEPT ![Default(path)] = User] /\ UNCHANGED <<outside, cached>>
    /\ UNCHANGED <<rows, records, used, proc, runs>>

Next ==
    \/ \E p \in Procs :
         \/ Begin(p) \/ List(p) \/ Scan(p) \/ Prune(p) \/ (\E path \in Files : Game(p, path))
         \/ Register(p) \/ Payload(p) \/ Migrate(p) \/ Moving(p) \/ Retire(p) \/ Canonical(p)
         \/ Ineligible(p) \/ Stale(p) \/ Present(p) \/ Fail(p)
    \/ \E i \in Ids : Launch(i)
    \/ World
Spec == Init /\ [][Next]_vars
-----------------------------------------------------------------------------
(* Properties. *)

\* The type invariant; a proxy path has one owner (ProxyRepository).
Rows == [Ids -> {NoRow} \cup [path : Paths, tracks : BOOLEAN, root : Roots, eligible : BOOLEAN]]
Records == [Ids -> ProxyPaths \cup {None}]
ProxyFiles == [ProxyPaths -> Ids \cup {0, User}]
TypeOK ==
    /\ root \in Roots /\ source \subseteq Files /\ names \in BOOLEAN /\ selected \in BOOLEAN
    /\ rows \in Rows /\ records \in Records /\ files \in ProxyFiles
    /\ \A i, j \in Ids : i # j /\ records[i] # None => records[i] # records[j]
    /\ \A i \in Ids : records[i] # None \/ i \in cached => Exists(i)
    /\ used \subseteq Ids

\* What EmulationStation shows at the path that a game owns is that game: no
\* step leaves the proxy of one game at the path of another.
ProxyTruthful == \A i \in Ids : records[i] # None => files[records[i]] \in {0, i, User}

Ends(p) == proc[p].pc = "present" /\ proc'[p].pc = "off" /\ proc'[p].answer = "ok" /\ ~proc[p].met
Undisturbed(p) == selected /\ proc[p].scan = source /\ proc[p].tracks = names /\ proc[p].scan # {}
Shown(path) == {i \in Ids : rows[i].path = path /\ rows[i].eligible}
\* When a refresh that nothing disturbed says that it succeeded, every file that
\* is a game is the file of one game, from this source, with a proxy when there
\* are proxies; and a file that a cue sheet names is none.
CatalogMatchesStep ==
    \A p \in Procs : Ends(p) /\ Undisturbed(p) =>
      /\ \A path \in Primaries(p) :
           /\ Cardinality(Shown(path)) = 1
           /\ \A i \in Shown(path) : /\ rows[i].root = proc[p].root
                                     /\ writes => records[i] # None /\ files[records[i]] # 0
      /\ \A path \in Consumed(p) : Shown(path) = {}
CatalogMatches == [][CatalogMatchesStep]_vars

\* A refresh that succeeds never separates a download from its game: of the
\* games of a file one that was cached stays, with its cache entry.
DownloadsKeptStep ==
    \A p \in Procs : Ends(p) /\ Undisturbed(p) =>
      \A path \in Primaries(p) :
        LET held == Same(p, path) \cap proc[p].kept
        IN held # {} => \E i \in held : i \in cached /\ i \in Shown(path)
DownloadsKept == [][DownloadsKeptStep]_vars

\* catalog.py:1533: "An existing path with no ownership row is user/foreign
\* state and must never be adopted or overwritten".
UserFilesKeptStep ==
    \A q \in ProxyPaths : files[q] = User /\ (\A i \in Ids : records[i] # q) =>
      files'[q] = User /\ \A i \in Ids : records'[i] # q
UserFilesKept == [][UserFilesKeptStep]_vars
=============================================================================
