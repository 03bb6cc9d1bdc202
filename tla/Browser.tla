------------------------------ MODULE Browser ------------------------------
(***************************************************************************)
(* What the Library Manager's server knows of its browsers: single-use     *)
(* pairing codes, sessions in memory and the remembered ones on disk, and  *)
(* the launches of the local kiosk browser with their requests to close.   *)
(*                                                                         *)
(* Every operation of the registry runs under its lock.  A token stands    *)
(* for its digest and its id.  Time is a set: a code or a session whose    *)
(* time is over is in aged, and falls at the next operation that prunes.   *)
(***************************************************************************)
EXTENDS Naturals, Sequences, FiniteSets, SequencesExt

CONSTANTS Tokens, Codes, Peers, Launches,
          MaxPairings, MaxSessions, MaxAttempts, MaxLaunches,      \* bounds of the code, made small
          MaxEvents                     \* restarts of the server, failures to write, time that passes

BrowserAssumption == {MaxPairings, MaxSessions, MaxAttempts, MaxLaunches} \subseteq Nat \ {0} /\ MaxEvents \in Nat

VARIABLES
    pairings,          \* the codes on offer, oldest first
    used,              \* codes that were issued
    attempts,          \* failed exchanges of each peer within a minute
    sessions, disk,    \* oldest first; what trusted-devices.json holds
    trust,             \* of every token, once it is given out
    aged,
    launches, exits,   \* registered launches, oldest first; those asked to close
    kiosk,             \* where each launch of the local browser is
    events,
    born, revoked, dirty, unheard, overlap   \* history: how often a code was accepted; the sessions whose
                       \* revocation was confirmed; the last write failed; requests to close that a
                       \* restart of the server lost; a launch was requested during another

registry == <<pairings, used, attempts, sessions, disk, trust, aged>>
local == <<launches, exits, kiosk>>
history == <<born, revoked, dirty, unheard, overlap>>
vars == <<registry, local, events, history>>

Event == events < MaxEvents /\ events' = events + 1
Without(s, gone) == SelectSeq(s, LAMBDA x : x \notin gone)
LastingAll(s) == s  \* mutant: every session is written
Lasting(s) == SelectSeq(s, LAMBDA t : trust'[t] # "session")
Shown == {l \in Launches : kiosk[l] = "open"}

Init ==
    /\ pairings = <<>> /\ used = {} /\ attempts = [p \in Peers |-> 0]
    /\ sessions = <<>> /\ disk = <<>> /\ trust = [t \in Tokens |-> "none"] /\ aged = {}
    /\ launches = <<>> /\ exits = {} /\ kiosk = [l \in Launches |-> "off"]
    /\ events = 0 /\ born = [c \in Codes |-> 0] /\ revoked = {} /\ dirty = FALSE /\ unheard = {} /\ overlap = FALSE

\* _save: the remembered sessions replace the file, or nothing does.
Saved == disk' = Lasting(sessions') /\ dirty' = FALSE /\ UNCHANGED events
Unsaved == Event /\ UNCHANGED disk /\ dirty' = TRUE
\* _prune, which saves only when a session fell.
Pruned(s) == Without(s, aged)
Prune ==
    /\ sessions' = Pruned(sessions)
    /\ IF sessions' = sessions THEN UNCHANGED <<disk, dirty, events>> ELSE Saved

-----------------------------------------------------------------------------
(* Pairing. *)

OldestLate(s, max) == IF Len(s) > max THEN SubSeq(s, Len(s) - max + 1, Len(s)) ELSE s  \* mutant: one too many
Oldest(s, max) == IF Len(s) >= max THEN SubSeq(s, Len(s) - max + 2, Len(s)) ELSE s
IssuePairing(c) ==
    /\ c \notin used /\ used' = used \cup {c}
    /\ UNCHANGED <<attempts, trust, aged, local, born, revoked, unheard, overlap>>
    /\ pairings' = Append(Oldest(Pruned(pairings), MaxPairings), c)
    /\ Prune

\* A code that is not, or no longer, on offer costs the peer one of its attempts.
RefusePairing(p, c) ==
    /\ attempts[p] < MaxAttempts /\ c \in used /\ c \notin ToSet(Pruned(pairings))
    /\ UNCHANGED <<used, trust, aged, local, born, revoked, unheard, overlap>>
    /\ attempts' = [attempts EXCEPT ![p] = @ + 1]
    /\ pairings' = Pruned(pairings) /\ Prune

LeaveOffered(c) == Pruned(pairings)  \* mutant: the code stays on offer
TakeOffered(c) == Without(Pruned(pairings), {c})
\* The code is gone and the session stands, whether or not the file was written:
\* a failure to write only keeps the token from the browser.
Exchange(p, c, t, mode) ==
    /\ attempts[p] < MaxAttempts /\ c \in ToSet(Pruned(pairings)) /\ trust[t] = "none"
    /\ pairings' = TakeOffered(c) /\ attempts' = [attempts EXCEPT ![p] = 0]
    /\ trust' = [trust EXCEPT ![t] = mode]
    /\ sessions' = Append(Oldest(Pruned(sessions), MaxSessions), t)
    /\ Saved \/ Unsaved
    /\ born' = [born EXCEPT ![c] = @ + 1]
    /\ UNCHANGED <<used, aged, local, revoked, unheard, overlap>>

-----------------------------------------------------------------------------
(* Sessions. *)

\* Any request: the expired ones fall before the token is looked up.
Authenticate ==
    /\ ToSet(sessions) \cap aged # {}
    /\ UNCHANGED <<used, attempts, trust, aged, local, born, revoked, unheard, overlap>>
    /\ pairings' = Pruned(pairings) /\ sessions' = Pruned(sessions)
    /\ Saved \/ Unsaved

\* revoke, revoke_id and revoke_all; the answer is given when the file is written.
ForgetOnly == UNCHANGED <<disk, dirty, events>>  \* mutant: the file is not written
Forget == Saved
Revoke(gone) ==
    /\ gone # {} /\ gone \subseteq ToSet(sessions)
    /\ UNCHANGED <<pairings, used, attempts, trust, aged, local, born, unheard, overlap>>
    /\ sessions' = Without(sessions, gone)
    /\ \/ Forget /\ revoked' = revoked \cup gone
       \/ Unsaved /\ UNCHANGED revoked

-----------------------------------------------------------------------------
(* The local browser: launch_local_browser. *)

Registered(l) == Append(Oldest(launches, MaxLaunches), l)
Register(l) ==
    /\ kiosk[l] = "off" /\ kiosk' = [kiosk EXCEPT ![l] = "registered"]
    /\ launches' = Registered(l)
    /\ overlap' = (overlap \/ \E m \in Launches : kiosk[m] \in {"registered", "open"})
    /\ UNCHANGED <<registry, exits, events, born, revoked, dirty, unheard>>
\* The lock of the local browser, which refuses a second one.
Open(l) ==
    /\ kiosk[l] = "registered"
    /\ kiosk' = [kiosk EXCEPT ![l] = IF Shown = {} THEN "open" ELSE "refused"]
    /\ UNCHANGED <<registry, launches, exits, events, history>>
Eldest == Head(launches)  \* mutant: the launch that was registered first
Newest == Last(launches)
RequestExit ==
    /\ Shown # {} /\ Len(launches) > 0
    /\ exits' = exits \cup {Newest}
    /\ UNCHANGED <<registry, launches, kiosk, events, history>>
\* local_exit_requested, asked every quarter of a second while the browser runs.
AskedLast(l) == l \in Shown \cap exits /\ l = Last(launches)  \* mutant: only the newest launch is told
Asked(l) == l \in Shown \cap exits
Poll(l) ==
    /\ Asked(l)
    /\ exits' = exits \ {l} /\ launches' = Without(launches, {l})
    /\ kiosk' = [kiosk EXCEPT ![l] = "closed"]
    /\ UNCHANGED <<registry, events, history>>
\* The user closes the window, the browser dies, or the server cannot be asked.
CloseWindow(l) ==
    /\ l \in Shown /\ kiosk' = [kiosk EXCEPT ![l] = "closed"]
    /\ UNCHANGED <<registry, launches, exits, events, history>>

-----------------------------------------------------------------------------
(* The environment. *)

\* _load: what the file holds, without a session that was not to be remembered.
Loaded == SelectSeq(disk, LAMBDA t : trust[t] # "session")
RestartServer ==
    /\ Event
    /\ sessions' = Pruned(Loaded) /\ disk' = sessions' /\ dirty' = FALSE
    /\ pairings' = <<>> /\ attempts' = [p \in Peers |-> 0]
    /\ launches' = <<>> /\ exits' = {} /\ unheard' = unheard \cup (exits \cap Shown)
    /\ UNCHANGED <<used, trust, aged, kiosk, born, revoked, overlap>>
CodesAge ==
    /\ Event /\ aged' = aged \cup used
    /\ attempts' = [p \in Peers |-> 0]              \* a minute passes as well
    /\ UNCHANGED <<pairings, used, sessions, disk, trust, local, history>>
SessionsAge ==
    /\ Event /\ \E modes \in {{"session"}, {"session", "90-days"}} : aged' = aged \cup used \cup {t \in Tokens : trust[t] \in modes}
    /\ attempts' = [p \in Peers |-> 0]
    /\ UNCHANGED <<pairings, used, sessions, disk, trust, local, history>>

Next ==
    \/ \E c \in Codes : IssuePairing(c)
    \/ \E p \in Peers, c \in Codes : RefusePairing(p, c)
    \/ \E p \in Peers, c \in Codes, t \in Tokens, mode \in {"session", "90-days", "until-revoked"} : Exchange(p, c, t, mode)
    \/ Authenticate
    \/ \E t \in Tokens : Revoke({t})
    \/ Revoke(ToSet(sessions))
    \/ \E l \in Launches : Register(l) \/ Open(l) \/ Poll(l) \/ CloseWindow(l)
    \/ RequestExit \/ RestartServer \/ CodesAge \/ SessionsAge
Spec == Init /\ [][Next]_vars
FairSpec == Spec /\ \A l \in Launches : WF_vars(Poll(l))

-----------------------------------------------------------------------------
(* Properties. *)

TypeOK ==
    /\ Len(pairings) <= MaxPairings /\ ToSet(pairings) \subseteq used /\ used \subseteq Codes
    /\ attempts \in [Peers -> 0..MaxAttempts]
    /\ Len(sessions) <= MaxSessions /\ ToSet(sessions) \cup ToSet(disk) \subseteq Tokens
    /\ trust \in [Tokens -> {"none", "session", "90-days", "until-revoked"}]
    /\ aged \subseteq Codes \cup Tokens
    /\ Len(launches) <= MaxLaunches /\ exits \cup ToSet(launches) \subseteq Launches
    /\ kiosk \in [Launches -> {"off", "registered", "open", "refused", "closed"}]
    /\ events \in 0..MaxEvents
    /\ revoked \subseteq Tokens /\ unheard \subseteq Launches /\ overlap \in BOOLEAN

\* "a short-lived single-use pairing code": it makes at most one session, however
\* exchanges, expiry, failed writes and restarts of the server interleave.
SingleUse == \A c \in Codes : born[c] <= 1

\* A revocation that was confirmed is final: the session is not accepted again,
\* and no restart brings it back from the file.
RevokedForGood == revoked \cap (ToSet(sessions) \cup ToSet(disk)) = {}

\* What a restart brings back is what was known and was to be remembered: unless
\* the last write failed, the file follows every pairing, expiry, eviction and
\* revocation, and holds no session that was to end with the server.
RestartRemembers == ~dirty => ToSet(disk) = {t \in ToSet(sessions) : trust[t] # "session"}

\* A request to close that reached the running browser's launch closes it.
ExitCloses == \A l \in Launches : l \in Shown \cap exits ~> l \notin Shown \/ l \in unheard

\* As long as one launch is over before the next is requested, a request to close
\* that is acknowledged is one to the browser that is running.
ExitHeardStep ==
    ~overlap => exits' \ exits \subseteq Shown
ExitHeard == [][ExitHeardStep]_vars
=============================================================================
