------------------------------- MODULE Wizard -------------------------------
(***************************************************************************)
(* The setup wizard of the graphical program: its pages, the form it      *)
(* fills, the requests it starts in the backend and what their answers do *)
(* to the form (ports_gfx/wizard.py, operation.py; lifecycle/setup.py).    *)
(*                                                                         *)
(* A host stands for a server, its port and an account there, a folder for *)
(* a share and a path in it.  A request is a process of its own: it has    *)
(* the form of the moment it was started, ends whenever it ends, and is    *)
(* read by the page that shows it.                                         *)
(***************************************************************************)
EXTENDS Naturals, FiniteSets

CONSTANTS
    Hosts, Keys,            \* servers with an account, and host keys
    FirstKey,               \* the keys the servers have at first
    Folders, Top, None,     \* folders of a server, the topmost, and no value
    SourceTypes, DataTypes, \* what is chosen of the menus (the rest is cut)
    MaxChoices,             \* bound: choices of a storage
    MaxTyped,               \* bound: hosts typed
    MaxRekeys,              \* bound: servers that change their key
    MaxStrays               \* bound: setups that run and are not followed

WizardAssumption ==
    /\ FirstKey \in [Hosts -> Keys] /\ (\A g, h \in Hosts : g # h => FirstKey[g] # FirstKey[h])
    /\ Top \in Folders /\ None \notin Hosts \cup Keys \cup Folders
    /\ SourceTypes \subseteq {"smb", "local", "sftp", "none"}
    /\ DataTypes \subseteq {"smb", "local", "sftp", "google", "none"}
    /\ {MaxChoices, MaxTyped, MaxRekeys, MaxStrays} \subseteq Nat

VARIABLES
    page,      \* the page, of the source or of the data storage
    osk,       \* the text keyboard: none, shown, or open but hidden
    field,     \* the keyboard edits a setting of the cache
    form,      \* WizardState: what is entered
    listed,    \* the server whose shares are offered, per role
    spot,      \* the SFTP folder that is open, per role
    here,      \* browser_path: the folder that is open otherwise
    runner,    \* the request the page follows
    strays,    \* setups that still run and no page follows
    checked,   \* what was validated last, per role
    config,    \* the configuration: the form that was applied
    keyOf,     \* the key each server has
    trusted,   \* <<server, key>> the user has confirmed
    sent,      \* <<server, key>> an SFTP account was used with
    used       \* choices, hosts typed and keys changed so far

user == <<page, osk, field, form, listed, spot, here>>
world == <<strays, config, sent>>
vars == <<user, runner, world, checked, keyOf, trusted, used>>

Roles == {"source", "remote"}
Page(k, r) == [k |-> k, r |-> r]
TextPages == {"server", "port", "user", "password", "path"}
Browsers == {"sftp", "folder", "local"}
Kinds == TextPages \cup Browsers \cup {"closed", "welcome", "choose", "trust", "discover", "share", "check", "google",
          "systems", "access", "auth", "library", "cache", "review", "apply", "done"}
Both(x) == [r \in Roles |-> x]
-----------------------------------------------------------------------------
\* What the wizard starts with: nothing, or what setup-status tells of the
\* configuration (no secrets, nothing of an SFTP server, and the ROM root
\* whatever it stands for).
Fresh == [type |-> [source |-> "smb", remote |-> "none"], host |-> Both(None), secret |-> Both(FALSE), key |-> Both(None),
          dir |-> Both(None), root |-> [source |-> "own", remote |-> None], reuse |-> FALSE, access |-> "cached",
          library |-> FALSE, google |-> "none"]
Opened ==
    IF config = None THEN Fresh
    ELSE LET smb(r) == config.type[r] = "smb" IN
         [Fresh EXCEPT !.type = config.type, !.access = config.access, !.library = config.library,
            !.host = [r \in Roles |-> IF smb(r) THEN config.host[r] ELSE None],
            !.dir = [r \in Roles |-> IF smb(r) THEN config.dir[r] ELSE None],
            !.root = [source |-> CASE config.type.source = "sftp" -> "path" [] config.type.source = "none" -> "empty"
                                   [] OTHER -> config.root.source,
                      remote |-> IF config.type.remote = "local" THEN config.root.remote ELSE None]]

\* Where a request of a role goes, and what it is about.
Conn(f, r) == IF r = "remote" /\ f.reuse THEN "source" ELSE r
Host(f, r) == f.host[Conn(f, r)]
SftpDir(f, r) == IF r = "source" THEN f.dir[r] ELSE f.root[r]
Target(f, r) ==
    CASE f.type[r] = "smb" -> <<"smb", Host(f, r), f.dir[r]>>
      [] f.type[r] = "sftp" -> <<"sftp", Host(f, r), SftpDir(f, r), f.key[r]>>
      [] f.type[r] = "local" -> <<"local", f.root[r]>>
      [] OTHER -> <<f.type[r]>>

NoRun == [act |-> "none", role |-> "source", form |-> None, at |-> None, state |-> "none"]
Request(act, r, f, at) == [act |-> act, role |-> r, form |-> f, at |-> at, state |-> "running"]

Init ==
    /\ page = Page("closed", "source") /\ osk = "none" /\ field = FALSE /\ form = Fresh
    /\ listed = Both(None) /\ spot = Both(Top) /\ here = None
    /\ runner = NoRun /\ strays = {} /\ checked = Both(None) /\ config = None
    /\ keyOf = FirstKey
    /\ trusted = {} /\ sent = {} /\ used = [choices |-> 0, typed |-> 0, keys |-> 0]

\* The user leaves the form alone.
Stay == UNCHANGED <<form, listed, spot, here, checked, trusted, used>>
Show(p) == page' = p /\ UNCHANGED <<osk, field>>
ShowText(p) == page' = p /\ osk' = "shown" /\ UNCHANGED field

\* A new request takes the place of the one that was followed, which runs
\* on: a setup among these still has its effect.
Start(act, p, f, at) ==
    /\ runner' = Request(act, p.r, f, at)
    /\ strays' = IF runner.act = "apply" /\ runner.state = "running" THEN strays \cup {runner.form} ELSE strays
    /\ Cardinality(strays') <= MaxStrays
    /\ UNCHANGED <<config, sent>>
Quiet == UNCHANGED <<runner, world>>
-----------------------------------------------------------------------------
(* Opening, and leaving to the menu or for good: what runs is cancelled.   *)

Open ==
    /\ page.k = "closed" /\ page' = Page("welcome", "source") /\ form' = Opened /\ osk' = "none" /\ field' = FALSE
    /\ checked' = Both(None) /\ listed' = Both(None) /\ spot' = Both(Top) /\ here' = None
    /\ UNCHANGED <<runner, world, keyOf, trusted, used>>

Closes == page' = Page("closed", "source") /\ osk' = "none" /\ field' = FALSE
Leave ==
    /\ page = Page("welcome", "source") \/ page = Page("choose", "source") \/ page.k = "done"
    /\ osk = "none" /\ Closes /\ Stay /\ Quiet /\ UNCHANGED keyOf

Exit ==
    /\ page.k # "closed" /\ Closes /\ Stay /\ runner' = NoRun /\ UNCHANGED <<world, keyOf>>
-----------------------------------------------------------------------------
(* The text keyboard.                                                      *)

Toggle ==
    /\ osk # "none" /\ osk' = (IF osk = "shown" THEN "hidden" ELSE "shown")
    /\ UNCHANGED <<page, field, keyOf>> /\ Stay /\ Quiet

\* A value is taken, and the next page is shown; the last of an account's
\* fields starts the first request to its server.
AfterText(k) == CASE k = "server" -> "port" [] k = "port" -> "user" [] k = "user" -> "password"
Commit ==
    LET r == page.r IN
    /\ osk # "none" /\ UNCHANGED <<keyOf, listed, spot, here, checked, trusted>>
    /\ IF field
       THEN osk' = "none" /\ field' = FALSE /\ UNCHANGED <<page, form, used>> /\ Quiet
       ELSE IF page.k = "server"
       THEN \E h \in Hosts :
              /\ h # form.host[r] => used.typed < MaxTyped
              /\ form' = [form EXCEPT !.host[r] = h] /\ used' = [used EXCEPT !.typed = @ + (IF h = form.host[r] THEN 0 ELSE 1)]
              /\ page' = Page("port", r) /\ UNCHANGED <<osk, field>> /\ Quiet
       ELSE IF page.k \in {"port", "user"}
       THEN page' = Page(AfterText(page.k), r) /\ UNCHANGED <<osk, field, form, used>> /\ Quiet
       ELSE IF page.k = "password"
       THEN LET f == [form EXCEPT !.secret[r] = TRUE, !.reuse = IF r = "remote" THEN FALSE ELSE @]
                p == Page(IF f.type[r] = "sftp" THEN "trust" ELSE "discover", r)
            IN  /\ form' = f /\ page' = p /\ osk' = "none" /\ UNCHANGED <<field, used>>
                /\ Start(IF p.k = "trust" THEN "hostkey" ELSE "discover", p, f, None)
       ELSE IF page.k = "path"
       THEN \E d \in Folders :
              LET f == IF r = "source" THEN [form EXCEPT !.dir[r] = d] ELSE [form EXCEPT !.root[r] = d] IN
              /\ form' = f /\ page' = Page("check", r) /\ osk' = "none" /\ UNCHANGED <<field, used>>
              /\ Start("validate", page', f, None)
       ELSE UNCHANGED <<page, osk, field, form, used>> /\ Quiet

\* Giving up goes to the page before; a page without a field ends the program.
BeforeText(p) ==
    CASE p.k = "server" -> IF p.r = "source" THEN Page("choose", "source") ELSE Page("auth", "remote")
      [] p.k = "port" -> Page("server", p.r) [] p.k = "user" -> Page("port", p.r)
      [] p.k = "password" -> Page("user", p.r) [] p.k = "path" -> Page("sftp", p.r)
Cancel ==
    /\ osk # "none" /\ Stay /\ UNCHANGED <<world, keyOf>>
    /\ IF field THEN osk' = "none" /\ field' = FALSE /\ UNCHANGED <<page, runner>>
       ELSE IF page.k \in TextPages
       THEN /\ page' = BeforeText(page) /\ osk' = (IF page'.k \in TextPages THEN "shown" ELSE "none")
            /\ UNCHANGED <<field, runner>>
       ELSE Closes /\ runner' = NoRun
-----------------------------------------------------------------------------
(* Choices.                                                                *)

Plain == osk = "none" /\ UNCHANGED keyOf
Choice == used.choices < MaxChoices /\ used' = [used EXCEPT !.choices = @ + 1]
                                    /\ UNCHANGED <<listed, checked, trusted>>
Reset(f, r) == [f EXCEPT !.host[r] = None, !.secret[r] = FALSE]

ConfirmWelcome == Plain /\ page.k = "welcome" /\ Show(Page("choose", "source")) /\ Stay /\ Quiet

\* A folder of the device is browsed from where it was chosen last.
BrowseLocal(r, f) ==
    /\ page' = Page("local", r) /\ here' = None /\ UNCHANGED <<osk, field, spot>>
    /\ Start("browse", page', f, None)

ChooseSource(t) ==
    /\ Plain /\ page = Page("choose", "source") /\ Choice /\ t \in SourceTypes
    /\ LET f == [form EXCEPT !.type.source = t] IN
       CASE t = "smb" -> form' = f /\ ShowText(Page("server", "source")) /\ UNCHANGED <<spot, here>> /\ Quiet
         [] t = "local" -> form' = f /\ BrowseLocal("source", f)
         [] t = "sftp" -> /\ form' = [Reset(f, "source") EXCEPT !.dir.source = Top]
                          /\ ShowText(Page("server", "source")) /\ UNCHANGED <<spot, here>> /\ Quiet
         [] t = "none" -> form' = [f EXCEPT !.library = FALSE] /\ Show(Page("choose", "remote")) /\ UNCHANGED <<spot, here>> /\ Quiet

AfterAccess(f) == IF f.access = "cached" THEN Page("cache", "source") ELSE Page("review", "source")
ChooseData(t) ==
    /\ Plain /\ page = Page("choose", "remote") /\ Choice /\ t \in DataTypes
    /\ LET f == [form EXCEPT !.type.remote = t] IN
       CASE t = "smb" -> form' = f /\ Show(Page("auth", "remote")) /\ UNCHANGED <<spot, here>> /\ Quiet
         [] t = "local" -> UNCHANGED form /\ BrowseLocal("remote", form)
         [] t = "sftp" -> /\ form' = [Reset(f, "remote") EXCEPT !.root.remote = Top, !.reuse = FALSE]
                          /\ ShowText(Page("server", "remote")) /\ UNCHANGED <<spot, here>> /\ Quiet
         [] t = "google" -> LET g == [f EXCEPT !.library = FALSE, !.google = "none"] IN
                            /\ form' = g /\ Show(Page("google", "remote")) /\ UNCHANGED <<spot, here>>
                            /\ Start("begin", page', g, None)
         [] t = "none" -> /\ form' = [f EXCEPT !.library = FALSE] /\ UNCHANGED <<spot, here>> /\ Quiet
                          /\ Show(IF f.type.source = "none" THEN Page("review", "source") ELSE AfterAccess(f))

\* The account of the source, or another.
Auth(same) ==
    /\ Plain /\ page.k = "auth" /\ UNCHANGED <<listed, spot, here, checked, trusted, used>>
    /\ IF same
       THEN LET f == [form EXCEPT !.reuse = TRUE, !.host.remote = form.host.source, !.secret.remote = FALSE] IN
            form' = f /\ Show(Page("discover", "remote")) /\ Start("discover", page', f, None)
       ELSE form' = [Reset(form, "remote") EXCEPT !.reuse = FALSE] /\ ShowText(Page("server", "remote")) /\ Quiet

\* The key that is shown is trusted: while another is still being asked for,
\* that is the key of the time before.
Trust ==
    /\ Plain /\ page.k = "trust"
    /\ trusted' = trusted \cup {<<form.host[page.r], form.key[page.r]>>}
    /\ Show(Page("sftp", page.r)) /\ spot' = [spot EXCEPT ![page.r] = Top] /\ here' = Top
    /\ Start("browse", page', form, Top) /\ UNCHANGED <<form, listed, checked, used>>

\* A request is repeated, though it may still run.
Retry ==
    /\ Plain /\ page.k \in {"discover", "check", "apply"} /\ Show(page) /\ Stay
    /\ Start(CASE page.k = "discover" -> "discover" [] page.k = "check" -> "validate" [] OTHER -> "apply", page, form, None)

PickShare(d) ==
    /\ Plain /\ page.k = "share" /\ listed[page.r] # None
    /\ form' = [form EXCEPT !.dir[page.r] = d] /\ here' = d /\ Show(Page("folder", page.r))
    /\ Start("listing", page', form', d) /\ UNCHANGED <<listed, spot, checked, trusted, used>>

ConfirmSystems == Plain /\ page.k = "systems" /\ Show(Page("access", "source")) /\ Stay /\ Quiet

\* Of an SFTP source only the cache is offered; the entry that is selected
\* is that of the mode there was.
Access(a) ==
    /\ Plain /\ page.k = "access" /\ (a = "direct" /\ form.type.source = "sftp" => form.access = "direct")
    /\ form' = [form EXCEPT !.access = a] /\ Show(Page("choose", "remote"))
    /\ Quiet /\ UNCHANGED <<listed, spot, here, checked, trusted, used>>

Google(again) ==
    /\ Plain /\ page.k = "google" /\ Show(page) /\ Stay
    /\ Start(IF again \/ form.google = "none" THEN "begin" ELSE "complete", page, form, None)

Library(on) ==
    /\ Plain /\ page.k = "library" /\ form' = [form EXCEPT !.library = on] /\ Show(AfterAccess(form))
    /\ Quiet /\ UNCHANGED <<listed, spot, here, checked, trusted, used>>

CacheBrowse ==
    /\ Plain /\ page.k = "cache" /\ BrowseLocal("cache", form) /\ UNCHANGED <<form, listed, checked, trusted, used>>
CacheText == Plain /\ page.k = "cache" /\ osk' = "shown" /\ field' = TRUE /\ UNCHANGED page /\ Stay /\ Quiet
CacheDone == Plain /\ page.k = "cache" /\ Show(Page("review", "source")) /\ Stay /\ Quiet
Review == Plain /\ page.k = "review" /\ Show(Page("apply", "source")) /\ Stay /\ Start("apply", page', form, None)
-----------------------------------------------------------------------------
(* The folder browsers, which take nothing while a listing is awaited.     *)

PostStorage(f) ==
    IF f.type.source = "none" THEN Page("review", "source")
    ELSE IF f.type.remote = "google" THEN AfterAccess(f) ELSE Page("library", "remote")

\* The folder that is open is taken, and asked for once more as a whole.
SelectUnchecked ==                            \* mutant: a folder that could be listed is not validated
    /\ Plain /\ page.k \in Browsers /\ runner = NoRun /\ UNCHANGED <<listed, spot, here, checked, trusted, used>>
    /\ page.k = "sftp" /\ page.r = "remote" /\ form' = [form EXCEPT !.root.remote = spot.remote]
    /\ Show(PostStorage(form')) /\ Quiet
Select ==
    /\ Plain /\ page.k \in Browsers /\ runner = NoRun /\ UNCHANGED <<listed, spot, here, checked, trusted, used>>
    /\ LET r == page.r
           f == CASE page.k = "sftp" /\ r = "source" -> [form EXCEPT !.dir.source = spot[r]]
                  [] page.k = "sftp" /\ r = "remote" -> [form EXCEPT !.root.remote = spot[r]]
                  [] page.k = "folder" -> [form EXCEPT !.dir[r] = here]
                  [] page.k = "local" /\ r = "source" -> [form EXCEPT !.root.source = "picked"]
                  [] page.k = "local" /\ r = "remote" -> [form EXCEPT !.type.remote = "local", !.root.remote = "picked"]
                  [] OTHER -> form
       IN  /\ form' = f
           /\ IF page.k = "local" /\ r # "source"
              THEN Show(IF r = "cache" THEN Page("cache", "source") ELSE PostStorage(f)) /\ Quiet
              ELSE Show(Page("check", r)) /\ Start("validate", page', f, None)

\* Another folder is opened: of a share it is at once the folder of the form.
Go(d) ==
    /\ Plain /\ page.k \in Browsers /\ runner = NoRun /\ UNCHANGED <<page, osk, field, listed, checked, trusted, used>>
    /\ LET r == page.r IN
       /\ form' = IF page.k = "folder" THEN [form EXCEPT !.dir[r] = d] ELSE form
       /\ spot' = IF page.k = "sftp" THEN [spot EXCEPT ![r] = d] ELSE spot
       /\ here' = IF page.k = "local" THEN None ELSE d
       /\ Start(IF page.k = "folder" THEN "listing" ELSE "browse", page, form', IF page.k = "local" THEN None ELSE d)

TypePath ==
    /\ Plain /\ page.k = "sftp" /\ runner = NoRun /\ ShowText(Page("path", page.r)) /\ Stay /\ Quiet
-----------------------------------------------------------------------------
(* Back: what runs is cancelled.                                           *)

AfterStorage(f) ==
    IF f.type.remote = "google" THEN Page("google", "remote")
    ELSE IF f.type.remote # "none" THEN Page("library", "remote") ELSE Page("choose", "remote")
ToShares(f, r) == Page("share", r)            \* mutant: a search that failed goes back to the shares found before
ToAccount(f, r) == IF r = "remote" /\ f.reuse THEN Page("auth", r) ELSE Page("password", r)
Previous(p, f) ==
    CASE p.k = "choose" /\ p.r = "source" -> Page("welcome", "source")
      [] p.k = "choose" /\ p.r = "remote" -> IF f.type.source = "none" THEN Page("choose", "source") ELSE Page("access", "source")
      [] p.k = "local" -> IF p.r = "cache" THEN Page("cache", "source") ELSE Page("choose", p.r)
      [] p.k = "discover" \/ p.k = "share" -> ToAccount(f, p.r)
      [] p.k = "trust" -> Page("password", p.r)
      [] p.k = "sftp" -> Page("trust", p.r)
      [] p.k = "path" -> Page("sftp", p.r)
      [] p.k = "folder" -> Page("share", p.r)
      [] p.k \in {"check", "systems"} -> Page(IF f.type[p.r] = "sftp" THEN "sftp" ELSE "share", p.r)
      [] p.k = "access" -> Page("systems", "source")
      [] p.k \in {"google", "auth", "library"} -> Page("choose", "remote")
      [] p.k = "cache" -> AfterStorage(f)
      [] p.k = "review" -> IF f.access = "cached" /\ f.type.source # "none" THEN Page("cache", "source") ELSE AfterStorage(f)
      [] p.k \in {"apply", "done"} -> Page("review", "source")
      [] OTHER -> p

BackRuns ==                                   \* mutant: what runs is not cancelled
    /\ osk = "none" /\ page.k # "closed" /\ Show(Previous(page, form)) /\ Stay /\ Quiet /\ UNCHANGED keyOf
\* With the keyboard hidden the button of the page is still there.
Back ==
    /\ osk \in {"none", "hidden"} /\ page.k # "closed" /\ page # Page("welcome", "source") /\ page # Page("choose", "source")
    /\ UNCHANGED <<form, listed, checked, trusted, used, world, keyOf>>
    /\ IF page.k = "sftp" /\ spot[page.r] # Top
       THEN /\ spot' = [spot EXCEPT ![page.r] = Top] /\ here' = Top /\ UNCHANGED <<page, osk, field>>
            /\ runner' = Request("browse", page.r, form, Top)
       ELSE /\ runner' = NoRun /\ UNCHANGED <<spot, here>>
            /\ LET p == Previous(page, form) IN
               IF p.k \in TextPages /\ p # page THEN ShowText(p) ELSE Show(p)
-----------------------------------------------------------------------------
(* The backend.                                                            *)

\* A password is used only with a server that has the key that is trusted.
PinnedLoose(f, r) == f.key[r] \in {None, keyOf[f.host[r]]}     \* mutant: any key is taken when none is known
Pinned(f, r) == f.host[r] # None /\ f.key[r] = keyOf[f.host[r]]
HasAccount(f, r) == Host(f, r) # None /\ f.secret[Conn(f, r)]
Reached(f, r) ==
    CASE f.type[r] = "smb" -> HasAccount(f, r) /\ f.dir[r] # None
      [] f.type[r] = "sftp" -> Pinned(f, r) /\ f.secret[r]
      [] OTHER -> f.type[r] = "local"
Lists(q) == HasAccount(q.form, q.role)
Browses(q) == q.at = None \/ Reached(q.form, q.role)
Probes(q) == q.form.host[q.role] # None

\* What the request of a setup must satisfy.
Acceptable(f) ==
    /\ f.type.source \in {"smb", "sftp"} => f.host.source # None /\ f.secret.source
    /\ f.type.remote \in {"smb", "sftp"} => HasAccount(f, "remote")
    /\ f.type.source # "none" => f.root.source # "empty" /\ ~(f.access = "direct" /\ f.type.source = "sftp")
    /\ f.library => f.type.remote \notin {"none", "google"} /\ f.type.source # "none"
    /\ f.type.source = "smb" /\ f.type.remote = "smb" => Target(f, "source") # Target(f, "remote")

\* What a request needs to succeed; anything may fail.
Possible(q) ==
    CASE q.act = "discover" -> HasAccount(q.form, q.role)
      [] q.act = "hostkey" -> Probes(q)
      [] q.act = "listing" -> Lists(q)
      [] q.act = "browse" -> Browses(q)
      [] q.act = "validate" -> Reached(q.form, q.role)
      [] q.act = "apply" -> Acceptable(q.form) /\ (q.form.type.source # "none" => Reached(q.form, "source"))
      [] OTHER -> TRUE

\* The SFTP accounts a request uses.
Uses(q) ==
    LET rs == IF q.act = "apply" THEN Roles ELSE IF q.act = "validate" \/ (q.act = "browse" /\ q.at # None) THEN {q.role} ELSE {}
    IN  {<<q.form.host[r], keyOf[q.form.host[r]]>> : r \in {x \in rs : q.form.type[x] = "sftp" /\ q.form.secret[x] /\ Pinned(q.form, x)}}

Execute ==
    /\ runner.state = "running" /\ sent' = sent \cup Uses(runner)
    /\ \E ok \in {FALSE} \cup {Possible(runner)} :
         /\ runner' = [runner EXCEPT !.state = IF ok THEN "succeeded" ELSE "failed"]
         /\ config' = IF ok /\ runner.act = "apply" THEN runner.form ELSE config
    /\ UNCHANGED <<user, strays, checked, keyOf, trusted, used>>

StrayEnds(f) ==
    /\ f \in strays /\ strays' = strays \ {f}
    /\ \E ok \in {FALSE} \cup {Possible(Request("apply", "source", f, None))} : config' = IF ok THEN f ELSE config
    /\ sent' = sent \cup Uses(Request("apply", "source", f, None))
    /\ UNCHANGED <<user, runner, checked, keyOf, trusted, used>>

Rekey(h) ==
    /\ used.keys < MaxRekeys /\ used' = [used EXCEPT !.keys = @ + 1]
    /\ \E k \in Keys : k \notin {keyOf[g] : g \in Hosts} /\ keyOf' = [keyOf EXCEPT ![h] = k]
    /\ UNCHANGED <<user, runner, world, checked, trusted>>
-----------------------------------------------------------------------------
(* The answer, read by the page that is shown.                             *)

PollFailed == runner.state = "failed" /\ Stay /\ Show(page) /\ runner' = NoRun /\ UNCHANGED <<world, keyOf>>

Poll ==
    LET r == page.r
        q == runner.form IN
    /\ runner.state = "succeeded" /\ runner' = NoRun /\ UNCHANGED <<world, keyOf, trusted, used, osk, field>>
    /\ CASE page.k = "discover" ->
              \E found \in BOOLEAN :
                /\ listed' = [listed EXCEPT ![r] = IF found THEN Host(q, r) ELSE None]
                /\ page' = IF found THEN Page("share", r) ELSE page
                /\ UNCHANGED <<form, spot, here, checked>>
         [] page.k = "trust" -> form' = [form EXCEPT !.key[r] = keyOf[q.host[r]]] /\ UNCHANGED <<page, listed, spot, here, checked>>
         [] page.k = "check" ->
              /\ checked' = [checked EXCEPT ![r] = Target(q, r)]
              /\ page' = (IF r = "source" THEN Page("systems", r) ELSE PostStorage(form)) /\ UNCHANGED <<form, listed, spot, here>>
         [] page.k \in Browsers ->
              /\ here' = runner.at /\ spot' = IF page.k = "sftp" THEN [spot EXCEPT ![r] = runner.at] ELSE spot
              /\ UNCHANGED <<page, form, listed, checked>>
         [] page.k = "google" /\ runner.act = "begin" -> form' = [form EXCEPT !.google = "code"] /\ UNCHANGED <<page, listed, spot, here, checked>>
         [] page.k = "google" /\ runner.act = "complete" ->
              \E ready \in BOOLEAN :
                /\ form' = IF ready THEN [form EXCEPT !.google = "ready"] ELSE form
                /\ checked' = IF ready THEN [checked EXCEPT !.remote = <<"google">>] ELSE checked
                /\ page' = (IF ready THEN PostStorage(form) ELSE page) /\ UNCHANGED <<listed, spot, here>>
         [] page.k = "apply" ->
              /\ form' = [form EXCEPT !.secret = Both(FALSE)] /\ page' = Page("done", "source") /\ UNCHANGED <<listed, spot, here, checked>>
         [] OTHER -> UNCHANGED <<page, form, listed, spot, here, checked>>

Confirm ==
    \/ ConfirmWelcome \/ Trust \/ Retry \/ ConfirmSystems \/ CacheBrowse \/ CacheText \/ CacheDone \/ Review
    \/ \E t \in SourceTypes : ChooseSource(t)
    \/ \E t \in DataTypes : ChooseData(t)
    \/ \E b \in BOOLEAN : Auth(b) \/ Google(b) \/ Library(b)
    \/ \E a \in {"cached", "direct"} : Access(a)
    \/ \E d \in Folders : PickShare(d) \/ Go(d)
    \/ Select \/ TypePath
Next ==
    \/ Open \/ Leave \/ Exit \/ Toggle \/ Commit \/ Cancel \/ Confirm \/ Back
    \/ Execute \/ Poll \/ PollFailed
    \/ (\E f \in strays : StrayEnds(f)) \/ (\E h \in Hosts : Rekey(h))
Spec == Init /\ [][Next]_vars
-----------------------------------------------------------------------------
TypeOK ==
    /\ page \in [k : Kinds, r : Roles \cup {"cache"}] /\ osk \in {"none", "shown", "hidden"} /\ field \in BOOLEAN
    /\ form.host \in [Roles -> Hosts \cup {None}] /\ form.key \in [Roles -> Keys \cup {None}]
    /\ listed \in [Roles -> Hosts \cup {None}] /\ spot \in [Roles -> Folders] /\ here \in Folders \cup {None}
    /\ runner.state \in {"none", "running", "succeeded", "failed"} /\ keyOf \in [Hosts -> Keys]

\* The request a page follows is one that page starts, made with the form as
\* it is now (ports_gfx/wizard.py poll: an answer is applied by the page shown
\* when it comes, whatever it was asked for).
ActsOf(k) ==
    CASE k = "discover" -> {"discover"} [] k = "trust" -> {"hostkey"} [] k = "check" -> {"validate"}
      [] k = "folder" -> {"listing"} [] k \in {"sftp", "local"} -> {"browse"} [] k = "google" -> {"begin", "complete"} [] k = "apply" -> {"apply"} [] OTHER -> {}
AnswerFits == runner # NoRun => runner.act \in ActsOf(page.k) /\ runner.role = page.r /\ runner.form = form

\* The shares that are offered are those of the server in the form.
OffersFit == page.k = "share" /\ form.type[page.r] = "smb" => listed[page.r] = Host(form, page.r)

\* No SFTP password has been used with a server whose key, as it was then,
\* the user had not confirmed for that server.
TrustedOnly == sent \subseteq trusted

\* What a setup is started with was validated, as it is, since the wizard was
\* opened: the source, and data storage on a server.
SetupForms == strays \cup (IF runner.act = "apply" THEN {runner.form} ELSE {})
CheckedFirstStep ==
    \A f \in SetupForms' \ SetupForms :
      /\ f.type.source # "none" => checked.source = Target(f, "source")
      /\ f.type.remote \in {"smb", "sftp", "google"} => checked.remote = Target(f, "remote")
CheckedFirst == [][CheckedFirstStep]_vars

\* Not so: a confirmation on the page of a setup that runs starts another;
\* the form that is submitted may be one that no setup takes (Back from the
\* review of a device without games leads to Library Sync); an SMB source is
\* mounted where a local folder was chosen before; the keyboard stays open
\* when its page is left by the button.
OneSetup == strays = {}
FormsFit == runner.act = "apply" => Acceptable(runner.form)
OwnMountPoint == config # None => (config.type.source = "smb" => config.root.source = "own")
FieldHasPage == osk # "none" => field \/ page.k \in TextPages
=============================================================================
