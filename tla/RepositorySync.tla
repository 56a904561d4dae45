---------------------------- MODULE RepositorySync ----------------------------
(***************************************************************************)
(* The table of connected repositories against the list GitHub keeps: what *)
(* installation webhooks, syncs and the user's own operations do to it.    *)
(*                                                                         *)
(* Every handler of github-webhook.service.ts and every request of         *)
(* repositories.service.ts runs as one of the Handler slots, one action    *)
(* per stretch between two awaits; a sync fetches a list page by page,     *)
(* reads the table, and then applies what it computed in one transaction.  *)
(***************************************************************************)
EXTENDS Naturals, FiniteSets

CONSTANTS
    Installation,     \* installations of the GitHub App, one per account
    Repo,             \* repositories by GitHub's id, a set of numbers: pages are in its order
    Handler,          \* slots for webhook handlers and requests running at once
    PageSize,         \* per_page of the list request
    NoRow,            \* a repository the table does not hold
    MaxChanges,       \* bound on the changes made at GitHub
    MaxFaults,        \* bound on failing list requests and restarts of the backend
    MaxUserOps,       \* bound on the user's own operations
    MaxEvents         \* bound on all of these together

ASSUME SyncAssumption ==
    /\ Installation # {} /\ Repo \subseteq Nat /\ IsFiniteSet(Repo)
    /\ PageSize \in Nat \ {0}
    /\ MaxChanges \in Nat /\ MaxFaults \in Nat /\ MaxUserOps \in Nat /\ MaxEvents \in Nat

ASSUME NoRowAssumption == NoRow \notin [inst : Installation, active : BOOLEAN, custom : BOOLEAN]

VARIABLES
    github,           \* github[i]: was the App ever installed, is it still
    access,           \* access[i]: the repositories installation i may see
    events,           \* deliveries GitHub sent and no handler took yet, in no order
    registered,       \* has the owner of the installations signed in to DocPulse
    installation,     \* the installations table
    row,              \* the repositories table
    handler,          \* the handlers in progress
    revoked,          \* history: which installation once lost which repository
    customised,       \* history: repositories whose settings the user chose
    disturbed,        \* history: a failure, an overlap, or an edit by hand happened
    left              \* what is left of the bounds

vars == <<github, access, events, registered, installation, row, handler,
          revoked, customised, disturbed, left>>

githubVars == <<github, access, revoked>>
history == <<customised, disturbed>>

(***************************************************************************)
(* custom: the user-controlled columns differ from what a new row gets.    *)
(***************************************************************************)
Row == [inst : Installation, active : BOOLEAN, custom : BOOLEAN]

NewRow(i) == [inst |-> i, active |-> TRUE, custom |-> FALSE]

Event == [kind : {"created", "deleted", "repositories"}, inst : Installation,
          removed : SUBSET Repo]

(***************************************************************************)
(* What a handler holds between two awaits: the repositories it still has  *)
(* to look up, those whose row it found and will delete, the list fetched  *)
(* so far, and the rows it will mark inactive.                             *)
(***************************************************************************)
Idle == [pc |-> "idle", inst |-> CHOOSE i \in Installation : TRUE, then |-> "idle",
         lookup |-> {}, doomed |-> {}, list |-> {}, page |-> 1, gone |-> {}]

HandlerState ==
    [pc : {"idle", "save", "cleanup", "find", "fetch", "read", "apply", "deactivate", "connect"},
     inst : Installation, then : {"idle", "find", "deactivate"},
     lookup : SUBSET Repo, doomed : SUBSET Repo,
     list : SUBSET Repo, page : Nat \ {0}, gone : SUBSET Repo]

TypeOK ==
    /\ github \in [Installation -> {"never", "installed", "gone"}]
    /\ access \in [Installation -> SUBSET Repo]
    /\ events \subseteq [id : (1..MaxChanges) \X {1, 2}, body : Event]
    /\ registered \in BOOLEAN
    /\ installation \in [Installation -> {"absent", "active", "inactive"}]
    /\ row \in [Repo -> Row \cup {NoRow}]
    /\ handler \in [Handler -> HandlerState]
    /\ revoked \subseteq (Installation \X Repo) /\ customised \subseteq Repo
    /\ disturbed \in BOOLEAN
    /\ left \in [changes : 0..MaxChanges, faults : 0..MaxFaults, userOps : 0..MaxUserOps,
                 events : 0..MaxEvents]

Init ==
    /\ github = [i \in Installation |-> "never"]
    /\ access = [i \in Installation |-> {}]
    /\ events = {}
    /\ registered = FALSE
    /\ installation = [i \in Installation |-> "absent"]
    /\ row = [r \in Repo |-> NoRow]
    /\ handler = [h \in Handler |-> Idle]
    /\ revoked = {} /\ customised = {} /\ disturbed = FALSE
    /\ left = [changes |-> MaxChanges, faults |-> MaxFaults, userOps |-> MaxUserOps,
               events |-> MaxEvents]

\* One of what is bounded happens.
Spend(kind) ==
    /\ left[kind] > 0 /\ left.events > 0
    /\ left' = [left EXCEPT ![kind] = @ - 1, !.events = @ - 1]

RowsOf(i) == {r \in Repo : row[r] # NoRow /\ row[r].inst = i}
ActiveRowsOf(i) == {r \in RowsOf(i) : row[r].active}
Present(i) == installation[i] # "absent"

-----------------------------------------------------------------------------
(***************************************************************************)
(* GitHub: the account's owner installs the App, chooses repositories, or  *)
(* moves one to another account.  Each change is announced by a delivery   *)
(* that may arrive any time later and in any order.                        *)
(***************************************************************************)

Message(nth, kind, i, removed) ==
    [id |-> <<left.changes, nth>>, body |-> [kind |-> kind, inst |-> i, removed |-> removed]]

Announce(messages) ==
    /\ Spend("changes")
    /\ events' = events \cup messages
    /\ UNCHANGED <<registered, installation, row, handler, customised>>

(***************************************************************************)
(* A repository belongs to one account, so only one installation sees it.  *)
(***************************************************************************)
MayGrant(i, r) ==
    \A j \in Installation : r \notin access[j] /\ (j # i => <<j, r>> \notin revoked)

Install(i) ==
    /\ github[i] = "never"
    /\ \E S \in SUBSET {r \in Repo : MayGrant(i, r)} : access' = [access EXCEPT ![i] = S]
    /\ github' = [github EXCEPT ![i] = "installed"]
    /\ Announce({Message(1, "created", i, {})})
    /\ UNCHANGED <<revoked, disturbed>>

Grant(i, r) ==
    /\ github[i] = "installed" /\ MayGrant(i, r)
    /\ access' = [access EXCEPT ![i] = @ \cup {r}]
    /\ Announce({Message(1, "repositories", i, {})})
    /\ UNCHANGED <<github, revoked, disturbed>>

Revoke(i, r) ==
    /\ r \in access[i]
    /\ access' = [access EXCEPT ![i] = @ \ {r}]
    /\ revoked' = revoked \cup {<<i, r>>}
    /\ Announce({Message(1, "repositories", i, {r})})
    /\ UNCHANGED <<github, disturbed>>

Uninstall(i) ==
    /\ github[i] = "installed"
    /\ github' = [github EXCEPT ![i] = "gone"]
    /\ access' = [access EXCEPT ![i] = {}]
    /\ revoked' = revoked \cup ({i} \X access[i])
    /\ Announce({Message(1, "deleted", i, {})})
    /\ UNCHANGED disturbed

Transfer(r, i, j) ==
    /\ r \in access[i] /\ github[j] = "installed" /\ i # j
    /\ access' = [access EXCEPT ![i] = @ \ {r}, ![j] = @ \cup {r}]
    /\ revoked' = revoked \cup {<<i, r>>}
    /\ Announce({Message(1, "repositories", i, {r}), Message(2, "repositories", j, {})})
    /\ disturbed' = TRUE
    /\ UNCHANGED github

-----------------------------------------------------------------------------
(***************************************************************************)
(* Handlers                                                                *)
(***************************************************************************)

Goto(h, pc) == handler' = [handler EXCEPT ![h].pc = pc]
Finish(h) == handler' = [handler EXCEPT ![h] = Idle]
Alone(h) == \A g \in Handler \ {h} : handler[g].pc = "idle"

(***************************************************************************)
(* handleEvent: which of its branches the delivery takes.  "deleted" reads *)
(* the installation's repositories at once; "repositories" looks each      *)
(* removed one up by itself.                                               *)
(***************************************************************************)
Receive(h, e) ==
    /\ handler[h].pc = "idle" /\ e \in events
    /\ events' = events \ {e}
    /\ handler' = [handler EXCEPT ![h] =
          CASE e.body.kind = "created" ->
                 [Idle EXCEPT !.pc = "save", !.inst = e.body.inst]
            [] e.body.kind = "deleted" ->
                 [Idle EXCEPT !.pc = "cleanup", !.inst = e.body.inst, !.then = "deactivate",
                              !.doomed = RowsOf(e.body.inst)]
            [] e.body.kind = "repositories" ->
                 [Idle EXCEPT !.pc = "cleanup", !.inst = e.body.inst, !.then = "find",
                              !.lookup = e.body.removed]]
    /\ disturbed' = (disturbed \/ ~Alone(h))
    /\ UNCHANGED <<githubVars, registered, installation, row, customised, left>>

(***************************************************************************)
(* handleInstallationCreated: an installation whose sender never signed in *)
(* is not recorded; the sync that follows then finds nothing.              *)
(***************************************************************************)
SaveInstallation(h) ==
    LET i == handler[h].inst IN
    /\ handler[h].pc = "save"
    /\ installation' = IF registered THEN [installation EXCEPT ![i] = "active"] ELSE installation
    /\ disturbed' = (disturbed \/ ~registered)
    /\ Goto(h, "find")
    /\ UNCHANGED <<githubVars, events, registered, row, customised, left>>

(***************************************************************************)
(* The cleanups of a revocation run at the same time, each its own look-up *)
(* and delete.  A row is deleted by its own id: when another handler has   *)
(* deleted it, deleting it again finds nothing, even if the repository     *)
(* came back under a new row.                                              *)
(***************************************************************************)
LookUpRemoved(h, r) ==
    /\ handler[h].pc = "cleanup" /\ r \in handler[h].lookup
    /\ handler' = [handler EXCEPT ![h].lookup = @ \ {r},
                                  ![h].doomed = IF row[r] # NoRow THEN @ \cup {r} ELSE @]
    /\ UNCHANGED <<githubVars, events, registered, installation, row, history, left>>

CleanupRepository(h, r) ==
    /\ handler[h].pc = "cleanup" /\ r \in handler[h].doomed
    /\ row' = [row EXCEPT ![r] = NoRow]
    /\ handler' = [g \in Handler |-> [handler[g] EXCEPT !.doomed = @ \ {r}]]
    /\ UNCHANGED <<githubVars, events, registered, installation, history, left>>

CleanupDone(h) ==
    /\ handler[h].pc = "cleanup" /\ handler[h].lookup = {} /\ handler[h].doomed = {}
    /\ Goto(h, handler[h].then)
    /\ UNCHANGED <<githubVars, events, registered, installation, row, history, left>>

(***************************************************************************)
(* syncInstallationRepositoriesFromWebhook skips an unknown installation.  *)
(***************************************************************************)
\* Mutant: the first page asked for is page 0.
FindThenPageZero(h) ==
    /\ handler[h].pc = "find" /\ Present(handler[h].inst)
    /\ handler' = [handler EXCEPT ![h].pc = "fetch", ![h].page = 0]
    /\ UNCHANGED <<githubVars, events, registered, installation, row, history, left>>

FindInstallation(h) ==
    /\ handler[h].pc = "find"
    /\ IF Present(handler[h].inst) THEN Goto(h, "fetch") ELSE Finish(h)
    /\ UNCHANGED <<githubVars, events, registered, installation, row, history, left>>

RequestSync(h, i) ==
    /\ handler[h].pc = "idle" /\ Present(i)
    /\ handler' = [handler EXCEPT ![h] = [Idle EXCEPT !.pc = "fetch", !.inst = i]]
    /\ disturbed' = (disturbed \/ ~Alone(h))
    /\ UNCHANGED <<githubVars, events, registered, installation, row, customised, left>>

(***************************************************************************)
(* listInstallationRepositories: one page after the other, numbered by     *)
(* their place in what the installation sees at that moment, until a page  *)
(* is short.                                                               *)
(***************************************************************************)
Rank(r, S) == Cardinality({s \in S : s <= r})
Page(S, n) == {r \in S : (n - 1) * PageSize < Rank(r, S) /\ Rank(r, S) <= n * PageSize}

\* Mutant: only the first page is fetched.
FirstPageOnly(h) ==
    /\ handler[h].pc = "fetch" /\ github[handler[h].inst] = "installed"
    /\ handler' = [handler EXCEPT ![h].list = Page(access[handler[h].inst], 1), ![h].pc = "read"]
    /\ UNCHANGED <<githubVars, events, registered, installation, row, history, left>>

FetchPage(h) ==
    LET got == Page(access[handler[h].inst], handler[h].page) IN
    /\ handler[h].pc = "fetch" /\ github[handler[h].inst] = "installed"
    /\ handler' = [handler EXCEPT ![h].list = @ \cup got,
                                  ![h].page = @ + 1,
                                  ![h].pc = IF Cardinality(got) < PageSize THEN "read" ELSE @]
    /\ UNCHANGED <<githubVars, events, registered, installation, row, history, left>>

(***************************************************************************)
(* An uninstalled App gets no token.  Any failure to get one, and any      *)
(* answer 401, 403 or 404, is taken for a revocation; another failure of   *)
(* the list request ends the handler.                                      *)
(***************************************************************************)
FetchRefused(h) ==
    /\ handler[h].pc = "fetch" /\ github[handler[h].inst] # "installed"
    /\ Goto(h, "deactivate")
    /\ UNCHANGED <<githubVars, events, registered, installation, row, history, left>>

FetchFails(h) ==
    /\ handler[h].pc = "fetch" /\ Spend("faults")
    /\ disturbed' = TRUE
    /\ Goto(h, "deactivate") \/ Finish(h)
    /\ UNCHANGED <<githubVars, events, registered, installation, row, customised>>

(***************************************************************************)
(* deactivateInstallation: the installation and all its rows.              *)
(***************************************************************************)
Deactivated(rows, rs) ==
    [r \in Repo |-> IF r \in rs /\ rows[r] # NoRow THEN [rows[r] EXCEPT !.active = FALSE] ELSE rows[r]]

DeactivateInstallation(h) ==
    LET i == handler[h].inst IN
    /\ handler[h].pc = "deactivate"
    /\ installation' = [installation EXCEPT ![i] = IF @ = "absent" THEN @ ELSE "inactive"]
    /\ row' = Deactivated(row, RowsOf(i))
    /\ Finish(h)
    /\ UNCHANGED <<githubVars, events, registered, history, left>>

(***************************************************************************)
(* The sync reads the table after the list and outside the transaction     *)
(* that applies it.                                                        *)
(***************************************************************************)
\* Mutant: the table is not compared with the list.
ReadNothing(h) ==
    /\ handler[h].pc = "read"
    /\ Goto(h, "apply")
    /\ UNCHANGED <<githubVars, events, registered, installation, row, history, left>>

ReadRows(h) ==
    /\ handler[h].pc = "read"
    /\ handler' = [handler EXCEPT ![h].gone = ActiveRowsOf(handler[h].inst) \ handler[h].list, ![h].pc = "apply"]
    /\ UNCHANGED <<githubVars, events, registered, installation, row, history, left>>

\* Mutant: a row that exists is written like a new one.
SyncRecreate(old, i) == NewRow(i)

SyncUpsert(old, i) ==
    IF old = NoRow THEN NewRow(i) ELSE [old EXCEPT !.inst = i, !.active = TRUE]

ApplySync(h) ==
    LET i == handler[h].inst
        kept == Deactivated(row, handler[h].gone) IN
    /\ handler[h].pc = "apply"
    /\ installation' = [installation EXCEPT ![i] = "active"]
    /\ row' = [r \in Repo |-> IF r \in handler[h].list THEN SyncUpsert(kept[r], i) ELSE kept[r]]
    /\ Finish(h)
    /\ UNCHANGED <<githubVars, events, registered, history, left>>

-----------------------------------------------------------------------------
(***************************************************************************)
(* The user                                                                *)
(***************************************************************************)

SignIn ==
    /\ ~registered
    /\ registered' = TRUE
    /\ UNCHANGED <<githubVars, events, installation, row, handler, history, left>>

UserOp == Spend("userOps")

(***************************************************************************)
(* connectRepository: the metadata is fetched first, and the row created   *)
(* when none is there by then.  Neither step asks whether the installation *)
(* is active.                                                              *)
(***************************************************************************)
ConnectFetch(h, i, r) ==
    /\ handler[h].pc = "idle" /\ Present(i) /\ r \in access[i]
    /\ UserOp
    /\ handler' = [handler EXCEPT ![h] = [Idle EXCEPT !.pc = "connect", !.inst = i, !.list = {r}]]
    /\ disturbed' = TRUE
    /\ UNCHANGED <<githubVars, events, registered, installation, row, customised>>

ConnectCreate(h) ==
    LET i == handler[h].inst IN
    /\ handler[h].pc = "connect"
    /\ row' = [r \in Repo |-> IF r \in handler[h].list /\ row[r] = NoRow THEN NewRow(i) ELSE row[r]]
    /\ Finish(h)
    /\ UNCHANGED <<githubVars, events, registered, installation, history, left>>

UpdateSettings(r) ==
    /\ row[r] # NoRow
    /\ UserOp
    /\ row' = [row EXCEPT ![r].custom = TRUE]
    /\ customised' = customised \cup {r}
    /\ UNCHANGED <<githubVars, events, registered, installation, handler, disturbed>>

(***************************************************************************)
(* activateRepository, deactivateRepository and deleteRepository all write *)
(* the one flag a sync writes too.                                         *)
(***************************************************************************)
SetActive(r, active) ==
    /\ row[r] # NoRow
    /\ UserOp
    /\ row' = [row EXCEPT ![r].active = active]
    /\ disturbed' = TRUE
    /\ UNCHANGED <<githubVars, events, registered, installation, handler, customised>>

(***************************************************************************)
(* A restart ends every handler; its delivery was acknowledged before it   *)
(* began and does not come back.                                           *)
(***************************************************************************)
Crash ==
    /\ Spend("faults")
    /\ handler' = [h \in Handler |-> Idle]
    /\ disturbed' = TRUE
    /\ UNCHANGED <<githubVars, events, registered, installation, row, customised>>

-----------------------------------------------------------------------------
GitHubStep ==
    \E i \in Installation :
       \/ Install(i) \/ Uninstall(i)
       \/ \E r \in Repo : Grant(i, r) \/ Revoke(i, r) \/ \E j \in Installation : Transfer(r, i, j)

Progress(h) ==
    \/ SaveInstallation(h) \/ CleanupDone(h) \/ FindInstallation(h)
    \/ FetchPage(h) \/ FetchRefused(h) \/ DeactivateInstallation(h)
    \/ ReadRows(h) \/ ApplySync(h) \/ ConnectCreate(h)
    \/ \E r \in Repo : LookUpRemoved(h, r) \/ CleanupRepository(h, r)

Step(h) ==
    \/ Progress(h) \/ FetchFails(h)
    \/ \E e \in events : Receive(h, e)
    \/ \E i \in Installation : RequestSync(h, i) \/ \E r \in Repo : ConnectFetch(h, i, r)

UserStep ==
    \/ SignIn
    \/ \E r \in Repo : UpdateSettings(r) \/ \E active \in BOOLEAN : SetActive(r, active)

Next == GitHubStep \/ UserStep \/ Crash \/ \E h \in Handler : Step(h)

(***************************************************************************)
(* A handler that was started goes on: the event loop runs what is ready.  *)
(***************************************************************************)
Spec == Init /\ [][Next]_vars /\ \A h \in Handler : WF_vars(Progress(h))

-----------------------------------------------------------------------------
(***************************************************************************)
(* Properties                                                              *)
(***************************************************************************)

Consistent(i) ==
    /\ ActiveRowsOf(i) = access[i]
    /\ (installation[i] = "active") = (github[i] = "installed")

(***************************************************************************)
(* When no two handlers overlapped, nothing failed and nobody edited the   *)
(* table by hand, then once every delivery is handled, in whatever order,  *)
(* the table says what GitHub says: a list that changed between two of its *)
(* pages is mended by the sync of the delivery that announced the change.  *)
(***************************************************************************)
QuietIsConsistent ==
    (~disturbed /\ events = {} /\ \A h \in Handler : handler[h].pc = "idle")
        => \A i \in Installation : Consistent(i)

(***************************************************************************)
(* The settings a user chose survive every sync, deactivation and          *)
(* revocation of other repositories; only the revocation of the repository *)
(* itself may lose them, with its row.                                     *)
(***************************************************************************)
SettingsSurvive ==
    \A r \in customised :
        (\A i \in Installation : <<i, r>> \notin revoked) => (row[r] # NoRow /\ row[r].custom)

(***************************************************************************)
(* Whatever went wrong before (overlapping syncs, lists applied late,      *)
(* failed requests, restarts), an installation DocPulse knows is described *)
(* as GitHub has it for good if only all installations are synced again    *)
(* and again.                                                              *)
(***************************************************************************)
Synced(i) == \E h \in Handler : handler[h].pc = "fetch" /\ handler[h].inst = i

RepeatedSyncRepairs ==
    (\A i \in Installation : []<>(Present(i) => Synced(i)))
        => <>[](\A i \in Installation : Present(i) => Consistent(i))
=============================================================================
