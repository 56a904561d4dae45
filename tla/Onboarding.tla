------------------------------ MODULE Onboarding ------------------------------
(***************************************************************************)
(* From signing in to the first list of repositories: one browser tab, the *)
(* session cookie, the App's installation at GitHub and its webhook, and   *)
(* the flow of github/callback/page.tsx that waits for the webhook, asks   *)
(* for a sync and moves on.                                                *)
(*                                                                         *)
(* A flow is an asynchronous function: it goes on when its page is gone,   *)
(* until the tab is loaded anew or leaves the application.  What a sync    *)
(* does to the rows of repositories is RepositorySync.                     *)
(***************************************************************************)
EXTENDS Naturals, FiniteSets

CONSTANTS
  Flow,        \* bound: flows of one load of the tab
  MaxRetries,  \* maxRetries: how often the webhook is asked for
  NoFlow,
  InitialLeft  \* bounds on what the user does and on what goes wrong

Kind == {"clicks", "expiries", "faults", "uninstalls"}

ASSUME OnboardingAssumption ==
  /\ IsFiniteSet(Flow) /\ Flow # {} /\ NoFlow \notin Flow
  /\ MaxRetries \in Nat \ {0}
  /\ InitialLeft \in [Kind -> Nat]

VARIABLES
  user,          \* the row of the user exists
  cookie,        \* access_token
  auth,          \* state of AuthProvider, asked for once per load
  page,          \* path, query parameters, the flow and the error of this mount
  flow,          \* the flows of this load
  request,       \* the sync a flow asked for, at the backend
  orphan,        \* bound: at most one sync of a forgotten flow still runs
  github,        \* the App at GitHub: "none", "installed" or "uninstalled"
  hook,          \* the delivery of installation.created
  installation,  \* the row of the installation
  left

vars == <<user, cookie, auth, page, flow, request, orphan, github, hook, installation, left>>
backend == <<user, installation, orphan>>
outside == <<github, hook>>

Path == {"root", "login", "github", "dashboard", "callback", "repositories"}
Dashboards == {"dashboard", "callback", "repositories"}
Sync == {"none", "background", "success"}
Error == {"none", "invalid", "webhook", "sync"}
Page == [path : Path, valid : BOOLEAN, sync : Sync, flow : Flow \cup {NoFlow}, error : Error]
FlowState == [pc : {"idle", "poll", "pause", "race", "redirect"},
              retryCount : 0..MaxRetries - 1, to : Sync]
Request == {"none", "sent", "synced", "revoked", "failed"}

TypeOK ==
  /\ user \in BOOLEAN
  /\ cookie \in {"none", "valid", "expired"}
  /\ auth \in {"loading", "in", "out"}
  /\ page \in Page
  /\ flow \in [Flow -> FlowState]
  /\ request \in [Flow -> Request]
  /\ orphan \in BOOLEAN
  /\ github \in {"none", "installed", "uninstalled"}
  /\ hook \in {"none", "sent", "handled"}
  /\ installation \in {"absent", "active", "inactive"}
  /\ left \in [Kind -> Nat]

Idle == [pc |-> "idle", retryCount |-> 0, to |-> "none"]
At(path) == [path |-> path, valid |-> TRUE, sync |-> "none", flow |-> NoFlow, error |-> "none"]

Init ==
  /\ user \in BOOLEAN
  /\ cookie \in {"none", "valid", "expired"} /\ (~user => cookie = "none")
  /\ auth = "loading"
  /\ page = At("root")
  /\ flow = [f \in Flow |-> Idle]
  /\ request = [f \in Flow |-> "none"] /\ orphan = FALSE
  /\ github = "none" /\ hook = "none" /\ installation = "absent"
  /\ left = InitialLeft

Spend(kind) == left[kind] > 0 /\ left' = [left EXCEPT ![kind] = @ - 1]
Budgeted(kind, happens) == IF happens THEN Spend(kind) ELSE UNCHANGED left

\* router.push: the page changes, everything else of the tab stays.
Push(p) == page' = p

\* A document is loaded: providers start anew and no flow of the old one is left.
\* What the backend was asked for goes on.
Load(p) ==
  /\ page' = p /\ auth' = "loading"
  /\ flow' = [f \in Flow |-> Idle]
  /\ UNCHANGED request

-----------------------------------------------------------------------------
(* The session. *)

\* checkAuth: any failure of /auth/me counts as signed out; /auth/refresh is never asked.
CheckAuth ==
  /\ auth = "loading" /\ page.path # "github"
  /\ \E lost \in BOOLEAN :
       /\ Budgeted("faults", lost)
       /\ auth' = IF cookie = "valid" /\ ~lost THEN "in" ELSE "out"
  /\ UNCHANGED <<cookie, page, flow, request, backend, outside>>

\* The effects of the root page, of the login page and of the dashboard's layout.
\* Mutant: the login page asks only whether the provider is done loading.
ForwardedHasty(path) ==
  CASE path = "root" -> IF auth = "in" THEN "dashboard" ELSE "login"
    [] path = "login" -> "dashboard"
    [] path \in Dashboards /\ auth = "out" -> "login"
    [] OTHER -> path
Forwarded(path) ==
  CASE path = "root" -> IF auth = "in" THEN "dashboard" ELSE "login"
    [] path = "login" /\ auth = "in" -> "dashboard"
    [] path \in Dashboards /\ auth = "out" -> "login"
    [] OTHER -> path

Forward ==
  /\ auth # "loading" /\ Forwarded(page.path) # page.path
  /\ Push(At(Forwarded(page.path)))
  /\ UNCHANGED <<cookie, auth, flow, request, backend, outside, left>>

\* The login button leaves for GitHub.
Login ==
  /\ page.path = "login" /\ auth = "out"
  /\ Load(At("github"))
  /\ UNCHANGED <<cookie, backend, outside, left>>

\* githubCallback: the user's row, the cookies, and back to the dashboard.
GithubCallback ==
  /\ page.path = "github"
  /\ user' = TRUE /\ cookie' = "valid"
  /\ Load(At("dashboard"))
  /\ UNCHANGED <<installation, orphan, outside, left>>

\* A logout that fails leaves everything as it is.
Logout ==
  /\ auth = "in" /\ page.path \in Dashboards /\ Spend("clicks")
  /\ cookie' = "none" /\ auth' = "out"
  /\ UNCHANGED <<page, flow, request, backend, outside>>

\* The token is good for 15 minutes.
Expire ==
  /\ cookie = "valid" /\ Spend("expiries")
  /\ cookie' = "expired"
  /\ UNCHANGED <<auth, page, flow, request, backend, outside>>

-----------------------------------------------------------------------------
(* GitHub. *)

\* The App is installed, by anybody, and GitHub leads to the callback page.
\* setup_action is "request" when an owner has to agree: nothing is installed then.
Install ==
  /\ page.path # "github" /\ Spend("clicks")
  /\ \E granted \in BOOLEAN :
       /\ Load([At("callback") EXCEPT !.valid = granted])
       /\ IF granted /\ github # "installed"
            THEN github' = "installed" /\ hook' = "sent"
            ELSE UNCHANGED outside
  /\ UNCHANGED <<cookie, backend>>

Uninstall ==
  /\ github = "installed" /\ Spend("uninstalls")
  /\ github' = "uninstalled"
  /\ UNCHANGED <<cookie, auth, page, flow, request, backend, hook>>

\* handleInstallationCreated: linked only to a user who has signed in before.
InstallationCreated ==
  /\ hook = "sent" /\ hook' = "handled"
  /\ installation' = IF user THEN "active" ELSE installation
  /\ UNCHANGED <<user, cookie, auth, page, flow, request, orphan, github, left>>

\* handleInstallationDeleted.
InstallationDeleted ==
  /\ github = "uninstalled" /\ installation = "active"
  /\ installation' = "inactive"
  /\ UNCHANGED <<user, cookie, auth, page, flow, request, orphan, outside, left>>

-----------------------------------------------------------------------------
(* startOnboarding. *)

Fail(f, error) == page' = IF page.flow = f THEN [page EXCEPT !.error = error] ELSE page
Keep == UNCHANGED <<cookie, auth, backend, outside>>

\* The page is mounted below the layout and starts its flow, once per mount.
Mount ==
  /\ page.path = "callback" /\ auth = "in" /\ page.flow = NoFlow /\ page.error = "none"
  /\ IF page.valid
       THEN \E f \in Flow :
              /\ flow[f].pc = "idle"
              /\ flow' = [flow EXCEPT ![f] = [Idle EXCEPT !.pc = "poll"]]
              /\ orphan' = (orphan \/ request[f] = "sent")
              /\ request' = [request EXCEPT ![f] = "none"]
              /\ page' = [page EXCEPT !.flow = f]
       ELSE page' = [page EXCEPT !.error = "invalid"] /\ UNCHANGED <<flow, request, orphan>>
  /\ UNCHANGED <<user, cookie, auth, installation, outside, left>>

\* getInstallations lists inactive installations too.
Verified == cookie = "valid" /\ installation # "absent"

PollFinds(f) ==
  /\ flow[f].pc = "poll" /\ Verified
  /\ flow' = [flow EXCEPT ![f].pc = "race"]
  /\ request' = [request EXCEPT ![f] = "sent"]
  /\ UNCHANGED <<page, left>> /\ Keep

\* Not there yet, not signed in any more, or not answered: one try less.
\* Mutant: only an answer without the installation counts as a try.
PollMissesUncounted(f) ==
  LET failed == installation # "absent" \/ cookie # "valid" IN
  /\ flow[f].pc = "poll"
  /\ Budgeted("faults", Verified)
  /\ IF flow[f].retryCount + 1 < MaxRetries \/ failed
       THEN flow' = [flow EXCEPT ![f].pc = "pause", ![f].retryCount = IF failed THEN @ ELSE @ + 1]
            /\ UNCHANGED page
       ELSE flow' = [flow EXCEPT ![f] = Idle] /\ Fail(f, "webhook")
  /\ UNCHANGED request /\ Keep
PollMisses(f) ==
  /\ flow[f].pc = "poll"
  /\ Budgeted("faults", Verified)
  /\ IF flow[f].retryCount + 1 < MaxRetries
       THEN flow' = [flow EXCEPT ![f].pc = "pause", ![f].retryCount = @ + 1] /\ UNCHANGED page
       ELSE flow' = [flow EXCEPT ![f] = Idle] /\ Fail(f, "webhook")
  /\ UNCHANGED request /\ Keep

PauseOver(f) ==
  /\ flow[f].pc = "pause"
  /\ flow' = [flow EXCEPT ![f].pc = "poll"]
  /\ UNCHANGED <<page, request, left>> /\ Keep

\* syncInstallationRepositories.  Without a token from GitHub the installation is
\* deactivated, and that is a success with nothing synced.
Synced(answer) ==
  \/ answer = "synced" /\ cookie = "valid" /\ github = "installed"
     /\ installation' = "active" /\ UNCHANGED left
  \/ answer = "revoked" /\ cookie = "valid" /\ installation' = "inactive"
     /\ Budgeted("faults", github = "installed")
  \/ answer = "failed" /\ UNCHANGED installation
     /\ Budgeted("faults", cookie = "valid")

ServeSync(f) ==
  /\ request[f] = "sent"
  /\ \E answer \in {"synced", "revoked", "failed"} :
       Synced(answer) /\ request' = [request EXCEPT ![f] = answer]
  /\ UNCHANGED <<user, cookie, auth, page, flow, orphan, outside>>

ServeOrphan ==
  /\ orphan /\ orphan' = FALSE
  /\ \E answer \in {"synced", "revoked", "failed"} : Synced(answer)
  /\ UNCHANGED <<user, cookie, auth, page, flow, request, outside>>

\* Promise.race: what settles first decides.
SyncAnswered(f) ==
  /\ flow[f].pc = "race"
  /\ \/ /\ request[f] \in {"synced", "revoked"}
        /\ flow' = [flow EXCEPT ![f].pc = "redirect", ![f].to = "success"]
        /\ UNCHANGED page
     \/ /\ request[f] = "failed"
        /\ flow' = [flow EXCEPT ![f] = Idle] /\ Fail(f, "sync")
  /\ UNCHANGED <<request, left>> /\ Keep

\* Mutant: the timer's null is not told from a result.
TimerTakenForResult(f) ==
  /\ flow[f].pc = "race"
  /\ flow' = [flow EXCEPT ![f].pc = "redirect", ![f].to = "success"]
  /\ UNCHANGED <<page, request, left>> /\ Keep
SyncTimesOut(f) ==
  /\ flow[f].pc = "race"
  /\ flow' = [flow EXCEPT ![f].pc = "redirect", ![f].to = "background"]
  /\ UNCHANGED <<page, request, left>> /\ Keep

\* After 1.5 s, wherever in the application the user is by then.
Redirect(f) ==
  /\ flow[f].pc = "redirect"
  /\ Push([At("repositories") EXCEPT !.sync = flow[f].to, !.flow = f])
  /\ flow' = [flow EXCEPT ![f] = Idle]
  /\ UNCHANGED <<request, left>> /\ Keep

-----------------------------------------------------------------------------
(* What the user does to the tab. *)

Skip ==
  /\ page.path = "callback" /\ auth = "in" /\ page.error = "none" /\ Spend("clicks")
  /\ Push([At("repositories") EXCEPT !.sync = "background"])
  /\ UNCHANGED <<flow, request>> /\ Keep

\* A link, or the browser's way back to the callback page.
Navigate ==
  /\ auth = "in" /\ page.path \in Dashboards /\ Spend("clicks")
  /\ \E path \in Dashboards \ {page.path} : Push(At(path))
  /\ UNCHANGED <<flow, request>> /\ Keep

\* Also "Try Again".
Reload ==
  /\ page.path # "github" /\ Spend("clicks")
  /\ Load(IF page.path = "callback" THEN [At("callback") EXCEPT !.valid = page.valid] ELSE page)
  /\ UNCHANGED <<cookie, backend, outside>>

-----------------------------------------------------------------------------
Timely(f) ==
  PollFinds(f) \/ PollMisses(f) \/ PauseOver(f) \/ SyncTimesOut(f) \/ Redirect(f)

Next ==
  \/ CheckAuth \/ Forward \/ Login \/ GithubCallback \/ Logout \/ Expire
  \/ Install \/ Uninstall \/ InstallationCreated \/ InstallationDeleted
  \/ Mount \/ \E f \in Flow : Timely(f) \/ ServeSync(f) \/ SyncAnswered(f)
  \/ ServeOrphan \/ Skip \/ Navigate \/ Reload

\* The browser runs effects and timers and, sooner or later, gives up a request that is
\* not answered.  Nothing is assumed of the user, of GitHub or of the sync.
Spec ==
  /\ Init /\ [][Next]_vars
  /\ WF_vars(CheckAuth) /\ WF_vars(Forward) /\ WF_vars(Mount)
  /\ \A f \in Flow : WF_vars(Timely(f))

-----------------------------------------------------------------------------
(* "Onboarding completed! Your repositories have been synchronized" is shown by a
   flow only after the backend answered its sync, also when the timer, the end of
   the sync and the user's own way through the pages come in any order. *)
SuccessIsTrue ==
  page.path = "repositories" /\ page.sync = "success"
    => page.flow \in Flow /\ request[page.flow] \in {"synced", "revoked"}

(* Who comes to the callback page is not left waiting there: the page is left or
   says what is wrong, whether or not GitHub's webhook, the session or the sync
   ever come to anything. *)
OnboardingEnds ==
  page.path = "callback" ~> (page.path # "callback" \/ page.error # "none")

(* The pages that send a visitor elsewhere (root, login, the dashboard's layout, the
   end of a flow) do not send him round in circles: when the user has stopped
   clicking, the tab comes to rest on one page. *)
NavigationSettles == <>[][page'.path = page.path]_vars
=============================================================================
