-------------------------- MODULE OnboardingProofs --------------------------
(***************************************************************************)
(* What the pages say is so, for any number of flows that one load of the  *)
(* tab starts and any number of clicks, expired tokens and faults.         *)
(***************************************************************************)
EXTENDS Onboarding, TLAPS

\* Answered and not failed.
Answered == {"synced", "revoked"}

\* A flow that is about to report success has its answer.
FlowsInv ==
  \A f \in Flow : flow[f].pc = "redirect" /\ flow[f].to = "success" => request[f] \in Answered

\* The page that reports success knows its flow, which is over and is not started
\* again as long as the page is shown.
PageInv ==
  page.path = "repositories" /\ page.sync = "success" =>
    page.flow \in Flow /\ request[page.flow] \in Answered /\ flow[page.flow].pc = "idle"

OnboardingInv == TypeOK /\ FlowsInv /\ PageInv

-----------------------------------------------------------------------------
(* Pages and flows. *)

\* A page stays one when a part of it is replaced.
LEMMA PageFields ==
  /\ \A path \in Path : /\ At(path) \in Page /\ At(path).sync = "none"
                        /\ \A valid \in BOOLEAN : [At(path) EXCEPT !.valid = valid] \in Page
                        /\ \A sync \in Sync : [At(path) EXCEPT !.sync = sync] \in Page
                        /\ \A sync \in Sync, f \in Flow :
                             [At(path) EXCEPT !.sync = sync, !.flow = f] \in Page
  /\ \A p \in Page : /\ \A error \in Error : [p EXCEPT !.error = error] \in Page
                     /\ \A f \in Flow : [p EXCEPT !.flow = f] \in Page
BY DEF At, Page, Path, Sync, Error

\* So does the state of a flow.
LEMMA FlowFields ==
  /\ Idle \in FlowState /\ Idle.pc = "idle"
  /\ [Idle EXCEPT !.pc = "poll"] \in FlowState
  /\ \A s \in FlowState :
       /\ \A pc \in {"poll", "pause", "race", "redirect"} : [s EXCEPT !.pc = pc] \in FlowState
       /\ \A to \in Sync : [s EXCEPT !.pc = "redirect", !.to = to] \in FlowState
       /\ s.retryCount + 1 < MaxRetries => [s EXCEPT !.pc = "pause", !.retryCount = @ + 1] \in FlowState
<1>1. 0 \in 0..MaxRetries - 1
  BY OnboardingAssumption
<1>2. \A n \in 0..MaxRetries - 1 : n + 1 < MaxRetries => n + 1 \in 0..MaxRetries - 1
  BY OnboardingAssumption
<1> QED
  BY <1>1, <1>2 DEF Idle, FlowState, Sync

\* What is spent.
LEMMA Spending ==
  ASSUME left \in [Kind -> Nat], NEW kind \in Kind, Spend(kind)
  PROVE  left' \in [Kind -> Nat]
BY DEF Spend

-----------------------------------------------------------------------------
(* One lemma for each part of the system. *)

\* Loading a document forgets the flows and keeps what the backend was asked for.
LEMMA LoadKeeps ==
  ASSUME OnboardingInv, NEW p \in Page, Load(p),
         p.path = "repositories" /\ p.sync = "success" => p = page
  PROVE  /\ page' \in Page /\ auth' \in {"loading", "in", "out"}
         /\ flow' \in [Flow -> FlowState] /\ request' \in [Flow -> Request]
         /\ FlowsInv' /\ PageInv'
<1>1. page' = p /\ auth' = "loading" /\ flow' = [f \in Flow |-> Idle] /\ request' = request
  BY DEF Load
<1>2. flow' \in [Flow -> FlowState] /\ \A f \in Flow : flow'[f].pc = "idle"
  BY <1>1, FlowFields
<1>3. FlowsInv'
  BY <1>2 DEF FlowsInv
<1>4. PageInv'
  BY <1>1, <1>2 DEF PageInv, OnboardingInv
<1> QED
  BY <1>1, <1>2, <1>3, <1>4 DEF OnboardingInv, TypeOK

\* The session.
LEMMA SessionStep ==
  ASSUME OnboardingInv, CheckAuth \/ Forward \/ Login \/ GithubCallback \/ Logout \/ Expire
  PROVE  OnboardingInv'
<1> USE DEF backend, outside, Kind
<1>1. TypeOK /\ FlowsInv /\ PageInv
  BY DEF OnboardingInv
<1>2. CASE CheckAuth
  <2>1. left' \in [Kind -> Nat]
    BY <1>1, <1>2, Spending DEF CheckAuth, Budgeted, TypeOK
  <2> QED
    BY <1>1, <1>2, <2>1 DEF CheckAuth, OnboardingInv, TypeOK, FlowsInv, PageInv
<1>3. CASE Forward
  <2>1. Forwarded(page.path) \in Path
    BY <1>1 DEF Forwarded, TypeOK, Page, Path
  <2>2. page' \in Page /\ page'.sync = "none"
    BY <1>3, <2>1, PageFields DEF Forward, Push
  <2> QED
    BY <1>1, <1>3, <2>2 DEF Forward, OnboardingInv, TypeOK, FlowsInv, PageInv
<1>4. CASE Login \/ GithubCallback
  <2>1. \E path \in {"github", "dashboard"} : Load(At(path))
    BY <1>4 DEF Login, GithubCallback
  <2>2. \A path \in {"github", "dashboard"} : At(path) \in Page /\ At(path).sync = "none"
    BY PageFields DEF Path
  <2>3. /\ page' \in Page /\ auth' \in {"loading", "in", "out"}
        /\ flow' \in [Flow -> FlowState] /\ request' \in [Flow -> Request]
        /\ FlowsInv' /\ PageInv'
    BY <2>1, <2>2, LoadKeeps
  <2> QED
    BY <1>1, <1>4, <2>3 DEF Login, GithubCallback, OnboardingInv, TypeOK
<1>5. CASE Logout \/ Expire
  <2>1. left' \in [Kind -> Nat]
    BY <1>1, <1>5, Spending DEF Logout, Expire, TypeOK
  <2> QED
    BY <1>1, <1>5, <2>1 DEF Logout, Expire, OnboardingInv, TypeOK, FlowsInv, PageInv
<1> QED
  BY <1>2, <1>3, <1>4, <1>5

\* GitHub and its webhook.
LEMMA GitHubStep ==
  ASSUME OnboardingInv, Install \/ Uninstall \/ InstallationCreated \/ InstallationDeleted
  PROVE  OnboardingInv'
<1> USE DEF backend, outside, Kind
<1>1. TypeOK /\ FlowsInv /\ PageInv
  BY DEF OnboardingInv
<1>2. CASE Install
  <2>1. PICK granted \in BOOLEAN : Load([At("callback") EXCEPT !.valid = granted])
    BY <1>2 DEF Install
  <2>2. /\ [At("callback") EXCEPT !.valid = granted] \in Page
        /\ [At("callback") EXCEPT !.valid = granted].sync = "none"
    <3>1. [At("callback") EXCEPT !.valid = granted] \in Page
      BY PageFields DEF Path
    <3> QED
      BY <3>1 DEF At
  <2>3. /\ page' \in Page /\ auth' \in {"loading", "in", "out"}
        /\ flow' \in [Flow -> FlowState] /\ request' \in [Flow -> Request]
        /\ FlowsInv' /\ PageInv'
    BY <2>1, <2>2, LoadKeeps
  <2>4. left' \in [Kind -> Nat]
    BY <1>1, <1>2, Spending DEF Install, TypeOK
  <2> QED
    BY <1>1, <1>2, <2>3, <2>4 DEF Install, OnboardingInv, TypeOK
<1>3. CASE Uninstall
  <2>1. left' \in [Kind -> Nat]
    BY <1>1, <1>3, Spending DEF Uninstall, TypeOK
  <2> QED
    BY <1>1, <1>3, <2>1 DEF Uninstall, OnboardingInv, TypeOK, FlowsInv, PageInv
<1>4. CASE InstallationCreated \/ InstallationDeleted
  BY <1>1, <1>4 DEF InstallationCreated, InstallationDeleted, OnboardingInv, TypeOK, FlowsInv, PageInv
<1> QED
  BY <1>2, <1>3, <1>4

\* The page starts a flow: no flow reports its end on this page meanwhile.
LEMMA MountStep ==
  ASSUME OnboardingInv, Mount
  PROVE  OnboardingInv'
<1> USE DEF backend, outside
<1>1. TypeOK /\ FlowsInv /\ PageInv /\ page.path = "callback" /\ page \in Page
  BY DEF OnboardingInv, Mount, TypeOK
<1>2. CASE page.valid
  <2>1. PICK f \in Flow : /\ flow[f].pc = "idle"
                          /\ flow' = [flow EXCEPT ![f] = [Idle EXCEPT !.pc = "poll"]]
                          /\ request' = [request EXCEPT ![f] = "none"]
                          /\ page' = [page EXCEPT !.flow = f]
                          /\ orphan' = (orphan \/ request[f] = "sent")
    BY <1>2 DEF Mount
  <2>2. flow' \in [Flow -> FlowState] /\ request' \in [Flow -> Request]
    BY <1>1, <2>1, FlowFields DEF TypeOK, Request
  <2>3. page' \in Page /\ page'.path = "callback"
    BY <1>1, <2>1, PageFields DEF Page
  <2>4. FlowsInv'
    <3>1. ASSUME NEW g \in Flow, flow'[g].pc = "redirect", flow'[g].to = "success"
          PROVE  request'[g] \in Answered
      <4>1. g # f
        BY <1>1, <2>1, <3>1 DEF Idle, TypeOK
      <4> QED
        BY <1>1, <2>1, <3>1, <4>1 DEF FlowsInv, TypeOK
    <3> QED
      BY <3>1 DEF FlowsInv
  <2>5. PageInv'
    BY <2>3 DEF PageInv
  <2> QED
    BY <1>1, <2>1, <2>2, <2>3, <2>4, <2>5 DEF Mount, OnboardingInv, TypeOK
<1>3. CASE ~page.valid
  <2>1. page' = [page EXCEPT !.error = "invalid"] /\ "invalid" \in Error
    BY <1>3 DEF Mount, Error
  <2>2. page' \in Page /\ page'.path = "callback"
    BY <1>1, <2>1, PageFields DEF Page
  <2> QED
    BY <1>1, <1>3, <2>2 DEF Mount, OnboardingInv, TypeOK, FlowsInv, PageInv
<1> QED
  BY <1>2, <1>3

\* A flow goes on: another state of its own, the same requests, and either an error
\* on its page or a page that says no success.
LEMMA FlowGoesOn ==
  ASSUME OnboardingInv, NEW f \in Flow, NEW s \in FlowState,
         flow' = [flow EXCEPT ![f] = s], UNCHANGED request,
         s.pc = "redirect" /\ s.to = "success" => request[f] \in Answered,
         \/ UNCHANGED page
         \/ \E error \in Error : Fail(f, error)
         \/ page' \in Page /\ page'.sync = "none",
         flow[f].pc # "idle"
  PROVE  flow' \in [Flow -> FlowState] /\ page' \in Page /\ FlowsInv' /\ PageInv'
<1>1. TypeOK /\ FlowsInv /\ PageInv /\ page \in Page /\ flow \in [Flow -> FlowState]
  BY DEF OnboardingInv, TypeOK
<1>2. flow' \in [Flow -> FlowState]
  BY <1>1
<1>3. /\ page' \in Page
      /\ \/ page'.path = page.path /\ page'.sync = page.sync /\ page'.flow = page.flow
         \/ page'.sync = "none"
  <2>1. CASE UNCHANGED page
    BY <1>1, <2>1
  <2>2. CASE \E error \in Error : Fail(f, error)
    <3>1. PICK error \in Error : page' = page \/ page' = [page EXCEPT !.error = error]
      BY <2>2 DEF Fail
    <3>2. [page EXCEPT !.error = error] \in Page
      BY <1>1, PageFields
    <3> QED
      BY <1>1, <3>1, <3>2 DEF Page
  <2>3. CASE page' \in Page /\ page'.sync = "none"
    BY <2>3
  <2> QED
    BY <2>1, <2>2, <2>3
<1>4. FlowsInv'
  <2>1. ASSUME NEW g \in Flow, flow'[g].pc = "redirect", flow'[g].to = "success"
        PROVE  request'[g] \in Answered
    BY <1>1, <2>1 DEF FlowsInv
  <2> QED
    BY <2>1 DEF FlowsInv
<1>5. PageInv'
  BY <1>1, <1>3 DEF PageInv
<1> QED
  BY <1>2, <1>3, <1>4, <1>5

\* What the flows themselves do.
LEMMA FlowStep ==
  ASSUME OnboardingInv, NEW f \in Flow,
         PollMisses(f) \/ PauseOver(f) \/ SyncAnswered(f) \/ SyncTimesOut(f)
  PROVE  OnboardingInv'
<1> USE DEF backend, outside, Kind, Keep
<1>1. TypeOK /\ FlowsInv /\ PageInv /\ flow[f] \in FlowState /\ flow \in [Flow -> FlowState]
  BY DEF OnboardingInv, TypeOK
<1>2. "webhook" \in Error /\ "sync" \in Error /\ "success" \in Sync /\ "background" \in Sync
  BY DEF Error, Sync
<1>3. UNCHANGED <<request, cookie, auth, user, installation, orphan, github, hook>> /\ flow[f].pc # "idle"
  BY DEF PollMisses, PauseOver, SyncAnswered, SyncTimesOut
<1>4. left' \in [Kind -> Nat]
  BY <1>1, Spending DEF PollMisses, PauseOver, SyncAnswered, SyncTimesOut, Budgeted, TypeOK
<1>5. flow' \in [Flow -> FlowState] /\ page' \in Page /\ FlowsInv' /\ PageInv'
  <2>1. CASE PollMisses(f)
    <3>1. CASE flow[f].retryCount + 1 < MaxRetries
      <4> DEFINE s == [flow[f] EXCEPT !.pc = "pause", !.retryCount = @ + 1]
      <4>1. s \in FlowState
        BY <1>1, <3>1, FlowFields
      <4>2. s.pc = "pause"
        BY <1>1 DEF FlowState
      <4>3. flow' = [flow EXCEPT ![f] = s] /\ UNCHANGED page
        BY <2>1, <3>1 DEF PollMisses
      <4> HIDE DEF s
      <4> QED
        BY <1>3, <4>1, <4>2, <4>3, FlowGoesOn
    <3>2. CASE ~(flow[f].retryCount + 1 < MaxRetries)
      <4>1. flow' = [flow EXCEPT ![f] = Idle] /\ Fail(f, "webhook")
        BY <2>1, <3>2 DEF PollMisses
      <4> QED
        BY <1>2, <1>3, <4>1, FlowFields, FlowGoesOn
    <3> QED
      BY <3>1, <3>2
  <2>2. CASE PauseOver(f)
    <3> DEFINE s == [flow[f] EXCEPT !.pc = "poll"]
    <3>1. s \in FlowState
      BY <1>1, FlowFields
    <3>2. s.pc = "poll"
      BY <1>1 DEF FlowState
    <3>3. flow' = [flow EXCEPT ![f] = s] /\ UNCHANGED page
      BY <2>2 DEF PauseOver
    <3> HIDE DEF s
    <3> QED
      BY <1>3, <3>1, <3>2, <3>3, FlowGoesOn
  <2>3. ASSUME NEW to \in Sync, to = "success" => request[f] \in Answered,
               flow' = [flow EXCEPT ![f].pc = "redirect", ![f].to = to], UNCHANGED page
        PROVE  flow' \in [Flow -> FlowState] /\ page' \in Page /\ FlowsInv' /\ PageInv'
    <3> DEFINE s == [flow[f] EXCEPT !.pc = "redirect", !.to = to]
    <3>1. s \in FlowState
      BY <1>1, FlowFields
    <3>2. s.to = to
      BY <1>1 DEF FlowState
    <3>3. flow' = [flow EXCEPT ![f] = s]
      BY <1>1, <2>3
    <3> HIDE DEF s
    <3> QED
      BY <1>3, <2>3, <3>1, <3>2, <3>3, FlowGoesOn
  <2>4. CASE SyncTimesOut(f)
    BY <1>2, <2>3, <2>4 DEF SyncTimesOut
  <2>5. CASE SyncAnswered(f)
    <3>1. CASE request[f] \in Answered
      BY <1>2, <2>3, <2>5, <3>1 DEF SyncAnswered, Answered
    <3>2. CASE request[f] \notin Answered
      <4>1. flow' = [flow EXCEPT ![f] = Idle] /\ Fail(f, "sync")
        BY <2>5, <3>2 DEF SyncAnswered, Answered
      <4> QED
        BY <1>2, <1>3, <4>1, FlowFields, FlowGoesOn
    <3> QED
      BY <3>1, <3>2
  <2> QED
    BY <2>1, <2>2, <2>4, <2>5
<1> QED
  BY <1>1, <1>3, <1>4, <1>5 DEF OnboardingInv, TypeOK

\* The end of a flow and the request it makes.
LEMMA FlowActs ==
  ASSUME OnboardingInv, NEW f \in Flow, PollFinds(f) \/ Redirect(f)
  PROVE  OnboardingInv'
<1> USE DEF backend, outside, Keep
<1>1. TypeOK /\ FlowsInv /\ PageInv /\ flow[f] \in FlowState /\ flow \in [Flow -> FlowState]
      /\ page \in Page /\ request \in [Flow -> Request]
  BY DEF OnboardingInv, TypeOK
<1>2. CASE PollFinds(f)
  <2>1. /\ flow[f].pc = "poll" /\ page' = page
        /\ flow' = [flow EXCEPT ![f].pc = "race"] /\ request' = [request EXCEPT ![f] = "sent"]
    BY <1>2 DEF PollFinds
  <2>2. [flow[f] EXCEPT !.pc = "race"] \in FlowState /\ [flow[f] EXCEPT !.pc = "race"].pc = "race"
    <3>1. [flow[f] EXCEPT !.pc = "race"] \in FlowState
      BY <1>1, FlowFields
    <3> QED
      BY <1>1, <3>1 DEF FlowState
  <2>3. /\ flow' \in [Flow -> FlowState] /\ flow'[f].pc = "race"
        /\ request' \in [Flow -> Request]
        /\ \A g \in Flow \ {f} : flow'[g] = flow[g] /\ request'[g] = request[g]
    BY <1>1, <2>1, <2>2 DEF Request
  <2>4. FlowsInv'
    BY <1>1, <2>3 DEF FlowsInv
  <2>5. PageInv'
    BY <1>1, <2>1, <2>3 DEF PageInv
  <2> QED
    BY <1>1, <1>2, <2>1, <2>3, <2>4, <2>5 DEF PollFinds, OnboardingInv, TypeOK
<1>3. CASE Redirect(f)
  <2> DEFINE to == flow[f].to
  <2>1. /\ flow[f].pc = "redirect" /\ request' = request
        /\ page' = [At("repositories") EXCEPT !.sync = to, !.flow = f]
        /\ flow' = [flow EXCEPT ![f] = Idle]
    BY <1>3 DEF Redirect, Push
  <2>2. to \in Sync
    BY <1>1 DEF FlowState
  <2>3. page' \in Page /\ page'.sync = to /\ page'.flow = f
    <3>1. [At("repositories") EXCEPT !.sync = to, !.flow = f] \in Page
      BY <2>2, PageFields DEF Path
    <3>2. /\ [At("repositories") EXCEPT !.sync = to, !.flow = f].sync = to
          /\ [At("repositories") EXCEPT !.sync = to, !.flow = f].flow = f
      BY DEF At
    <3> QED
      BY <2>1, <3>1, <3>2
  <2>4. /\ flow' \in [Flow -> FlowState] /\ flow'[f].pc = "idle"
        /\ \A g \in Flow \ {f} : flow'[g] = flow[g]
    BY <1>1, <2>1, FlowFields
  <2>5. to = "success" => request[f] \in Answered
    BY <1>1, <2>1 DEF FlowsInv
  <2>6. FlowsInv'
    BY <1>1, <2>1, <2>4 DEF FlowsInv
  <2>7. PageInv'
    BY <2>1, <2>3, <2>4, <2>5 DEF PageInv
  <2> QED
    BY <1>1, <1>3, <2>1, <2>3, <2>4, <2>6, <2>7 DEF Redirect, OnboardingInv, TypeOK
<1> QED
  BY <1>2, <1>3

\* The backend answers.
LEMMA SyncStep ==
  ASSUME OnboardingInv, ServeOrphan \/ \E f \in Flow : ServeSync(f)
  PROVE  OnboardingInv'
<1> USE DEF backend, outside, Kind
<1>1. TypeOK /\ FlowsInv /\ PageInv /\ request \in [Flow -> Request]
  BY DEF OnboardingInv, TypeOK
<1>2. ASSUME NEW answer \in {"synced", "revoked", "failed"}, Synced(answer)
      PROVE  installation' \in {"absent", "active", "inactive"} /\ left' \in [Kind -> Nat]
  BY <1>1, <1>2, Spending DEF Synced, Budgeted, TypeOK
<1>3. CASE ServeOrphan
  <2>1. installation' \in {"absent", "active", "inactive"} /\ left' \in [Kind -> Nat]
    BY <1>2, <1>3 DEF ServeOrphan
  <2> QED
    BY <1>1, <1>3, <2>1 DEF ServeOrphan, OnboardingInv, TypeOK, FlowsInv, PageInv
<1>4. ASSUME NEW f \in Flow, ServeSync(f)
      PROVE  OnboardingInv'
  <2>1. PICK answer \in {"synced", "revoked", "failed"} :
          Synced(answer) /\ request' = [request EXCEPT ![f] = answer] /\ request[f] = "sent"
    BY <1>4 DEF ServeSync
  <2>2. request' \in [Flow -> Request] /\ \A g \in Flow \ {f} : request'[g] = request[g]
    BY <1>1, <2>1 DEF Request
  <2>3. flow' = flow /\ page' = page
    BY <1>4 DEF ServeSync
  <2>4. request[f] \notin Answered
    BY <2>1 DEF Answered
  <2>5. FlowsInv'
    BY <1>1, <2>2, <2>3, <2>4 DEF FlowsInv
  <2>6. PageInv'
    BY <1>1, <2>2, <2>3, <2>4 DEF PageInv
  <2> QED
    BY <1>1, <1>2, <1>4, <2>1, <2>2, <2>3, <2>5, <2>6 DEF ServeSync, OnboardingInv, TypeOK
<1> QED
  BY <1>3, <1>4

\* What the user does to the tab.
LEMMA UserStep ==
  ASSUME OnboardingInv, Skip \/ Navigate \/ Reload
  PROVE  OnboardingInv'
<1> USE DEF backend, outside, Kind, Keep
<1>1. TypeOK /\ FlowsInv /\ PageInv /\ page \in Page /\ page.path \in Path
  BY DEF OnboardingInv, TypeOK, Page
<1>2. left' \in [Kind -> Nat]
  BY <1>1, Spending DEF Skip, Navigate, Reload, TypeOK
<1>3. CASE Skip \/ Navigate
  <2>1. page' \in Page /\ page'.sync # "success"
    <3>1. CASE Skip
      <4>1. page' = [At("repositories") EXCEPT !.sync = "background"]
        BY <3>1 DEF Skip, Push
      <4>2. [At("repositories") EXCEPT !.sync = "background"] \in Page
        BY PageFields DEF Path, Sync
      <4>3. [At("repositories") EXCEPT !.sync = "background"].sync = "background"
        BY DEF At
      <4> QED
        BY <4>1, <4>2, <4>3
    <3>2. CASE Navigate
      <4>1. PICK path \in Dashboards : page' = At(path)
        BY <3>2 DEF Navigate, Push
      <4> QED
        BY <4>1, PageFields DEF Dashboards, Path
    <3> QED
      BY <1>3, <3>1, <3>2
  <2> QED
    BY <1>1, <1>2, <1>3, <2>1 DEF Skip, Navigate, OnboardingInv, TypeOK, FlowsInv, PageInv
<1>4. CASE Reload
  <2> DEFINE p == IF page.path = "callback" THEN [At("callback") EXCEPT !.valid = page.valid] ELSE page
  <2>1. page.valid \in BOOLEAN
    BY <1>1 DEF Page
  <2>2. p \in Page /\ (p = page \/ p.sync = "none")
    <3>1. [At("callback") EXCEPT !.valid = page.valid] \in Page
      BY <2>1, PageFields DEF Path
    <3>2. [At("callback") EXCEPT !.valid = page.valid].sync = "none"
      BY DEF At
    <3> QED
      BY <1>1, <3>1, <3>2
  <2>3. Load(p)
    BY <1>4 DEF Reload
  <2> HIDE DEF p
  <2>4. /\ page' \in Page /\ auth' \in {"loading", "in", "out"}
        /\ flow' \in [Flow -> FlowState] /\ request' \in [Flow -> Request]
        /\ FlowsInv' /\ PageInv'
    BY <2>2, <2>3, LoadKeeps
  <2> QED
    BY <1>1, <1>2, <1>4, <2>4 DEF Reload, OnboardingInv, TypeOK
<1> QED
  BY <1>3, <1>4

-----------------------------------------------------------------------------
(* The invariant and the theorems. *)

LEMMA OnboardingInit == Init => OnboardingInv
<1> SUFFICES ASSUME Init PROVE OnboardingInv
  OBVIOUS
<1>1. At("root") \in Page /\ At("root").sync = "none"
  BY PageFields DEF Path
<1>2. flow \in [Flow -> FlowState] /\ \A f \in Flow : flow[f].pc = "idle"
  BY FlowFields DEF Init
<1>3. request \in [Flow -> Request] /\ left \in [Kind -> Nat]
  BY OnboardingAssumption DEF Init, Request
<1> QED
  BY <1>1, <1>2, <1>3 DEF Init, OnboardingInv, TypeOK, FlowsInv, PageInv

LEMMA OnboardingStep == OnboardingInv /\ [Next]_vars => OnboardingInv'
<1> SUFFICES ASSUME OnboardingInv, [Next]_vars PROVE OnboardingInv'
  OBVIOUS
<1>1. CASE UNCHANGED vars
  BY <1>1 DEF vars, backend, outside, OnboardingInv, TypeOK, FlowsInv, PageInv
<1>2. CASE CheckAuth \/ Forward \/ Login \/ GithubCallback \/ Logout \/ Expire
  BY <1>2, SessionStep
<1>3. CASE Install \/ Uninstall \/ InstallationCreated \/ InstallationDeleted
  BY <1>3, GitHubStep
<1>4. CASE Mount
  BY <1>4, MountStep
<1>5. ASSUME NEW f \in Flow, Timely(f) \/ SyncAnswered(f)
      PROVE  OnboardingInv'
  BY <1>5, FlowStep, FlowActs DEF Timely
<1>6. CASE ServeOrphan \/ \E f \in Flow : ServeSync(f)
  BY <1>6, SyncStep
<1>7. CASE Skip \/ Navigate \/ Reload
  BY <1>7, UserStep
<1> QED
  BY <1>1, <1>2, <1>3, <1>4, <1>5, <1>6, <1>7 DEF Next

LEMMA OnboardingIsInvariant == Spec => []OnboardingInv
BY OnboardingInit, OnboardingStep, PTL DEF Spec

\* Every variable keeps its type: no flow asks more often than it may.
THEOREM OnboardingTypes == Spec => []TypeOK
<1>1. OnboardingInv => TypeOK
  BY DEF OnboardingInv
<1> QED
  BY <1>1, OnboardingIsInvariant, PTL

\* Whatever runs at the same time (older flows, timers, answers that come late, a
\* user who goes elsewhere and back), the repositories page reports a finished sync
\* only for a flow whose sync was answered.
THEOREM SuccessIsReported == Spec => []SuccessIsTrue
<1>1. OnboardingInv => SuccessIsTrue
  BY DEF OnboardingInv, PageInv, SuccessIsTrue, Answered
<1> QED
  BY <1>1, OnboardingIsInvariant, PTL
=============================================================================
