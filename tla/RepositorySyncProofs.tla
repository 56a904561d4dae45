------------------------ MODULE RepositorySyncProofs ------------------------
(***************************************************************************)
(* What holds of the table of repositories for any number of               *)
(* installations, repositories and handlers, any page size, and any number *)
(* of changes, failures and edits: settings survive, and when no two       *)
(* handlers overlapped and nothing failed, the table ends up as GitHub has *)
(* it.                                                                     *)
(***************************************************************************)
EXTENDS RepositorySync, FiniteSetTheorems, WellFoundedInduction, TLAPS

\* An installation has or once had a repository.
Ever(i, r) == r \in access[i] \/ <<i, r>> \in revoked

\* The repositories on the first n pages of a list.
UpTo(S, n) == {r \in S : Rank(r, S) <= n * PageSize}

Busy(h) == handler[h].pc # "idle"
Quiet(i) == \A e \in events : e.body.inst # i

\* What GitHub announced is so for good.
Announced ==
    /\ \A e \in events :
          /\ \A r \in e.body.removed : <<e.body.inst, r>> \in revoked
          /\ github[e.body.inst] # "never"
          /\ e.body.kind = "deleted" => github[e.body.inst] = "gone"
    /\ \A i \in Installation : github[i] # "installed" => access[i] = {}

\* Nobody holds a repository its installation never had, and nobody deletes one that
\* was never revoked.
Holds(own) ==
    /\ \A r \in own.lookup \cup own.doomed : <<own.inst, r>> \in revoked
    /\ \A r \in own.list \cup own.gone : Ever(own.inst, r)

RowsAreGranted ==
    /\ \A r \in Repo : row[r] # NoRow => Ever(row[r].inst, r) /\ Present(row[r].inst)
    /\ \A h \in Handler : Holds(handler[h])
    /\ \A i \in Installation : Present(i) => github[i] # "never"

\* Where a handler came from.
Sound(own) ==
    /\ own.pc # "idle" => github[own.inst] # "never"
    /\ own.pc \in {"save", "cleanup", "find"} => own.list = {} /\ own.page = 1
    /\ own.pc = "cleanup" => \/ own.then = "find"
                             \/ own.then = "deactivate" /\ github[own.inst] = "gone"
    /\ own.pc \in {"fetch", "read", "apply", "connect"} => Present(own.inst)

HandlersAreSound == \A h \in Handler : Sound(handler[h])

OneOwner == \A i, j \in Installation, r \in Repo : Ever(i, r) /\ Ever(j, r) => i = j
OneHandler == \A g, h \in Handler : Busy(g) /\ Busy(h) => g = h

\* An installation DocPulse does not know yet is still to be saved.
KnownOrComing ==
    \A i \in Installation : github[i] # "never" =>
        \/ Present(i)
        \/ \E e \in events : e.body.kind = "created" /\ e.body.inst = i
        \/ \E h \in Handler : handler[h].pc = "save" /\ handler[h].inst = i

\* What a handler of installation i knows, while GitHub announced nothing new of i.
Informed(i, own) ==
    /\ own.pc = "fetch" => own.list = UpTo(access[i], own.page - 1)
    /\ own.pc \in {"read", "apply"} => own.list = access[i] /\ github[i] = "installed"
    /\ own.pc = "apply" => own.gone = ActiveRowsOf(i) \ own.list
    /\ own.pc = "deactivate" => github[i] # "installed"

QuietInstallation(i) ==
    Quiet(i) =>
        /\ (\A h \in Handler : Busy(h) => handler[h].inst # i) => Consistent(i)
        /\ \A h \in Handler : handler[h].inst = i => Informed(i, handler[h])

Undisturbed ==
    ~disturbed =>
        /\ OneOwner /\ OneHandler /\ KnownOrComing
        /\ \A h \in Handler : handler[h].pc # "connect"
        /\ \A i \in Installation : QuietInstallation(i)

SyncInvariant ==
    /\ TypeOK /\ Announced /\ RowsAreGranted /\ HandlersAreSound
    /\ SettingsSurvive /\ Undisturbed

-----------------------------------------------------------------------------
(* Pages of a list. *)

\* A set of numbers has a smallest.
LEMMA SmallestOf ==
  ASSUME NEW T \in SUBSET Nat, T # {}
  PROVE  \E m \in T : \A t \in T : m <= t
<1>1. PICK m \in T : \A t \in T : ~(<<t, m>> \in OpToRel(<, Nat))
  BY WFMin, NatLessThanWellFounded
<1>2. \A t \in T : ~(t < m)
  <2> TAKE t \in T
  <2>1. <<t, m>> \in Nat \X Nat /\ <<t, m>>[1] = t /\ <<t, m>>[2] = m
    OBVIOUS
  <2> QED
    BY <1>1, <2>1 DEF OpToRel
<1> QED
  BY <1>2

\* A set of numbers below another has a largest.
LEMMA LargestOf ==
  ASSUME NEW m \in Nat, NEW T \in SUBSET Nat, T # {}, \A t \in T : t < m
  PROVE  \E x \in T : \A t \in T : t <= x
<1> DEFINE D == {n \in Nat : m - n \in T}
<1>1. \A t \in T : m - t \in D
  OBVIOUS
<1>2. D # {} /\ D \in SUBSET Nat
  BY <1>1
<1>3. PICK d \in D : \A e \in D : d <= e
  <2> HIDE DEF D
  <2> QED
    BY <1>2, SmallestOf
<1>4. m - d \in T /\ \A t \in T : t <= m - d
  BY <1>1, <1>3
<1> QED
  BY <1>4

\* A repository's place in a list.
LEMMA RankType ==
  ASSUME NEW S \in SUBSET Repo, NEW r \in S
  PROVE  Rank(r, S) \in Nat \ {0}
<1>1. IsFiniteSet(S) /\ S \subseteq Nat
  BY SyncAssumption, FS_Subset
<1>2. {s \in S : s <= r} \in SUBSET S /\ r \in {s \in S : s <= r}
  BY <1>1
<1>3. IsFiniteSet({s \in S : s <= r}) /\ Cardinality({s \in S : s <= r}) # 0
  BY <1>1, <1>2, FS_Subset, FS_EmptySet
<1> QED
  BY <1>3, FS_CardinalityType DEF Rank

\* Places are not left out.
LEMMA RanksAreDense ==
  ASSUME NEW S \in SUBSET Repo, NEW s \in S, NEW k \in Nat \ {0}, k <= Rank(s, S)
  PROVE  \E t \in S : Rank(t, S) = k
<1> DEFINE T == {t \in S : k <= Rank(t, S)}
<1>1. IsFiniteSet(S) /\ S \subseteq Nat
  BY SyncAssumption, FS_Subset
<1>2. T \in SUBSET Nat /\ s \in T
  BY <1>1
<1>3. PICK m \in T : \A t \in T : m <= t
  <2> HIDE DEF T
  <2> QED
    BY <1>2, SmallestOf
<1>4. m \in S /\ m \in Nat /\ k <= Rank(m, S) /\ Rank(m, S) \in Nat
  BY <1>1, RankType
<1>5. SUFFICES ASSUME Rank(m, S) # k
               PROVE  FALSE
  BY <1>4
<1> DEFINE P == {t \in S : t < m}
<1>6. P \in SUBSET S /\ m \notin P /\ P \cup {m} = {t \in S : t <= m} /\ P \in SUBSET Nat
  <2>1. \A t \in S : t <= m <=> t < m \/ t = m
    BY <1>1, <1>4
  <2>2. P \cup {m} = {t \in S : t <= m}
    BY <1>4, <2>1
  <2>3. P \in SUBSET S /\ ~(m < m)
    BY <1>4
  <2> QED
    BY <1>1, <2>2, <2>3
<1>7. IsFiniteSet(P) /\ Cardinality(P) \in Nat
  BY <1>1, <1>6, FS_Subset, FS_CardinalityType
<1>8. Rank(m, S) = Cardinality(P) + 1
  <2>1. Cardinality(P \cup {m}) = Cardinality(P) + 1
    <3> HIDE DEF P
    <3> QED
      BY <1>6, <1>7, FS_AddElement
  <2> QED
    BY <1>6, <2>1 DEF Rank
<1>9. k <= Cardinality(P)
  BY <1>4, <1>5, <1>7, <1>8
<1>10. P # {}
  BY <1>7, <1>9, FS_EmptySet
<1>11. PICK x \in P : \A t \in P : t <= x
  <2>1. \A t \in P : t < m
    OBVIOUS
  <2> HIDE DEF P
  <2> QED
    BY <1>4, <1>6, <1>10, <2>1, LargestOf
<1>12. {t \in S : t <= x} = P /\ x \in S
  <2>1. \A t \in S : t <= x <=> t < m
    BY <1>1, <1>4, <1>11
  <2> QED
    BY <2>1
<1>13. Rank(x, S) = Cardinality(P)
  BY <1>12 DEF Rank
<1>14. x \in T /\ x < m
  BY <1>9, <1>12, <1>13
<1> QED
  BY <1>1, <1>3, <1>4, <1>14

\* A page's first and last place.
LEMMA PagePlaces ==
  ASSUME NEW n \in Nat \ {0}
  PROVE  /\ (n - 1) * PageSize \in Nat /\ n * PageSize = (n - 1) * PageSize + PageSize
         /\ n * PageSize \in Nat /\ PageSize \in Nat \ {0} /\ 0 * PageSize = 0
BY SyncAssumption

\* A short page is the last one.
LEMMA ShortPageIsLast ==
  ASSUME NEW S \in SUBSET Repo, NEW n \in Nat \ {0}, Cardinality(Page(S, n)) < PageSize
  PROVE  UpTo(S, n) = S
<1> DEFINE low == (n - 1) * PageSize
           high == n * PageSize
           places == (low + 1)..high
           place == [r \in Page(S, n) |-> Rank(r, S)]
<1>1. low \in Nat /\ high = low + PageSize /\ high \in Nat /\ PageSize \in Nat \ {0}
  BY PagePlaces
<1>2. IsFiniteSet(Page(S, n)) /\ IsFiniteSet(places) /\ Cardinality(places) = PageSize
  <2>1. IsFiniteSet(S) /\ Page(S, n) \in SUBSET S
    BY SyncAssumption, FS_Subset DEF Page
  <2> HIDE DEF low, high
  <2> QED
    BY <1>1, <2>1, FS_Subset, FS_Interval
<1>3. \A r \in Page(S, n) : r \in S /\ Rank(r, S) \in places
  <2> TAKE r \in Page(S, n)
  <2>1. r \in S /\ low < Rank(r, S) /\ Rank(r, S) <= high /\ Rank(r, S) \in Nat
    BY RankType DEF Page
  <2> HIDE DEF low, high
  <2> QED
    BY <1>1, <2>1
<1>4. ASSUME NEW r \in S, ~(Rank(r, S) <= high)
      PROVE  FALSE
  <2>1. Rank(r, S) \in Nat /\ high < Rank(r, S)
    <3> HIDE DEF high
    <3> QED
      BY <1>1, <1>4, RankType
  <2>2. ASSUME NEW k \in places
        PROVE  \E t \in Page(S, n) : Rank(t, S) = k
    <3>1. k \in Nat \ {0} /\ k <= Rank(r, S) /\ low < k /\ k <= high
      <4> HIDE DEF low, high
      <4> QED
        BY <1>1, <2>1, <2>2
    <3>2. PICK t \in S : Rank(t, S) = k
      BY <3>1, RanksAreDense
    <3> QED
      BY <3>1, <3>2 DEF Page
  <2> HIDE DEF low, high, places
  <2>3. place \in Surjection(Page(S, n), places)
    BY <1>3, <2>2 DEF Surjection
  <2>4. Cardinality(places) <= Cardinality(Page(S, n))
    BY <1>2, <2>3, FS_Surjection, FS_SurjCardinalityBound
  <2> QED
    BY <1>1, <1>2, <2>4, FS_CardinalityType
<1> QED
  BY <1>4 DEF UpTo

\* One page more.
LEMMA NextPage ==
  ASSUME NEW S \in SUBSET Repo, NEW n \in Nat \ {0}
  PROVE  /\ UpTo(S, n - 1) \cup Page(S, n) = UpTo(S, n)
         /\ UpTo(S, 0) = {}
<1> DEFINE low == (n - 1) * PageSize
           high == n * PageSize
<1>1. low \in Nat /\ high \in Nat /\ low <= high
  BY PagePlaces
<1>2. \A r \in S : Rank(r, S) \in Nat \ {0}
  BY RankType
<1> HIDE DEF low, high
<1>3. {r \in S : Rank(r, S) <= low} \cup {r \in S : low < Rank(r, S) /\ Rank(r, S) <= high}
        = {r \in S : Rank(r, S) <= high}
  BY <1>1, <1>2
<1>4. UpTo(S, 0) = {}
  BY <1>2, PagePlaces DEF UpTo
<1> QED
  BY <1>3, <1>4 DEF UpTo, Page, low, high

-----------------------------------------------------------------------------
(* Types. *)

LEMMA IdleType == Idle \in HandlerState /\ Idle.pc = "idle" /\ Idle.lookup = {} /\ Idle.doomed = {}
                  /\ Idle.list = {} /\ Idle.gone = {} /\ Idle.page = 1
<1>1. (CHOOSE i \in Installation : TRUE) \in Installation
  BY SyncAssumption
<1> QED
  BY <1>1 DEF Idle, HandlerState

LEMMA RowType ==
  ASSUME TypeOK, NEW r \in Repo
  PROVE  /\ row[r] # NoRow => row[r] \in Row
         /\ \A x \in Row : x # NoRow
BY NoRowAssumption DEF TypeOK, Row

\* A bound is counted down.
LEMMA OneLess ==
  ASSUME NEW max \in Nat, NEW n \in 0..max, n > 0
  PROVE  n - 1 \in 0..max
OBVIOUS

LEMMA SpendType ==
  ASSUME TypeOK, NEW kind \in {"changes", "faults", "userOps"}, Spend(kind)
  PROVE  left' \in [changes : 0..MaxChanges, faults : 0..MaxFaults, userOps : 0..MaxUserOps,
                    events : 0..MaxEvents]
<1>1. /\ left = [changes |-> left.changes, faults |-> left.faults, userOps |-> left.userOps, events |-> left.events]
      /\ left.changes \in 0..MaxChanges /\ left.faults \in 0..MaxFaults
      /\ left.userOps \in 0..MaxUserOps /\ left.events \in 0..MaxEvents
  BY DEF TypeOK
<1>2. /\ left[kind] > 0 /\ left.events > 0
      /\ left' = [left EXCEPT ![kind] = left[kind] - 1, !.events = left.events - 1]
  BY DEF Spend
<1>3. left.events - 1 \in 0..MaxEvents
  BY <1>1, <1>2, OneLess, SyncAssumption
<1>4. CASE kind = "changes"
  <2>1. left.changes - 1 \in 0..MaxChanges
    BY <1>1, <1>2, <1>4, OneLess, SyncAssumption
  <2>2. left' = [changes |-> left.changes - 1, faults |-> left.faults, userOps |-> left.userOps,
                 events |-> left.events - 1]
    BY <1>1, <1>2, <1>4
  <2> QED
    BY <1>1, <1>3, <2>1, <2>2
<1>5. CASE kind = "faults"
  <2>1. left.faults - 1 \in 0..MaxFaults
    BY <1>1, <1>2, <1>5, OneLess, SyncAssumption
  <2>2. left' = [changes |-> left.changes, faults |-> left.faults - 1, userOps |-> left.userOps,
                 events |-> left.events - 1]
    BY <1>1, <1>2, <1>5
  <2> QED
    BY <1>1, <1>3, <2>1, <2>2
<1>6. CASE kind = "userOps"
  <2>1. left.userOps - 1 \in 0..MaxUserOps
    BY <1>1, <1>2, <1>6, OneLess, SyncAssumption
  <2>2. left' = [changes |-> left.changes, faults |-> left.faults, userOps |-> left.userOps - 1,
                 events |-> left.events - 1]
    BY <1>1, <1>2, <1>6
  <2> QED
    BY <1>1, <1>3, <2>1, <2>2
<1> QED
  BY <1>4, <1>5, <1>6

\* The rows that change.
LEMMA RowsType ==
  ASSUME TypeOK, NEW i \in Installation, NEW rs
  PROVE  /\ NewRow(i) \in Row /\ NewRow(i).inst = i /\ NewRow(i).active /\ ~NewRow(i).custom
         /\ Deactivated(row, rs) \in [Repo -> Row \cup {NoRow}]
         /\ \A old \in Row \cup {NoRow} :
               /\ SyncUpsert(old, i) \in Row /\ SyncUpsert(old, i) # NoRow
               /\ SyncUpsert(old, i).inst = i /\ SyncUpsert(old, i).active
               /\ old # NoRow => SyncUpsert(old, i).custom = old.custom
<1>1. NewRow(i) \in Row /\ NewRow(i).inst = i /\ NewRow(i).active /\ ~NewRow(i).custom
  BY DEF NewRow, Row
<1>2. Deactivated(row, rs) \in [Repo -> Row \cup {NoRow}]
  <2>1. ASSUME NEW r \in Repo, row[r] # NoRow
        PROVE  [row[r] EXCEPT !.active = FALSE] \in Row
    BY <2>1, RowType DEF Row
  <2> QED
    BY <2>1 DEF Deactivated, TypeOK
<1>3. ASSUME NEW old \in Row \cup {NoRow}
      PROVE  /\ SyncUpsert(old, i) \in Row /\ SyncUpsert(old, i) # NoRow
             /\ SyncUpsert(old, i).inst = i /\ SyncUpsert(old, i).active
             /\ old # NoRow => SyncUpsert(old, i).custom = old.custom
  <2>1. CASE old = NoRow
    BY <1>1, <2>1, NoRowAssumption DEF SyncUpsert, Row
  <2>2. CASE old # NoRow
    <3>1. old \in Row /\ SyncUpsert(old, i) = [old EXCEPT !.inst = i, !.active = TRUE]
      BY <2>2 DEF SyncUpsert
    <3>2. [old EXCEPT !.inst = i, !.active = TRUE] \in Row
      BY <3>1 DEF Row
    <3> QED
      BY <3>1, <3>2, NoRowAssumption DEF Row
  <2> QED
    BY <2>1, <2>2
<1> QED
  BY <1>1, <1>2, <1>3

\* GitHub's steps.
LEMMA GitHubType ==
  ASSUME TypeOK, GitHubStep
  PROVE  TypeOK'
<1> USE DEF TypeOK
<1>1. UNCHANGED <<registered, installation, row, handler, customised>> /\ Spend("changes")
  BY DEF GitHubStep, Install, Grant, Revoke, Uninstall, Transfer, Announce
<1>2. left' \in [changes : 0..MaxChanges, faults : 0..MaxFaults, userOps : 0..MaxUserOps, events : 0..MaxEvents]
  BY <1>1, SpendType
<1>3. disturbed' \in BOOLEAN
  BY DEF GitHubStep, Install, Grant, Revoke, Uninstall, Transfer
<1>4. ASSUME NEW nth \in {1, 2}, NEW kind \in {"created", "deleted", "repositories"},
             NEW i \in Installation, NEW removed \in SUBSET Repo
      PROVE  Message(nth, kind, i, removed) \in [id : (1..MaxChanges) \X {1, 2}, body : Event]
  <2>1. left.changes \in 1..MaxChanges
    <3>1. left.changes \in 0..MaxChanges /\ left.changes > 0
      BY <1>1 DEF Spend
    <3> QED
      BY <3>1, SyncAssumption
  <2>2. <<left.changes, nth>> \in (1..MaxChanges) \X {1, 2}
    BY <2>1
  <2> HIDE DEF TypeOK
  <2> QED
    BY <2>2 DEF Message, Event
<1>5. ASSUME NEW i \in Installation, Install(i)
      PROVE  github' \in [Installation -> {"never", "installed", "gone"}]
             /\ access' \in [Installation -> SUBSET Repo] /\ revoked' \subseteq (Installation \X Repo)
             /\ events' \subseteq [id : (1..MaxChanges) \X {1, 2}, body : Event]
  BY <1>4, <1>5 DEF Install, Announce
<1>6. ASSUME NEW i \in Installation, NEW r \in Repo, Grant(i, r) \/ Revoke(i, r)
      PROVE  github' \in [Installation -> {"never", "installed", "gone"}]
             /\ access' \in [Installation -> SUBSET Repo] /\ revoked' \subseteq (Installation \X Repo)
             /\ events' \subseteq [id : (1..MaxChanges) \X {1, 2}, body : Event]
  BY <1>4, <1>6 DEF Grant, Revoke, Announce
<1>7. ASSUME NEW i \in Installation, Uninstall(i)
      PROVE  github' \in [Installation -> {"never", "installed", "gone"}]
             /\ access' \in [Installation -> SUBSET Repo] /\ revoked' \subseteq (Installation \X Repo)
             /\ events' \subseteq [id : (1..MaxChanges) \X {1, 2}, body : Event]
  BY <1>4, <1>7 DEF Uninstall, Announce
<1>8. ASSUME NEW i \in Installation, NEW j \in Installation, NEW r \in Repo, Transfer(r, i, j)
      PROVE  github' \in [Installation -> {"never", "installed", "gone"}]
             /\ access' \in [Installation -> SUBSET Repo] /\ revoked' \subseteq (Installation \X Repo)
             /\ events' \subseteq [id : (1..MaxChanges) \X {1, 2}, body : Event]
  BY <1>4, <1>8 DEF Transfer, Announce
<1>9. /\ github' \in [Installation -> {"never", "installed", "gone"}]
      /\ access' \in [Installation -> SUBSET Repo] /\ revoked' \subseteq (Installation \X Repo)
      /\ events' \subseteq [id : (1..MaxChanges) \X {1, 2}, body : Event]
  BY <1>5, <1>6, <1>7, <1>8 DEF GitHubStep
<1> QED
  BY <1>1, <1>2, <1>3, <1>9

\* The user's steps and a restart.
LEMMA UserType ==
  ASSUME TypeOK, UserStep \/ Crash
  PROVE  TypeOK'
<1>1. CASE SignIn
  BY <1>1 DEF SignIn, TypeOK, githubVars, history
<1>2. CASE Crash
  <2>1. left' \in [changes : 0..MaxChanges, faults : 0..MaxFaults, userOps : 0..MaxUserOps, events : 0..MaxEvents]
    BY <1>2, SpendType DEF Crash
  <2> QED
    BY <1>2, <2>1, IdleType DEF Crash, TypeOK, githubVars
<1>3. ASSUME NEW r \in Repo, UpdateSettings(r) \/ (\E active \in BOOLEAN : SetActive(r, active))
      PROVE  TypeOK'
  <2>1. left' \in [changes : 0..MaxChanges, faults : 0..MaxFaults, userOps : 0..MaxUserOps, events : 0..MaxEvents]
    BY <1>3, SpendType DEF UpdateSettings, SetActive, UserOp
  <2>2. row[r] \in Row
    BY <1>3, RowType DEF UpdateSettings, SetActive
  <2>3. row' \in [Repo -> Row \cup {NoRow}]
    <3>1. CASE UpdateSettings(r)
      <4>1. [row[r] EXCEPT !.custom = TRUE] \in Row
        BY <2>2 DEF Row
      <4> QED
        BY <3>1, <4>1 DEF UpdateSettings, TypeOK
    <3>2. ASSUME NEW active \in BOOLEAN, SetActive(r, active)
          PROVE  row' \in [Repo -> Row \cup {NoRow}]
      <4>1. [row[r] EXCEPT !.active = active] \in Row
        BY <2>2 DEF Row
      <4> QED
        BY <3>2, <4>1 DEF SetActive, TypeOK
    <3> QED
      BY <1>3, <3>1, <3>2
  <2> QED
    BY <1>3, <2>1, <2>3 DEF UpdateSettings, SetActive, TypeOK, githubVars
<1> QED
  BY <1>1, <1>2, <1>3 DEF UserStep

PC == {"idle", "save", "cleanup", "find", "fetch", "read", "apply", "deactivate", "connect"}

\* What handlers hold after one of them went on.
LEMMA HandlerType ==
  ASSUME TypeOK, NEW h \in Handler, Step(h)
  PROVE  handler' \in [Handler -> HandlerState]
<1>1. handler \in [Handler -> HandlerState] /\ handler[h] \in HandlerState
  BY DEF TypeOK
<1>2. /\ handler[h].inst \in Installation /\ handler[h].then \in {"idle", "find", "deactivate"}
      /\ handler[h].lookup \in SUBSET Repo /\ handler[h].doomed \in SUBSET Repo
      /\ handler[h].list \in SUBSET Repo /\ handler[h].page \in Nat \ {0} /\ handler[h].gone \in SUBSET Repo
  BY <1>1 DEF HandlerState
<1>3. ASSUME NEW pc \in PC, Goto(h, pc)
      PROVE  handler' \in [Handler -> HandlerState]
  <2>1. [handler[h] EXCEPT !.pc = pc] \in HandlerState
    BY <1>1 DEF HandlerState, PC
  <2> QED
    BY <1>1, <1>3, <2>1 DEF Goto
<1>4. CASE Finish(h)
  BY <1>1, <1>4, IdleType DEF Finish
<1>5. ASSUME NEW e \in events, Receive(h, e)
      PROVE  handler' \in [Handler -> HandlerState]
  <2>1. e.body.kind \in {"created", "deleted", "repositories"} /\ e.body.inst \in Installation
        /\ e.body.removed \in SUBSET Repo
    BY DEF TypeOK, Event
  <2>2. [Idle EXCEPT !.pc = "save", !.inst = e.body.inst] \in HandlerState
    BY <2>1, IdleType DEF HandlerState
  <2>3. [Idle EXCEPT !.pc = "cleanup", !.inst = e.body.inst, !.then = "deactivate",
                     !.doomed = RowsOf(e.body.inst)] \in HandlerState
    BY <2>1, IdleType DEF HandlerState, RowsOf
  <2>4. [Idle EXCEPT !.pc = "cleanup", !.inst = e.body.inst, !.then = "find",
                     !.lookup = e.body.removed] \in HandlerState
    BY <2>1, IdleType DEF HandlerState
  <2> QED
    BY <1>1, <1>5, <2>1, <2>2, <2>3, <2>4 DEF Receive
<1>6. ASSUME NEW i \in Installation, RequestSync(h, i)
      PROVE  handler' \in [Handler -> HandlerState]
  <2>1. [Idle EXCEPT !.pc = "fetch", !.inst = i] \in HandlerState
    BY IdleType DEF HandlerState
  <2> QED
    BY <1>1, <1>6, <2>1 DEF RequestSync
<1>7. ASSUME NEW i \in Installation, NEW r \in Repo, ConnectFetch(h, i, r)
      PROVE  handler' \in [Handler -> HandlerState]
  <2>1. [Idle EXCEPT !.pc = "connect", !.inst = i, !.list = {r}] \in HandlerState
    BY IdleType DEF HandlerState
  <2> QED
    BY <1>1, <1>7, <2>1 DEF ConnectFetch
<1>8. ASSUME NEW r \in Repo, LookUpRemoved(h, r)
      PROVE  handler' \in [Handler -> HandlerState]
  <2>1. [handler[h] EXCEPT !.lookup = @ \ {r}, !.doomed = IF row[r] # NoRow THEN @ \cup {r} ELSE @] \in HandlerState
    BY <1>1 DEF HandlerState
  <2> QED
    BY <1>1, <1>8, <2>1 DEF LookUpRemoved
<1>9. ASSUME NEW r \in Repo, CleanupRepository(h, r)
      PROVE  handler' \in [Handler -> HandlerState]
  <2>1. \A g \in Handler : [handler[g] EXCEPT !.doomed = @ \ {r}] \in HandlerState
    BY <1>1 DEF HandlerState
  <2> QED
    BY <1>9, <2>1 DEF CleanupRepository
<1>10. CASE FetchPage(h)
  <2> DEFINE got == Page(access[handler[h].inst], handler[h].page)
  <2>1. got \in SUBSET Repo
    BY <1>2 DEF Page, TypeOK
  <2>2. handler[h].page + 1 \in Nat \ {0}
    BY <1>2
  <2> HIDE DEF got
  <2>3. [handler[h] EXCEPT !.list = @ \cup got, !.page = @ + 1,
                           !.pc = IF Cardinality(got) < PageSize THEN "read" ELSE @] \in HandlerState
    BY <1>1, <2>1, <2>2 DEF HandlerState
  <2>4. handler' = [handler EXCEPT ![h].list = @ \cup got, ![h].page = @ + 1,
                                   ![h].pc = IF Cardinality(got) < PageSize THEN "read" ELSE @]
    BY <1>10 DEF FetchPage, got
  <2> QED
    BY <1>1, <2>3, <2>4
<1>11. CASE ReadRows(h)
  <2>1. [handler[h] EXCEPT !.gone = ActiveRowsOf(handler[h].inst) \ handler[h].list, !.pc = "apply"] \in HandlerState
    BY <1>1 DEF HandlerState, ActiveRowsOf, RowsOf
  <2> QED
    BY <1>1, <1>11, <2>1 DEF ReadRows
<1>12. CASE CleanupDone(h)
  BY <1>2, <1>3, <1>12 DEF CleanupDone, PC
<1>13. CASE SaveInstallation(h) \/ FindInstallation(h) \/ FetchRefused(h) \/ FetchFails(h)
  BY <1>3, <1>4, <1>13 DEF SaveInstallation, FindInstallation, FetchRefused, FetchFails, PC
<1>14. CASE DeactivateInstallation(h) \/ ApplySync(h) \/ ConnectCreate(h)
  BY <1>4, <1>14 DEF DeactivateInstallation, ApplySync, ConnectCreate
<1> QED
  BY <1>5, <1>6, <1>7, <1>8, <1>9, <1>10, <1>11, <1>12, <1>13, <1>14 DEF Step, Progress

\* What the tables hold then.
LEMMA TablesType ==
  ASSUME TypeOK, NEW h \in Handler, Step(h)
  PROVE  /\ row' \in [Repo -> Row \cup {NoRow}]
         /\ installation' \in [Installation -> {"absent", "active", "inactive"}]
<1>1. /\ row \in [Repo -> Row \cup {NoRow}] /\ handler[h].inst \in Installation
      /\ installation \in [Installation -> {"absent", "active", "inactive"}]
  BY DEF TypeOK, HandlerState
<1>2. CASE SaveInstallation(h)
  BY <1>1, <1>2 DEF SaveInstallation
<1>3. ASSUME NEW r \in Repo, CleanupRepository(h, r)
      PROVE  row' \in [Repo -> Row \cup {NoRow}] /\ installation' = installation
  BY <1>1, <1>3 DEF CleanupRepository
<1>4. CASE DeactivateInstallation(h)
  <2>1. installation' \in [Installation -> {"absent", "active", "inactive"}]
    BY <1>1, <1>4 DEF DeactivateInstallation
  <2> QED
    BY <1>1, <1>4, <2>1, RowsType DEF DeactivateInstallation
<1>5. CASE ApplySync(h)
  <2> DEFINE kept == Deactivated(row, handler[h].gone)
  <2>1. kept \in [Repo -> Row \cup {NoRow}]
    BY <1>1, RowsType
  <2>2. installation' = [installation EXCEPT ![handler[h].inst] = "active"]
        /\ row' = [r \in Repo |-> IF r \in handler[h].list THEN SyncUpsert(kept[r], handler[h].inst) ELSE kept[r]]
    BY <1>5 DEF ApplySync
  <2> HIDE DEF kept
  <2>3. ASSUME NEW r \in Repo
        PROVE  SyncUpsert(kept[r], handler[h].inst) \in Row
    BY <1>1, <2>1, RowsType
  <2> QED
    BY <1>1, <2>1, <2>2, <2>3
<1>6. CASE ConnectCreate(h)
  <2>1. NewRow(handler[h].inst) \in Row
    BY <1>1, RowsType
  <2> QED
    BY <1>1, <1>6, <2>1 DEF ConnectCreate
<1>7. CASE ~(\/ SaveInstallation(h) \/ (\E r \in Repo : CleanupRepository(h, r))
             \/ DeactivateInstallation(h) \/ ApplySync(h) \/ ConnectCreate(h))
  <2>1. row' = row /\ installation' = installation
    BY <1>7 DEF Step, Progress, Receive, RequestSync, ConnectFetch, LookUpRemoved, FetchPage, ReadRows,
                CleanupDone, FindInstallation, FetchRefused, FetchFails
  <2> QED
    BY <1>1, <2>1
<1> QED
  BY <1>1, <1>2, <1>3, <1>4, <1>5, <1>6, <1>7

LEMMA TypeStep ==
  ASSUME TypeOK, [Next]_vars
  PROVE  TypeOK'
<1>1. CASE UNCHANGED vars
  BY <1>1 DEF vars, TypeOK
<1>2. ASSUME NEW h \in Handler, Step(h)
      PROVE  TypeOK'
  <2>1. UNCHANGED <<github, access, revoked, registered, customised>> /\ events' \subseteq events
    BY <1>2 DEF Step, Progress, Receive, RequestSync, ConnectFetch, LookUpRemoved, FetchPage, ReadRows,
                CleanupDone, FindInstallation, FetchRefused, FetchFails, SaveInstallation, CleanupRepository,
                DeactivateInstallation, ApplySync, ConnectCreate, githubVars, history
  <2>2. disturbed' \in BOOLEAN
    BY <1>2 DEF Step, Progress, Receive, RequestSync, ConnectFetch, LookUpRemoved, FetchPage, ReadRows,
                CleanupDone, FindInstallation, FetchRefused, FetchFails, SaveInstallation, CleanupRepository,
                DeactivateInstallation, ApplySync, ConnectCreate, history, TypeOK
  <2>3. left' = left \/ Spend("faults") \/ Spend("userOps")
    BY <1>2 DEF Step, Progress, Receive, RequestSync, ConnectFetch, LookUpRemoved, FetchPage, ReadRows,
                CleanupDone, FindInstallation, FetchRefused, FetchFails, SaveInstallation, CleanupRepository,
                DeactivateInstallation, ApplySync, ConnectCreate, UserOp
  <2>4. left' \in [changes : 0..MaxChanges, faults : 0..MaxFaults, userOps : 0..MaxUserOps, events : 0..MaxEvents]
    BY <2>3, SpendType DEF TypeOK
  <2>5. customised' \subseteq Repo
    BY <2>1 DEF TypeOK
  <2> QED
    BY <1>2, <2>1, <2>2, <2>4, <2>5, HandlerType, TablesType DEF TypeOK
<1> QED
  BY <1>1, <1>2, GitHubType, UserType DEF Next

-----------------------------------------------------------------------------
(* What GitHub does. *)

\* Nothing is forgotten, and every change is announced.
GitHubMoved ==
    /\ events \subseteq events' /\ revoked \subseteq revoked'
    /\ \A i \in Installation :
          /\ github[i] # "never" => github'[i] # "never"
          /\ github[i] = "gone" => github'[i] = "gone"
          /\ \A r \in Repo : Ever(i, r) => Ever(i, r)'
          /\ \/ github'[i] = github[i] /\ access'[i] = access[i]
             \/ \E e \in events' : e.body.inst = i
          /\ \/ github'[i] = "never" \/ github[i] # "never"
             \/ \E e \in events' : e.body.kind = "created" /\ e.body.inst = i

LEMMA MessageFields ==
  ASSUME NEW nth, NEW kind, NEW i, NEW removed
  PROVE  LET e == Message(nth, kind, i, removed) IN
         e.body.kind = kind /\ e.body.inst = i /\ e.body.removed = removed
BY DEF Message

LEMMA InstallMoves ==
  ASSUME TypeOK, Announced, NEW i \in Installation, Install(i)
  PROVE  GitHubMoved /\ Announced' /\ (OneOwner => OneOwner')
<1> DEFINE message == Message(1, "created", i, {})
<1>1. PICK S \in SUBSET {r \in Repo : MayGrant(i, r)} : access' = [access EXCEPT ![i] = S]
  BY DEF Install
<1>2. /\ github' = [github EXCEPT ![i] = "installed"] /\ events' = events \cup {message}
      /\ revoked' = revoked /\ github[i] = "never"
  BY DEF Install, Announce
<1>3. message.body.kind = "created" /\ message.body.inst = i /\ message.body.removed = {}
  BY MessageFields
<1> HIDE DEF message
<1>4. access[i] = {}
  BY <1>2 DEF Announced
<1>5. GitHubMoved
  BY <1>1, <1>2, <1>3, <1>4 DEF GitHubMoved, Ever, TypeOK
<1>6. Announced'
  <2>1. \A e \in events : github[e.body.inst] # "never" /\ e.body.inst \in Installation
    BY DEF Announced, TypeOK, Event
  <2> QED
    BY <1>1, <1>2, <1>3, <2>1 DEF Announced, TypeOK
<1>7. ASSUME OneOwner
      PROVE  OneOwner'
  <2>1. \A r \in S : \A j \in Installation : j # i => ~Ever(j, r)
    BY <1>1 DEF MayGrant, Ever
  <2>2. \A j \in Installation, r \in Repo : Ever(j, r)' => Ever(j, r) \/ (j = i /\ r \in S)
    BY <1>1, <1>2 DEF Ever, TypeOK
  <2> QED
    BY <1>7, <2>1, <2>2 DEF OneOwner
<1> QED
  BY <1>5, <1>6, <1>7

LEMMA GrantMoves ==
  ASSUME TypeOK, Announced, NEW i \in Installation, NEW r \in Repo, Grant(i, r)
  PROVE  GitHubMoved /\ Announced' /\ (OneOwner => OneOwner')
<1> DEFINE message == Message(1, "repositories", i, {})
<1>1. /\ access' = [access EXCEPT ![i] = access[i] \cup {r}] /\ github' = github /\ revoked' = revoked
      /\ events' = events \cup {message} /\ github[i] = "installed" /\ MayGrant(i, r)
  BY DEF Grant, Announce
<1>2. message.body.kind = "repositories" /\ message.body.inst = i /\ message.body.removed = {}
  BY MessageFields
<1> HIDE DEF message
<1>3. GitHubMoved
  BY <1>1, <1>2 DEF GitHubMoved, Ever, TypeOK
<1>4. Announced'
  BY <1>1, <1>2 DEF Announced, TypeOK
<1>5. ASSUME OneOwner
      PROVE  OneOwner'
  <2>1. \A j \in Installation : j # i => ~Ever(j, r)
    BY <1>1 DEF MayGrant, Ever
  <2>2. \A j \in Installation, s \in Repo : Ever(j, s)' => Ever(j, s) \/ (j = i /\ s = r)
    BY <1>1 DEF Ever, TypeOK
  <2> QED
    BY <1>5, <2>1, <2>2 DEF OneOwner
<1> QED
  BY <1>3, <1>4, <1>5

LEMMA RevokeMoves ==
  ASSUME TypeOK, Announced, NEW i \in Installation, NEW r \in Repo, Revoke(i, r)
  PROVE  GitHubMoved /\ Announced' /\ (OneOwner => OneOwner')
<1> DEFINE message == Message(1, "repositories", i, {r})
<1>1. /\ access' = [access EXCEPT ![i] = access[i] \ {r}] /\ github' = github /\ revoked' = revoked \cup {<<i, r>>}
      /\ events' = events \cup {message} /\ r \in access[i]
  BY DEF Revoke, Announce
<1>2. message.body.kind = "repositories" /\ message.body.inst = i /\ message.body.removed = {r}
  BY MessageFields
<1> HIDE DEF message
<1>3. \A j \in Installation, s \in Repo : Ever(j, s)' <=> Ever(j, s)
  BY <1>1 DEF Ever, TypeOK
<1>4. GitHubMoved
  BY <1>1, <1>2, <1>3 DEF GitHubMoved, TypeOK
<1>5. Announced'
  <2>1. github[i] = "installed"
    BY <1>1 DEF Announced, TypeOK
  <2> QED
    BY <1>1, <1>2, <2>1 DEF Announced, TypeOK
<1> QED
  BY <1>3, <1>4, <1>5 DEF OneOwner

LEMMA UninstallMoves ==
  ASSUME TypeOK, Announced, NEW i \in Installation, Uninstall(i)
  PROVE  GitHubMoved /\ Announced' /\ (OneOwner => OneOwner')
<1> DEFINE message == Message(1, "deleted", i, {})
<1>1. /\ access' = [access EXCEPT ![i] = {}] /\ github' = [github EXCEPT ![i] = "gone"]
      /\ revoked' = revoked \cup ({i} \X access[i])
      /\ events' = events \cup {message} /\ github[i] = "installed"
  BY DEF Uninstall, Announce
<1>2. message.body.kind = "deleted" /\ message.body.inst = i /\ message.body.removed = {}
  BY MessageFields
<1> HIDE DEF message
<1>3. \A j \in Installation, s \in Repo : Ever(j, s)' <=> Ever(j, s)
  BY <1>1 DEF Ever, TypeOK
<1>4. GitHubMoved
  BY <1>1, <1>2, <1>3 DEF GitHubMoved, TypeOK
<1>5. Announced'
  <2>1. \A e \in events : e.body.inst \in Installation
    BY DEF TypeOK, Event
  <2> QED
    BY <1>1, <1>2, <2>1 DEF Announced, TypeOK
<1> QED
  BY <1>3, <1>4, <1>5 DEF OneOwner

LEMMA TransferMoves ==
  ASSUME TypeOK, Announced, NEW i \in Installation, NEW j \in Installation, NEW r \in Repo, Transfer(r, i, j)
  PROVE  GitHubMoved /\ Announced' /\ disturbed'
<1> DEFINE lost == Message(1, "repositories", i, {r})
           won == Message(2, "repositories", j, {})
<1>1. /\ access' = [access EXCEPT ![i] = access[i] \ {r}, ![j] = access[j] \cup {r}] /\ github' = github
      /\ revoked' = revoked \cup {<<i, r>>} /\ disturbed'
      /\ events' = events \cup {lost, won} /\ r \in access[i] /\ github[j] = "installed" /\ i # j
  BY DEF Transfer, Announce, TypeOK
<1>2. /\ lost.body.kind = "repositories" /\ lost.body.inst = i /\ lost.body.removed = {r}
      /\ won.body.kind = "repositories" /\ won.body.inst = j /\ won.body.removed = {}
  BY MessageFields
<1> HIDE DEF lost, won
<1>3. /\ access'[i] = access[i] \ {r} /\ access'[j] = access[j] \cup {r}
      /\ \A k \in Installation : k # i /\ k # j => access'[k] = access[k]
  BY <1>1 DEF TypeOK
<1>4. \A k \in Installation, s \in Repo : Ever(k, s) => Ever(k, s)'
  BY <1>1, <1>3 DEF Ever
<1>5. GitHubMoved
  <2>1. ASSUME NEW k \in Installation
        PROVE  (github'[k] = github[k] /\ access'[k] = access[k]) \/ \E e \in events' : e.body.inst = k
    BY <1>1, <1>2, <1>3
  <2> QED
    BY <1>1, <1>4, <2>1 DEF GitHubMoved
<1>6. Announced'
  <2>1. github[i] = "installed"
    BY <1>1 DEF Announced
  <2> QED
    BY <1>1, <1>2, <1>3, <2>1 DEF Announced
<1> QED
  BY <1>1, <1>5, <1>6

LEMMA GitHubMoves ==
  ASSUME TypeOK, Announced, GitHubStep
  PROVE  /\ GitHubMoved /\ Announced'
         /\ ~disturbed' => ~disturbed /\ (OneOwner => OneOwner')
         /\ UNCHANGED <<registered, installation, row, handler, customised>>
<1>1. UNCHANGED <<registered, installation, row, handler, customised>>
  BY DEF GitHubStep, Install, Grant, Revoke, Uninstall, Transfer, Announce
<1>2. disturbed' = disturbed \/ (\E i, j \in Installation, r \in Repo : Transfer(r, i, j))
  BY DEF GitHubStep, Install, Grant, Revoke, Uninstall
<1> QED
  BY <1>1, <1>2, InstallMoves, GrantMoves, RevokeMoves, UninstallMoves, TransferMoves DEF GitHubStep

\* Every other step leaves GitHub alone and announces nothing.
LEMMA GitHubRests ==
  ASSUME TypeOK, [Next]_vars, ~GitHubStep
  PROVE  UNCHANGED githubVars /\ events' \subseteq events /\ (disturbed => disturbed')
<1>1. CASE UserStep \/ Crash \/ UNCHANGED vars
  BY <1>1 DEF UserStep, SignIn, UpdateSettings, SetActive, Crash, githubVars, history, vars
<1>2. ASSUME NEW h \in Handler, Step(h)
      PROVE  UNCHANGED githubVars /\ events' \subseteq events /\ (disturbed => disturbed')
  <2>1. UNCHANGED githubVars /\ events' \subseteq events
    BY <1>2 DEF Step, Progress, Receive, RequestSync, ConnectFetch, LookUpRemoved, FetchPage, ReadRows,
                CleanupDone, FindInstallation, FetchRefused, FetchFails, SaveInstallation, CleanupRepository,
                DeactivateInstallation, ApplySync, ConnectCreate, githubVars
  <2>2. disturbed => disturbed'
    BY <1>2 DEF Step, Progress, Receive, RequestSync, ConnectFetch, LookUpRemoved, FetchPage, ReadRows,
                CleanupDone, FindInstallation, FetchRefused, FetchFails, SaveInstallation, CleanupRepository,
                DeactivateInstallation, ApplySync, ConnectCreate, history
  <2> QED
    BY <2>1, <2>2
<1> QED
  BY <1>1, <1>2 DEF Next

LEMMA AnnouncedStep ==
  ASSUME TypeOK, Announced, [Next]_vars
  PROVE  Announced'
<1>1. CASE GitHubStep
  BY <1>1, GitHubMoves
<1>2. CASE ~GitHubStep
  BY <1>2, GitHubRests DEF Announced, githubVars
<1> QED
  BY <1>1, <1>2

-----------------------------------------------------------------------------
(* What handlers hold. *)

HandlersInvariant == TypeOK /\ Announced /\ RowsAreGranted /\ HandlersAreSound

\* An installation once known stays known.
LEMMA PresentStays ==
  ASSUME TypeOK, [Next]_vars, NEW i \in Installation, Present(i)
  PROVE  Present(i)'
<1>1. CASE installation' = installation
  BY <1>1 DEF Present
<1>2. ASSUME NEW h \in Handler, SaveInstallation(h) \/ DeactivateInstallation(h) \/ ApplySync(h)
      PROVE  Present(i)'
  BY <1>2 DEF SaveInstallation, DeactivateInstallation, ApplySync, Present, TypeOK
<1>3. CASE GitHubStep \/ UserStep \/ Crash \/ UNCHANGED vars
  BY <1>1, <1>3, GitHubMoves DEF GitHubStep, Install, Grant, Revoke, Uninstall, Transfer, Announce,
     UserStep, SignIn, UpdateSettings, SetActive, Crash, vars
<1>4. ASSUME NEW h \in Handler, Step(h),
             ~(SaveInstallation(h) \/ DeactivateInstallation(h) \/ ApplySync(h))
      PROVE  Present(i)'
  BY <1>1, <1>4 DEF Step, Progress, Receive, RequestSync, ConnectFetch, LookUpRemoved, FetchPage, ReadRows,
                CleanupDone, FindInstallation, FetchRefused, FetchFails, CleanupRepository, ConnectCreate
<1> QED
  BY <1>2, <1>3, <1>4 DEF Next

\* The other handlers stay as they are, up to a row that was deleted under them.
LEMMA OthersStay ==
  ASSUME TypeOK, NEW h \in Handler, Step(h), NEW g \in Handler, g # h
  PROVE  \/ handler'[g] = handler[g]
         \/ \E r \in Repo : handler'[g] = [handler[g] EXCEPT !.doomed = @ \ {r}]
BY DEF Step, Progress, Receive, RequestSync, ConnectFetch, LookUpRemoved, FetchPage, ReadRows,
       CleanupDone, FindInstallation, FetchRefused, FetchFails, SaveInstallation, CleanupRepository,
       DeactivateInstallation, ApplySync, ConnectCreate, Goto, Finish, TypeOK

\* What the handler that goes on becomes.
LEMMA OwnMoves ==
  ASSUME TypeOK, NEW h \in Handler
  PROVE  LET own == handler[h]
             next == handler'[h]
             got == Page(access[own.inst], own.page) IN
         /\ SaveInstallation(h) => next = [own EXCEPT !.pc = "find"]
         /\ CleanupDone(h) => next = [own EXCEPT !.pc = own.then]
         /\ FindInstallation(h) => next = IF Present(own.inst) THEN [own EXCEPT !.pc = "fetch"] ELSE Idle
         /\ FetchRefused(h) => next = [own EXCEPT !.pc = "deactivate"]
         /\ FetchFails(h) => next = [own EXCEPT !.pc = "deactivate"] \/ next = Idle
         /\ DeactivateInstallation(h) \/ ApplySync(h) \/ ConnectCreate(h) => next = Idle
         /\ \A i \in Installation : RequestSync(h, i) => next = [Idle EXCEPT !.pc = "fetch", !.inst = i]
         /\ \A i \in Installation, r \in Repo :
               ConnectFetch(h, i, r) => next = [Idle EXCEPT !.pc = "connect", !.inst = i, !.list = {r}]
         /\ \A r \in Repo : LookUpRemoved(h, r) =>
               next = [own EXCEPT !.lookup = @ \ {r}, !.doomed = IF row[r] # NoRow THEN @ \cup {r} ELSE @]
         /\ \A r \in Repo : CleanupRepository(h, r) => next = [own EXCEPT !.doomed = @ \ {r}]
         /\ FetchPage(h) =>
               next = [own EXCEPT !.list = @ \cup got, !.page = @ + 1,
                                  !.pc = IF Cardinality(got) < PageSize THEN "read" ELSE @]
         /\ ReadRows(h) => next = [own EXCEPT !.gone = ActiveRowsOf(own.inst) \ own.list, !.pc = "apply"]
<1>1. handler \in [Handler -> HandlerState]
  BY DEF TypeOK
<1>2. Finish(h) => handler'[h] = Idle
  BY <1>1 DEF Finish
<1>3. \A pc : Goto(h, pc) => handler'[h] = [handler[h] EXCEPT !.pc = pc]
  BY <1>1 DEF Goto
<1>4. /\ SaveInstallation(h) => handler'[h] = [handler[h] EXCEPT !.pc = "find"]
      /\ CleanupDone(h) => handler'[h] = [handler[h] EXCEPT !.pc = handler[h].then]
      /\ FindInstallation(h) => handler'[h] = IF Present(handler[h].inst) THEN [handler[h] EXCEPT !.pc = "fetch"]
                                              ELSE Idle
      /\ FetchRefused(h) => handler'[h] = [handler[h] EXCEPT !.pc = "deactivate"]
      /\ FetchFails(h) => handler'[h] = [handler[h] EXCEPT !.pc = "deactivate"] \/ handler'[h] = Idle
  BY <1>2, <1>3 DEF SaveInstallation, FindInstallation, FetchRefused, FetchFails, CleanupDone
<1>5. DeactivateInstallation(h) \/ ApplySync(h) \/ ConnectCreate(h) => handler'[h] = Idle
  BY <1>2 DEF DeactivateInstallation, ApplySync, ConnectCreate
<1>6. ASSUME NEW i \in Installation, RequestSync(h, i)
      PROVE  handler'[h] = [Idle EXCEPT !.pc = "fetch", !.inst = i]
  BY <1>1, <1>6 DEF RequestSync
<1>7. ASSUME NEW i \in Installation, NEW r \in Repo, ConnectFetch(h, i, r)
      PROVE  handler'[h] = [Idle EXCEPT !.pc = "connect", !.inst = i, !.list = {r}]
  BY <1>1, <1>7 DEF ConnectFetch
<1>8. ASSUME NEW r \in Repo, LookUpRemoved(h, r)
      PROVE  handler'[h] = [handler[h] EXCEPT !.lookup = @ \ {r},
                                              !.doomed = IF row[r] # NoRow THEN @ \cup {r} ELSE @]
  BY <1>1, <1>8 DEF LookUpRemoved
<1>9. ASSUME NEW r \in Repo, CleanupRepository(h, r)
      PROVE  handler'[h] = [handler[h] EXCEPT !.doomed = @ \ {r}]
  BY <1>1, <1>9 DEF CleanupRepository
<1> DEFINE got == Page(access[handler[h].inst], handler[h].page)
<1>10. ASSUME FetchPage(h)
       PROVE  handler'[h] = [handler[h] EXCEPT !.list = @ \cup got, !.page = @ + 1,
                                        !.pc = IF Cardinality(got) < PageSize THEN "read" ELSE @]
  <2>1. handler' = [handler EXCEPT ![h].list = @ \cup got, ![h].page = @ + 1,
                                   ![h].pc = IF Cardinality(got) < PageSize THEN "read" ELSE @]
    BY <1>10 DEF FetchPage
  <2> HIDE DEF got
  <2> QED
    BY <1>1, <2>1
<1>11. ReadRows(h) =>
         handler'[h] = [handler[h] EXCEPT !.gone = ActiveRowsOf(handler[h].inst) \ handler[h].list, !.pc = "apply"]
  BY <1>1 DEF ReadRows
<1> HIDE DEF got
<1>12. FetchPage(h) => handler'[h] = [handler[h] EXCEPT !.list = @ \cup got, !.page = @ + 1,
                                        !.pc = IF Cardinality(got) < PageSize THEN "read" ELSE @]
  BY <1>10
<1>13. /\ \A i \in Installation : RequestSync(h, i) => handler'[h] = [Idle EXCEPT !.pc = "fetch", !.inst = i]
       /\ \A i \in Installation, r \in Repo :
             ConnectFetch(h, i, r) => handler'[h] = [Idle EXCEPT !.pc = "connect", !.inst = i, !.list = {r}]
  BY <1>6, <1>7
<1>14. /\ \A r \in Repo : LookUpRemoved(h, r) =>
             handler'[h] = [handler[h] EXCEPT !.lookup = @ \ {r},
                                              !.doomed = IF row[r] # NoRow THEN @ \cup {r} ELSE @]
       /\ \A r \in Repo : CleanupRepository(h, r) => handler'[h] = [handler[h] EXCEPT !.doomed = @ \ {r}]
  BY <1>8, <1>9
<1> USE DEF got
<1> QED
  BY <1>4, <1>5, <1>11, <1>12, <1>13, <1>14, Zenon

\* A handler that goes on holds what it may hold, and so does everybody else.
LEMMA HandlersHold ==
  ASSUME HandlersInvariant, NEW h \in Handler, Step(h), NEW g \in Handler
  PROVE  Holds(handler'[g]) /\ Sound(handler'[g])
<1> DEFINE own == handler[h]
<1>1. /\ TypeOK /\ own \in HandlerState /\ own.inst \in Installation
      /\ \A k \in Handler : handler[k] \in HandlerState /\ Holds(handler[k]) /\ Sound(handler[k])
  BY DEF HandlersInvariant, TypeOK, RowsAreGranted, HandlersAreSound, HandlerState
<1>2. CASE g # h
  <2>1. PICK r : handler'[g] = handler[g] \/ handler'[g] = [handler[g] EXCEPT !.doomed = @ \ {r}]
    BY <1>1, <1>2, OthersStay
  <2> QED
    BY <1>1, <2>1 DEF HandlerState, Holds, Sound
<1>3. Holds(Idle) /\ Sound(Idle)
  BY IdleType DEF Holds, Sound
<1>4. ASSUME NEW e \in events, Receive(h, e), g = h
      PROVE  Holds(handler'[g]) /\ Sound(handler'[g])
  <2> DEFINE i == e.body.inst
  <2>1. /\ i \in Installation /\ github[i] # "never" /\ \A r \in e.body.removed : <<i, r>> \in revoked
        /\ e.body.kind \in {"created", "deleted", "repositories"}
        /\ e.body.kind = "deleted" => github[i] = "gone"
    BY DEF HandlersInvariant, Announced, TypeOK, Event
  <2>2. handler \in [Handler -> HandlerState]
    BY <1>1 DEF TypeOK
  <2>3. CASE e.body.kind = "created"
    <3>1. handler'[h] = [Idle EXCEPT !.pc = "save", !.inst = i]
      BY <1>4, <2>2, <2>3 DEF Receive
    <3> QED
      BY <1>4, <2>1, <3>1, IdleType DEF Holds, Sound, HandlerState
  <2>4. CASE e.body.kind = "deleted"
    <3>1. handler'[h] = [Idle EXCEPT !.pc = "cleanup", !.inst = i, !.then = "deactivate", !.doomed = RowsOf(i)]
      BY <1>4, <2>2, <2>4 DEF Receive
    <3>2. \A r \in RowsOf(i) : <<i, r>> \in revoked
      BY <2>1, <2>4 DEF HandlersInvariant, RowsAreGranted, RowsOf, Ever, Announced
    <3> QED
      BY <1>4, <2>1, <2>4, <3>1, <3>2, IdleType DEF Holds, Sound, HandlerState
  <2>5. CASE e.body.kind = "repositories"
    <3>1. handler'[h] = [Idle EXCEPT !.pc = "cleanup", !.inst = i, !.then = "find", !.lookup = e.body.removed]
      BY <1>4, <2>2, <2>5 DEF Receive
    <3> QED
      BY <1>4, <2>1, <3>1, IdleType DEF Holds, Sound, HandlerState
  <2> QED
    BY <2>1, <2>3, <2>4, <2>5
<1>5. ASSUME NEW i \in Installation, RequestSync(h, i), g = h
      PROVE  Holds(handler'[g]) /\ Sound(handler'[g])
  <2>1. handler'[h] = [Idle EXCEPT !.pc = "fetch", !.inst = i]
    BY <1>1, <1>5, OwnMoves
  <2>2. Present(i) /\ github[i] # "never"
    BY <1>5 DEF RequestSync, HandlersInvariant, RowsAreGranted
  <2> QED
    BY <1>5, <2>1, <2>2, IdleType DEF Holds, Sound, HandlerState
<1>6. ASSUME NEW i \in Installation, NEW r \in Repo, ConnectFetch(h, i, r), g = h
      PROVE  Holds(handler'[g]) /\ Sound(handler'[g])
  <2>1. handler'[h] = [Idle EXCEPT !.pc = "connect", !.inst = i, !.list = {r}]
    BY <1>1, <1>6 DEF ConnectFetch, TypeOK
  <2>2. Present(i) /\ github[i] # "never" /\ r \in access[i]
    BY <1>6 DEF ConnectFetch, HandlersInvariant, RowsAreGranted
  <2> QED
    BY <1>6, <2>1, <2>2, IdleType DEF Holds, Sound, HandlerState, Ever
<1>7. ASSUME NEW r \in Repo, LookUpRemoved(h, r) \/ CleanupRepository(h, r), g = h
      PROVE  Holds(handler'[g]) /\ Sound(handler'[g])
  <2>1. CASE LookUpRemoved(h, r)
    <3>1. handler'[h] = [own EXCEPT !.lookup = @ \ {r}, !.doomed = IF row[r] # NoRow THEN @ \cup {r} ELSE @]
      BY <1>1, <2>1, OwnMoves
    <3>2. r \in own.lookup
      BY <2>1 DEF LookUpRemoved
    <3> QED
      BY <1>1, <1>7, <3>1, <3>2 DEF Holds, Sound, HandlerState
  <2>2. CASE CleanupRepository(h, r)
    <3>1. handler'[h] = [own EXCEPT !.doomed = @ \ {r}]
      BY <1>1, <2>2, OwnMoves
    <3> QED
      BY <1>1, <1>7, <3>1 DEF Holds, Sound, HandlerState
  <2> QED
    BY <1>7, <2>1, <2>2
<1>8. ASSUME FetchPage(h), g = h
      PROVE  Holds(handler'[g]) /\ Sound(handler'[g])
  <2> DEFINE got == Page(access[own.inst], own.page)
             pc == IF Cardinality(got) < PageSize THEN "read" ELSE own.pc
  <2>1. handler'[h] = [own EXCEPT !.list = @ \cup got, !.page = @ + 1, !.pc = pc]
    BY <1>1, <1>8, OwnMoves
  <2>2. \A r \in got : Ever(own.inst, r)
    BY DEF Page, Ever
  <2>3. own.pc = "fetch" /\ pc \in {"fetch", "read"}
    BY <1>8 DEF FetchPage
  <2> HIDE DEF got, pc
  <2>4. handler'[h].list = own.list \cup got /\ handler'[h].pc = pc /\ handler'[h].inst = own.inst
        /\ handler'[h].lookup = own.lookup /\ handler'[h].doomed = own.doomed /\ handler'[h].gone = own.gone
    BY <1>1, <2>1 DEF HandlerState
  <2> HIDE DEF own
  <2> QED
    BY <1>1, <1>8, <2>2, <2>3, <2>4 DEF Holds, Sound, own
<1>9. ASSUME ReadRows(h), g = h
      PROVE  Holds(handler'[g]) /\ Sound(handler'[g])
  <2> DEFINE gone == ActiveRowsOf(own.inst) \ own.list
  <2>1. handler'[h] = [own EXCEPT !.gone = gone, !.pc = "apply"]
    BY <1>1, <1>9, OwnMoves
  <2>2. \A r \in gone : Ever(own.inst, r)
    BY DEF ActiveRowsOf, RowsOf, HandlersInvariant, RowsAreGranted
  <2>3. own.pc = "read"
    BY <1>9 DEF ReadRows
  <2> HIDE DEF gone
  <2> QED
    BY <1>1, <1>9, <2>1, <2>2, <2>3 DEF Holds, Sound, HandlerState
<1>10. ASSUME NEW pc, handler'[h] = [own EXCEPT !.pc = pc], g = h, pc \in {"find", "fetch", "deactivate"},
              own.pc # "idle", pc = "find" => own.pc \in {"save", "cleanup", "find"},
              pc = "fetch" => Present(own.inst)
       PROVE  Holds(handler'[g]) /\ Sound(handler'[g])
  BY <1>1, <1>10 DEF Holds, Sound, HandlerState
<1>11. CASE g = h /\ (SaveInstallation(h) \/ FindInstallation(h) \/ FetchRefused(h) \/ FetchFails(h))
  <2>1. CASE SaveInstallation(h)
    BY <1>1, <1>10, <1>11, <2>1, OwnMoves DEF SaveInstallation
  <2>2. CASE FindInstallation(h)
    BY <1>1, <1>3, <1>10, <1>11, <2>2, OwnMoves DEF FindInstallation
  <2>3. CASE FetchRefused(h)
    BY <1>1, <1>10, <1>11, <2>3, OwnMoves DEF FetchRefused
  <2>4. CASE FetchFails(h)
    BY <1>1, <1>3, <1>10, <1>11, <2>4, OwnMoves DEF FetchFails
  <2> QED
    BY <1>11, <2>1, <2>2, <2>3, <2>4
<1>12. CASE g = h /\ CleanupDone(h)
  <2>1. own.pc = "cleanup" /\ handler'[h] = [own EXCEPT !.pc = own.then]
    BY <1>1, <1>12, OwnMoves DEF CleanupDone
  <2>2. own.then \in {"find", "deactivate"}
    BY <1>1, <2>1 DEF Sound
  <2> QED
    BY <1>10, <1>12, <2>1, <2>2
<1>13. CASE g = h /\ (DeactivateInstallation(h) \/ ApplySync(h) \/ ConnectCreate(h))
  BY <1>1, <1>3, <1>13, OwnMoves
<1> QED
  BY <1>2, <1>4, <1>5, <1>6, <1>7, <1>8, <1>9, <1>11, <1>12, <1>13 DEF Step, Progress

\* The same after any step.
LEMMA HandlersStep ==
  ASSUME HandlersInvariant, [Next]_vars
  PROVE  /\ \A g \in Handler : Holds(handler[g])'
         /\ HandlersAreSound'
         /\ \A i \in Installation : Present(i)' => github'[i] # "never"
<1>1. TypeOK /\ TypeOK'
  BY TypeStep DEF HandlersInvariant
<1>2. \A g \in Handler : Holds(handler[g]) /\ Sound(handler[g]) /\ handler[g].inst \in Installation
  BY DEF HandlersInvariant, RowsAreGranted, HandlersAreSound, TypeOK, HandlerState
<1>3. \A i \in Installation : Present(i) => Present(i)'
  BY <1>1, PresentStays
<1>4. \A i \in Installation : Present(i) => github[i] # "never"
  BY DEF HandlersInvariant, RowsAreGranted
<1>5. CASE GitHubStep
  <2>1. GitHubMoved /\ handler' = handler /\ installation' = installation
    BY <1>1, <1>5, GitHubMoves DEF HandlersInvariant
  <2>2. \A g \in Handler : handler[g] \in HandlerState
    BY <1>1 DEF TypeOK
  <2>3. \A g \in Handler : Holds(handler[g])'
    BY <1>2, <2>1, <2>2 DEF GitHubMoved, Holds, HandlerState
  <2>4. \A g \in Handler : Sound(handler[g])'
    BY <1>2, <2>1 DEF GitHubMoved, Sound, Present
  <2> QED
    BY <1>4, <2>1, <2>3, <2>4 DEF GitHubMoved, HandlersAreSound, Present
<1>6. CASE ~GitHubStep
  <2>1. UNCHANGED githubVars
    BY <1>1, <1>6, GitHubRests
  <2>2. \A g \in Handler : Holds(handler'[g]) /\ Sound(handler'[g])
    <3>1. CASE UserStep \/ UNCHANGED vars
      BY <1>2, <3>1 DEF UserStep, SignIn, UpdateSettings, SetActive, vars
    <3>2. CASE Crash
      BY <3>2, IdleType DEF Crash, Holds, Sound
    <3> QED
      BY <1>6, <3>1, <3>2, HandlersHold DEF Next
  <2>3. \A g \in Handler : handler'[g].inst \in Installation
    BY <1>1 DEF TypeOK, HandlerState
  <2>4. \A g \in Handler : Holds(handler[g])'
    BY <2>1, <2>2 DEF Holds, Ever, githubVars
  <2>5. \A g \in Handler : Sound(handler[g])'
    BY <1>3, <2>1, <2>2, <2>3 DEF Sound, githubVars
  <2>6. \A i \in Installation : Present(i)' => Present(i) \/ \E g \in Handler : Busy(g) /\ handler[g].inst = i
    <3>1. CASE installation' = installation
      BY <3>1 DEF Present
    <3>2. ASSUME NEW h \in Handler, SaveInstallation(h) \/ DeactivateInstallation(h) \/ ApplySync(h)
          PROVE  \A i \in Installation : Present(i)' => Present(i) \/ \E g \in Handler : Busy(g) /\ handler[g].inst = i
      BY <1>1, <3>2 DEF SaveInstallation, DeactivateInstallation, ApplySync, Present, Busy, TypeOK
    <3>3. CASE UserStep \/ Crash \/ UNCHANGED vars
      BY <3>1, <3>3 DEF UserStep, SignIn, UpdateSettings, SetActive, Crash, vars
    <3>4. ASSUME NEW h \in Handler, Step(h),
                 ~(SaveInstallation(h) \/ DeactivateInstallation(h) \/ ApplySync(h))
          PROVE  installation' = installation
      BY <3>4 DEF Step, Progress, Receive, RequestSync, ConnectFetch, LookUpRemoved, FetchPage, ReadRows,
                  CleanupDone, FindInstallation, FetchRefused, FetchFails, CleanupRepository, ConnectCreate
    <3> QED
      BY <1>6, <3>1, <3>2, <3>3, <3>4 DEF Next
  <2>7. \A g \in Handler : Busy(g) => github[handler[g].inst] # "never"
    BY <1>2 DEF Sound, Busy
  <2> QED
    BY <1>4, <2>1, <2>4, <2>5, <2>6, <2>7 DEF HandlersAreSound, githubVars
<1> QED
  BY <1>5, <1>6

-----------------------------------------------------------------------------
(* What becomes of a row. *)

\* The row was rewritten in place.
Rewritten(r) ==
    /\ row[r] # NoRow /\ row'[r] # NoRow /\ row'[r].inst = row[r].inst
    /\ row[r].custom => row'[r].custom

\* The row was written by the sync or the connect request of a handler.
WrittenBy(h, r) ==
    /\ handler[h].pc \in {"apply", "connect"} /\ r \in handler[h].list
    /\ row'[r] # NoRow /\ row'[r].inst = handler[h].inst
    /\ row[r] # NoRow => row'[r].custom = row[r].custom

LEMMA DeactivatedRows ==
  ASSUME TypeOK, NEW rs, NEW r \in Repo
  PROVE  /\ r \notin rs \/ row[r] = NoRow => Deactivated(row, rs)[r] = row[r]
         /\ r \in rs /\ row[r] # NoRow =>
               /\ Deactivated(row, rs)[r] # NoRow /\ ~Deactivated(row, rs)[r].active
               /\ Deactivated(row, rs)[r].inst = row[r].inst
               /\ Deactivated(row, rs)[r].custom = row[r].custom
<1>1. row[r] # NoRow => row[r] \in Row /\ [row[r] EXCEPT !.active = FALSE] \in Row
  BY RowType DEF Row
<1>2. \A x \in Row : x # NoRow
  BY RowType
<1> QED
  BY <1>1, <1>2 DEF Deactivated, Row

LEMMA AppliedRows ==
  ASSUME TypeOK, NEW h \in Handler, ApplySync(h), NEW r \in Repo
  PROVE  /\ r \in handler[h].list => WrittenBy(h, r) /\ row'[r].active
         /\ r \notin handler[h].list => row'[r] = Deactivated(row, handler[h].gone)[r]
<1> DEFINE kept == Deactivated(row, handler[h].gone)
<1>1. handler[h].inst \in Installation /\ handler[h].pc = "apply"
  BY DEF TypeOK, HandlerState, ApplySync
<1>2. row'[r] = IF r \in handler[h].list THEN SyncUpsert(kept[r], handler[h].inst) ELSE kept[r]
  BY DEF ApplySync
<1>3. kept \in [Repo -> Row \cup {NoRow}]
  BY <1>1, RowsType
<1>4. row[r] # NoRow => kept[r] # NoRow /\ kept[r].custom = row[r].custom
  BY DeactivatedRows
<1> HIDE DEF kept
<1>5. /\ SyncUpsert(kept[r], handler[h].inst) # NoRow /\ SyncUpsert(kept[r], handler[h].inst).active
      /\ SyncUpsert(kept[r], handler[h].inst).inst = handler[h].inst
      /\ kept[r] # NoRow => SyncUpsert(kept[r], handler[h].inst).custom = kept[r].custom
  BY <1>1, <1>3, RowsType
<1>6. r \in handler[h].list => WrittenBy(h, r) /\ row'[r].active
  BY <1>1, <1>2, <1>4, <1>5 DEF WrittenBy
<1> QED
  BY <1>2, <1>6 DEF kept

LEMMA RowMoves ==
  ASSUME TypeOK, [Next]_vars, NEW r \in Repo
  PROVE  \/ row'[r] = row[r]
         \/ Rewritten(r)
         \/ \E h \in Handler : CleanupRepository(h, r) \/ WrittenBy(h, r)
<1>1. row \in [Repo -> Row \cup {NoRow}]
  BY DEF TypeOK
<1>2. ASSUME NEW h \in Handler, NEW s \in Repo, CleanupRepository(h, s)
      PROVE  row'[r] = row[r] \/ CleanupRepository(h, r)
  BY <1>1, <1>2 DEF CleanupRepository
<1>3. ASSUME NEW h \in Handler, DeactivateInstallation(h)
      PROVE  row'[r] = row[r] \/ Rewritten(r)
  <2>1. row' = Deactivated(row, RowsOf(handler[h].inst))
    BY <1>3 DEF DeactivateInstallation
  <2> QED
    BY <2>1, DeactivatedRows DEF Rewritten
<1>4. ASSUME NEW h \in Handler, ApplySync(h)
      PROVE  row'[r] = row[r] \/ Rewritten(r) \/ WrittenBy(h, r)
  BY <1>4, AppliedRows, DeactivatedRows DEF Rewritten
<1>5. ASSUME NEW h \in Handler, ConnectCreate(h)
      PROVE  row'[r] = row[r] \/ WrittenBy(h, r)
  <2>1. handler[h].inst \in Installation /\ handler[h].pc = "connect"
        /\ row'[r] = IF r \in handler[h].list /\ row[r] = NoRow THEN NewRow(handler[h].inst) ELSE row[r]
    BY <1>5 DEF ConnectCreate, TypeOK, HandlerState
  <2> QED
    BY <2>1, RowsType, RowType DEF WrittenBy
<1>6. ASSUME NEW s \in Repo, UpdateSettings(s) \/ (\E active \in BOOLEAN : SetActive(s, active))
      PROVE  row'[r] = row[r] \/ Rewritten(r)
  <2>1. row[s] \in Row
    BY <1>6, RowType DEF UpdateSettings, SetActive
  <2>2. CASE s # r
    BY <1>1, <1>6, <2>2 DEF UpdateSettings, SetActive
  <2>3. CASE s = r /\ UpdateSettings(s)
    <3>1. row'[r] = [row[r] EXCEPT !.custom = TRUE] /\ [row[r] EXCEPT !.custom = TRUE] \in Row
      BY <1>1, <2>1, <2>3 DEF UpdateSettings, Row
    <3> QED
      BY <2>1, <2>3, <3>1, RowType DEF Rewritten, Row
  <2>4. ASSUME NEW active \in BOOLEAN, s = r, SetActive(s, active)
        PROVE  Rewritten(r)
    <3>1. row'[r] = [row[r] EXCEPT !.active = active] /\ [row[r] EXCEPT !.active = active] \in Row
      BY <1>1, <2>1, <2>4 DEF SetActive, Row
    <3> QED
      BY <2>1, <2>4, <3>1, RowType DEF Rewritten, Row
  <2> QED
    BY <1>6, <2>2, <2>3, <2>4
<1>7. CASE GitHubStep \/ SignIn \/ Crash \/ UNCHANGED vars
  BY <1>7 DEF GitHubStep, Install, Grant, Revoke, Uninstall, Transfer, Announce, SignIn, Crash, vars
<1>8. ASSUME NEW h \in Handler, Step(h), ~(\E s \in Repo : CleanupRepository(h, s)),
             ~(DeactivateInstallation(h) \/ ApplySync(h) \/ ConnectCreate(h))
      PROVE  row' = row
  BY <1>8 DEF Step, Progress, Receive, RequestSync, ConnectFetch, LookUpRemoved, FetchPage, ReadRows,
              CleanupDone, FindInstallation, FetchRefused, FetchFails, SaveInstallation
<1> QED
  BY <1>2, <1>3, <1>4, <1>5, <1>6, <1>7, <1>8 DEF Next, UserStep

\* What was granted or revoked before was so ever since.
LEMMA EverStays ==
  ASSUME HandlersInvariant, [Next]_vars, NEW i \in Installation, NEW r \in Repo
  PROVE  (Ever(i, r) => Ever(i, r)') /\ revoked \subseteq revoked'
<1>1. TypeOK /\ Announced
  BY DEF HandlersInvariant
<1>2. CASE GitHubStep
  BY <1>1, <1>2, GitHubMoves DEF GitHubMoved
<1>3. CASE ~GitHubStep
  BY <1>1, <1>3, GitHubRests DEF githubVars, Ever
<1> QED
  BY <1>2, <1>3

LEMMA RowsStep ==
  ASSUME HandlersInvariant, [Next]_vars
  PROVE  RowsAreGranted'
<1>1. TypeOK /\ TypeOK'
  BY TypeStep DEF HandlersInvariant
<1>2. ASSUME NEW r \in Repo, row'[r] # NoRow
      PROVE  Ever(row[r].inst, r)' /\ Present(row[r].inst)'
  <2>1. row'[r].inst \in Installation
    BY <1>1, <1>2 DEF TypeOK, Row
  <2>2. SUFFICES Ever(row'[r].inst, r) /\ Present(row'[r].inst)
    <3>1. \A i \in Installation : (Ever(i, r) => Ever(i, r)') /\ (Present(i) => Present(i)')
      BY <1>1, EverStays, PresentStays
    <3>2. PICK i \in Installation : i = row'[r].inst
      BY <2>1
    <3>3. Ever(i, r)' /\ Present(i)'
      BY <2>2, <3>1, <3>2
    <3> QED
      BY <3>2, <3>3 DEF Ever, Present
  <2>3. row[r] # NoRow => Ever(row[r].inst, r) /\ Present(row[r].inst)
    BY DEF HandlersInvariant, RowsAreGranted
  <2>4. CASE row'[r] = row[r] \/ Rewritten(r)
    BY <1>2, <2>3, <2>4 DEF Rewritten
  <2>5. ASSUME NEW h \in Handler, CleanupRepository(h, r)
        PROVE  FALSE
    BY <1>1, <1>2, <2>5 DEF CleanupRepository, TypeOK
  <2>6. ASSUME NEW h \in Handler, WrittenBy(h, r)
        PROVE  Ever(row'[r].inst, r) /\ Present(row'[r].inst)
    BY <2>6 DEF WrittenBy, HandlersInvariant, RowsAreGranted, Holds, HandlersAreSound, Sound
  <2> QED
    BY <1>1, <2>4, <2>5, <2>6, RowMoves
<1> QED
  BY <1>2, HandlersStep DEF RowsAreGranted

\* Settings are lost only with a row that was revoked.
LEMMA SettingsStep ==
  ASSUME HandlersInvariant, SettingsSurvive, [Next]_vars
  PROVE  SettingsSurvive'
<1>1. TypeOK /\ TypeOK'
  BY TypeStep DEF HandlersInvariant
<1>2. SUFFICES ASSUME NEW r \in customised', \A i \in Installation : <<i, r>> \notin revoked'
               PROVE  row'[r] # NoRow /\ row'[r].custom
  BY DEF SettingsSurvive
<1>3. r \in Repo /\ \A i \in Installation : <<i, r>> \notin revoked
  BY <1>1, <1>2, EverStays DEF TypeOK
<1>4. CASE r \in customised
  <2>1. row[r] # NoRow /\ row[r].custom
    BY <1>3, <1>4 DEF SettingsSurvive
  <2>2. ASSUME NEW h \in Handler, CleanupRepository(h, r)
        PROVE  FALSE
    <3>1. <<handler[h].inst, r>> \in revoked /\ handler[h].inst \in Installation
      BY <1>1, <2>2 DEF CleanupRepository, HandlersInvariant, RowsAreGranted, Holds, TypeOK, HandlerState
    <3> QED
      BY <1>3, <3>1
  <2> QED
    BY <1>1, <1>3, <2>1, <2>2, RowMoves DEF Rewritten, WrittenBy
<1>5. CASE r \notin customised
  <2>1. UpdateSettings(r)
    <3>1. ASSUME ~(\E s \in Repo : UpdateSettings(s))
          PROVE  customised' = customised
      <4>1. ASSUME NEW h \in Handler, Step(h)
            PROVE  customised' = customised
        BY <4>1 DEF Step, Progress, Receive, RequestSync, ConnectFetch, LookUpRemoved, FetchPage, ReadRows,
                CleanupDone, FindInstallation, FetchRefused, FetchFails, SaveInstallation, CleanupRepository,
                DeactivateInstallation, ApplySync, ConnectCreate, history
      <4> QED
        BY <1>1, <3>1, <4>1, GitHubMoves DEF Next, UserStep, SignIn, SetActive, Crash, vars, history, HandlersInvariant
    <3>2. \A s \in Repo : UpdateSettings(s) => customised' = customised \cup {s}
      BY DEF UpdateSettings
    <3> QED
      BY <1>2, <1>5, <3>1, <3>2
  <2>2. row[r] \in Row /\ row'[r] = [row[r] EXCEPT !.custom = TRUE]
    BY <1>1, <1>3, <2>1, RowType DEF UpdateSettings, TypeOK
  <2>3. row'[r] \in Row /\ row'[r].custom
    BY <2>2 DEF Row
  <2> QED
    BY <1>1, <1>3, <2>3, RowType
<1> QED
  BY <1>4, <1>5

-----------------------------------------------------------------------------
(* While nothing overlaps and nothing fails. *)

\* A handler that goes on was started before, or is started now.
LEMMA StartedOrStarting ==
  ASSUME NEW h \in Handler, Step(h)
  PROVE  \/ Busy(h) /\ (Progress(h) \/ FetchFails(h))
         \/ /\ ~Busy(h)
            /\ \/ \E e \in events : Receive(h, e)
               \/ \E i \in Installation : RequestSync(h, i) \/ \E r \in Repo : ConnectFetch(h, i, r)
<1>1. Progress(h) \/ FetchFails(h) => Busy(h)
  BY DEF Busy, Progress, FetchFails, SaveInstallation, CleanupDone, FindInstallation, FetchPage, FetchRefused,
         DeactivateInstallation, ReadRows, ApplySync, ConnectCreate, LookUpRemoved, CleanupRepository
<1>2. \A e \in events : Receive(h, e) => ~Busy(h)
  BY DEF Receive, Busy
<1>3. \A i \in Installation : RequestSync(h, i) => ~Busy(h)
  BY DEF RequestSync, Busy
<1>4. \A i \in Installation, r \in Repo : ConnectFetch(h, i, r) => ~Busy(h)
  BY DEF ConnectFetch, Busy
<1> QED
  BY <1>1, <1>2, <1>3, <1>4 DEF Step

\* Undisturbed, only one handler is there.
LEMMA OthersIdle ==
  ASSUME TypeOK, Undisturbed, ~disturbed, ~disturbed', NEW h \in Handler, Step(h), NEW g \in Handler, g # h
  PROVE  ~Busy(g) /\ ~Busy(g)'
<1>1. ~Busy(g)
  <2>1. CASE Busy(h)
    BY <2>1 DEF Undisturbed, OneHandler
  <2>2. CASE ~Busy(h)
    <3>1. Alone(h)
      BY <2>2, StartedOrStarting DEF Receive, RequestSync, ConnectFetch
    <3> QED
      BY <3>1 DEF Alone, Busy
  <2> QED
    BY <2>1, <2>2
<1>2. handler[g] \in HandlerState
  BY DEF TypeOK
<1> QED
  BY <1>1, <1>2, OthersStay DEF Busy, HandlerState

\* What the one handler does.
LEMMA StepUndisturbed ==
  ASSUME TypeOK, ~disturbed', NEW h \in Handler, Step(h), HandlersAreSound, handler[h].pc # "connect"
  PROVE  \/ \E e \in events : Receive(h, e)
         \/ \E i \in Installation : RequestSync(h, i)
         \/ Progress(h) /\ ~ConnectCreate(h)
BY DEF Step, ConnectFetch, FetchFails, ConnectCreate

LEMMA PcMoves ==
  ASSUME TypeOK, HandlersAreSound, NEW h \in Handler
  PROVE  /\ \A e \in events : Receive(h, e) =>
               /\ handler'[h].inst = e.body.inst /\ handler'[h].pc \in {"save", "cleanup"}
               /\ e.body.kind = "created" => handler'[h].pc = "save"
         /\ \A i \in Installation : RequestSync(h, i) => handler'[h].inst = i /\ handler'[h].pc = "fetch"
         /\ Progress(h) /\ ~ConnectCreate(h) =>
               \/ handler'[h] = Idle
               \/ handler'[h].inst = handler[h].inst /\ handler'[h].pc \in PC \ {"idle", "connect", "save"}
<1>1. handler[h] \in HandlerState /\ handler \in [Handler -> HandlerState] /\ Sound(handler[h])
  BY DEF TypeOK, HandlersAreSound
<1>2. ASSUME NEW e \in events, Receive(h, e)
      PROVE  /\ handler'[h].inst = e.body.inst /\ handler'[h].pc \in {"save", "cleanup"}
             /\ e.body.kind = "created" => handler'[h].pc = "save"
  <2>1. e.body.kind \in {"created", "deleted", "repositories"}
    BY DEF TypeOK, Event
  <2> QED
    BY <1>1, <1>2, <2>1, IdleType DEF Receive, HandlerState
<1>3. ASSUME NEW i \in Installation, RequestSync(h, i)
      PROVE  handler'[h].inst = i /\ handler'[h].pc = "fetch"
  BY <1>1, <1>3, IdleType DEF RequestSync, HandlerState
<1>4. ASSUME Progress(h), ~ConnectCreate(h)
      PROVE  \/ handler'[h] = Idle
             \/ handler'[h].inst = handler[h].inst /\ handler'[h].pc \in PC \ {"idle", "connect", "save"}
  <2>1. CASE SaveInstallation(h) \/ FindInstallation(h) \/ FetchRefused(h)
    <3>1. handler'[h] = Idle \/ \E pc \in {"find", "fetch", "deactivate"} : handler'[h] = [handler[h] EXCEPT !.pc = pc]
      BY <2>1, OwnMoves
    <3> QED
      BY <1>1, <3>1 DEF HandlerState, PC
  <2>2. CASE CleanupDone(h)
    <3>1. handler'[h] = [handler[h] EXCEPT !.pc = handler[h].then] /\ handler[h].pc = "cleanup"
      BY <2>2, OwnMoves DEF CleanupDone
    <3>2. handler[h].then \in {"find", "deactivate"}
      BY <1>1, <3>1 DEF Sound
    <3> QED
      BY <1>1, <3>1, <3>2 DEF HandlerState, PC
  <2>3. CASE DeactivateInstallation(h) \/ ApplySync(h)
    BY <2>3, OwnMoves
  <2>4. ASSUME NEW r \in Repo, LookUpRemoved(h, r) \/ CleanupRepository(h, r)
        PROVE  handler'[h].inst = handler[h].inst /\ handler'[h].pc = "cleanup"
    BY <1>1, <2>4 DEF LookUpRemoved, CleanupRepository, HandlerState
  <2>5. CASE FetchPage(h)
    BY <1>1, <2>5 DEF FetchPage, HandlerState, PC
  <2>6. CASE ReadRows(h)
    BY <1>1, <2>6 DEF ReadRows, HandlerState, PC
  <2> QED
    BY <1>4, <2>1, <2>2, <2>3, <2>4, <2>5, <2>6 DEF Progress, PC
<1> QED
  BY <1>2, <1>3, <1>4

\* A handler touches no other installation's rows.
LEMMA OtherInstallation ==
  ASSUME HandlersInvariant, OneOwner, NEW h \in Handler, Step(h), handler[h].pc # "connect",
         NEW i \in Installation, Busy(h) => handler[h].inst # i
  PROVE  ActiveRowsOf(i)' = ActiveRowsOf(i) /\ installation'[i] = installation[i]
<1> DEFINE j == handler[h].inst
<1>1. /\ TypeOK /\ j \in Installation /\ Holds(handler[h]) /\ row \in [Repo -> Row \cup {NoRow}]
      /\ handler[h] \in HandlerState
  BY DEF HandlersInvariant, TypeOK, HandlerState, RowsAreGranted
<1>2. \A r \in Repo : row[r] # NoRow => Ever(row[r].inst, r) /\ row[r].inst \in Installation
  BY <1>1, RowType DEF HandlersInvariant, RowsAreGranted, Row
<1>3. ASSUME Busy(h), NEW r \in Repo, row[r] # NoRow, Ever(j, r)
      PROVE  row[r].inst # i
  BY <1>1, <1>2, <1>3 DEF OneOwner
<1>4. SUFFICES /\ \A r \in Repo : row'[r] # row[r] =>
                     (row[r] # NoRow => row[r].inst # i) /\ (row'[r] # NoRow => row'[r].inst # i)
               /\ installation'[i] = installation[i]
  <2>1. \A r \in Repo : (row'[r] # NoRow /\ row'[r].inst = i /\ row'[r].active)
                         <=> (row[r] # NoRow /\ row[r].inst = i /\ row[r].active)
    <3> TAKE r \in Repo
    <3>1. CASE row'[r] = row[r]
      BY <3>1
    <3>2. CASE row'[r] # row[r]
      <4>1. (row[r] # NoRow => row[r].inst # i) /\ (row'[r] # NoRow => row'[r].inst # i)
        BY <1>4, <3>2
      <4> QED
        BY <4>1
    <3> QED
      BY <3>1, <3>2
  <2> QED
    BY <1>4, <2>1 DEF ActiveRowsOf, RowsOf
<1>5. CASE SaveInstallation(h)
  BY <1>1, <1>5 DEF SaveInstallation, Busy, TypeOK
<1>6. ASSUME NEW r \in Repo, CleanupRepository(h, r)
      PROVE  (\A s \in Repo : row'[s] # row[s] => (row[s] # NoRow => row[s].inst # i) /\ row'[s] = NoRow)
             /\ installation'[i] = installation[i]
  <2>1. Ever(j, r) /\ Busy(h)
    BY <1>1, <1>6 DEF CleanupRepository, Holds, Ever, Busy
  <2>2. \A s \in Repo : row'[s] # row[s] => s = r /\ row'[s] = NoRow
    BY <1>1, <1>6 DEF CleanupRepository
  <2> QED
    BY <1>3, <1>6, <2>1, <2>2 DEF CleanupRepository
<1>7. CASE DeactivateInstallation(h)
  <2>1. Busy(h) /\ row' = Deactivated(row, RowsOf(j))
        /\ installation' = [installation EXCEPT ![j] = IF @ = "absent" THEN @ ELSE "inactive"]
    BY <1>7 DEF DeactivateInstallation, Busy
  <2>2. installation'[i] = installation[i]
    BY <1>1, <2>1 DEF TypeOK
  <2>3. ASSUME NEW r \in Repo, row'[r] # row[r]
        PROVE  row[r] # NoRow /\ row[r].inst = j /\ row'[r].inst = j
    <3>1. r \in RowsOf(j) /\ row[r] # NoRow
      BY <1>1, <2>1, <2>3, DeactivatedRows
    <3> QED
      BY <1>1, <2>1, <3>1, DeactivatedRows DEF RowsOf
  <2> QED
    BY <2>1, <2>2, <2>3
<1>8. CASE ApplySync(h)
  <2>1. Busy(h) /\ installation' = [installation EXCEPT ![j] = "active"]
    BY <1>8 DEF ApplySync, Busy
  <2>2. installation'[i] = installation[i]
    BY <1>1, <2>1 DEF TypeOK
  <2>3. ASSUME NEW r \in Repo, row'[r] # row[r]
        PROVE  (row[r] # NoRow => row[r].inst # i) /\ row'[r].inst # i
    <3>1. CASE r \in handler[h].list
      <4>1. row'[r].inst = j /\ Ever(j, r)
        BY <1>1, <1>8, <3>1, AppliedRows DEF WrittenBy, Holds
      <4> QED
        BY <1>3, <2>1, <4>1
    <3>2. CASE r \notin handler[h].list
      <4>1. row'[r] = Deactivated(row, handler[h].gone)[r]
        BY <1>1, <1>8, <3>2, AppliedRows
      <4>2. r \in handler[h].gone /\ row[r] # NoRow /\ row'[r].inst = row[r].inst
        BY <1>1, <2>3, <4>1, DeactivatedRows
      <4>3. Ever(j, r)
        BY <1>1, <4>2 DEF Holds
      <4> QED
        BY <1>3, <2>1, <4>2, <4>3
    <3> QED
      BY <3>1, <3>2
  <2> QED
    BY <2>2, <2>3
<1>9. ASSUME ~(\/ SaveInstallation(h) \/ (\E r \in Repo : CleanupRepository(h, r))
               \/ DeactivateInstallation(h) \/ ApplySync(h))
      PROVE  row' = row /\ installation' = installation
  BY <1>9 DEF Step, Progress, Receive, RequestSync, ConnectFetch, LookUpRemoved, FetchPage, ReadRows,
              CleanupDone, FindInstallation, FetchRefused, FetchFails, ConnectCreate
<1> QED
  BY <1>5, <1>6, <1>7, <1>8, <1>9

\* The table is as GitHub has it, if nobody works on the installation.
LEMMA WasConsistent ==
  ASSUME Undisturbed, ~disturbed, NEW i \in Installation, Quiet(i), NEW h \in Handler,
         \A g \in Handler : g # h => ~Busy(g), Busy(h) => handler[h].inst # i
  PROVE  Consistent(i)
<1>1. \A g \in Handler : Busy(g) => handler[g].inst # i
  OBVIOUS
<1> QED
  BY <1>1 DEF Undisturbed, QuietInstallation

\* A row looks the same to the rest of a step as before.
LEMMA SameRows ==
  ASSUME row' = row
  PROVE  \A i : ActiveRowsOf(i)' = ActiveRowsOf(i)
BY DEF ActiveRowsOf, RowsOf

\* A handler starts.
LEMMA QuietStarts ==
  ASSUME SyncInvariant, ~disturbed, ~disturbed', NEW h \in Handler,
         (\E e \in events : Receive(h, e)) \/ (\E k \in Installation : RequestSync(h, k)),
         NEW i \in Installation
  PROVE  QuietInstallation(i)'
<1>1. TypeOK /\ Undisturbed /\ HandlersAreSound /\ Step(h) /\ [Next]_vars
  BY DEF SyncInvariant, Step, Next
<1>2. UNCHANGED <<github, access, row, installation>> /\ ~Busy(h)
  BY DEF Receive, RequestSync, githubVars, Busy
<1>3. \A g \in Handler : g # h => ~Busy(g) /\ ~Busy(g)'
  BY <1>1, OthersIdle
<1>4. PICK k \in Installation :
         /\ handler'[h].inst = k
         /\ handler'[h].pc \in {"save", "cleanup"}
            \/ (RequestSync(h, k) /\ handler'[h].pc = "fetch")
         /\ Quiet(i)' => k = i \/ Quiet(i)
  <2>1. ASSUME NEW e \in events, Receive(h, e)
        PROVE  \E k \in Installation :
                 /\ handler'[h].inst = k /\ handler'[h].pc \in {"save", "cleanup"}
                 /\ Quiet(i)' => k = i \/ Quiet(i)
    <3>1. events' = events \ {e} /\ e.body.inst \in Installation
      BY <1>1, <2>1 DEF Receive, TypeOK, Event
    <3>2. Quiet(i)' => e.body.inst = i \/ Quiet(i)
      BY <3>1 DEF Quiet
    <3> QED
      BY <1>1, <2>1, <3>1, <3>2, PcMoves
  <2>2. ASSUME NEW k \in Installation, RequestSync(h, k)
        PROVE  /\ handler'[h].inst = k /\ RequestSync(h, k) /\ handler'[h].pc = "fetch"
               /\ Quiet(i)' => k = i \/ Quiet(i)
    <3>1. Quiet(i)' => Quiet(i)
      BY <2>2 DEF RequestSync, Quiet
    <3> QED
      BY <1>1, <2>2, <3>1, PcMoves
  <2> QED
    BY <2>1, <2>2
<1>5. Busy(h)'
  BY <1>4 DEF Busy
<1>6. SUFFICES ASSUME Quiet(i)'
               PROVE  /\ (\A g \in Handler : Busy(g)' => handler'[g].inst # i) => Consistent(i)'
                      /\ \A g \in Handler : handler'[g].inst = i => Informed(i, handler[g])'
  BY DEF QuietInstallation
<1>7. ASSUME \A g \in Handler : Busy(g)' => handler'[g].inst # i
      PROVE  Consistent(i)'
  <2>1. k # i /\ Quiet(i)
    BY <1>4, <1>5, <1>6, <1>7
  <2>2. Consistent(i)
    BY <1>1, <1>2, <1>3, <2>1, WasConsistent
  <2> QED
    BY <1>2, <2>2, SameRows DEF Consistent
<1>8. ASSUME NEW g \in Handler, handler'[g].inst = i
      PROVE  Informed(i, handler[g])'
  <2>1. CASE g # h
    BY <1>3, <2>1 DEF Informed, Busy
  <2>2. CASE g = h /\ handler'[h].pc \in {"save", "cleanup"}
    BY <2>2 DEF Informed
  <2>3. CASE g = h /\ RequestSync(h, k)
    <3>1. handler'[h] = [Idle EXCEPT !.pc = "fetch", !.inst = k]
      BY <1>1, <2>3, OwnMoves
    <3>2. handler'[h].list = {} /\ handler'[h].page - 1 = 0 /\ handler'[h].pc = "fetch"
      BY <3>1, IdleType DEF HandlerState
    <3>3. UpTo(access[i], 0) = {}
      <4>1. access[i] \in SUBSET Repo /\ 1 \in Nat \ {0}
        BY <1>1 DEF TypeOK
      <4> QED
        BY <4>1, NextPage
    <3>4. UpTo(access[i], 0)' = UpTo(access[i], 0)
      BY <1>2 DEF UpTo, Rank
    <3> QED
      BY <1>2, <2>3, <3>2, <3>3 DEF Informed, UpTo, Rank
  <2> QED
    BY <1>4, <2>1, <2>2, <2>3
<1> QED
  BY <1>7, <1>8

\* The handler of another installation goes on.
LEMMA QuietOther ==
  ASSUME SyncInvariant, ~disturbed, ~disturbed', NEW h \in Handler, Progress(h), ~ConnectCreate(h),
         NEW i \in Installation, handler[h].inst # i
  PROVE  QuietInstallation(i)'
<1>1. /\ TypeOK /\ Undisturbed /\ HandlersAreSound /\ Step(h) /\ HandlersInvariant
      /\ OneOwner /\ handler[h].pc # "connect"
  BY DEF SyncInvariant, Step, HandlersInvariant, Undisturbed
<1>2. UNCHANGED <<github, access, events>>
  BY DEF Progress, LookUpRemoved, FetchPage, ReadRows, CleanupDone, FindInstallation, FetchRefused,
         SaveInstallation, CleanupRepository, DeactivateInstallation, ApplySync, githubVars
<1>3. \A g \in Handler : g # h => ~Busy(g) /\ ~Busy(g)'
  BY <1>1, OthersIdle
<1>4. handler'[h] = Idle \/ handler'[h].inst # i
  BY <1>1, PcMoves
<1>5. Quiet(i)' => Consistent(i)'
  <2>1. ActiveRowsOf(i)' = ActiveRowsOf(i) /\ installation'[i] = installation[i]
    BY <1>1, OtherInstallation
  <2>2. Quiet(i) => Consistent(i)
    BY <1>1, <1>3, WasConsistent
  <2>3. Quiet(i)' = Quiet(i)
    BY <1>2 DEF Quiet
  <2> QED
    BY <1>2, <2>1, <2>2, <2>3 DEF Consistent
<1>6. \A g \in Handler : handler'[g].inst = i => handler'[g].pc = "idle"
  BY <1>3, <1>4, IdleType DEF Busy
<1> QED
  BY <1>5, <1>6 DEF QuietInstallation, Informed

\* A sync that ends has written what GitHub has.
LEMMA SyncIsRight ==
  ASSUME SyncInvariant, NEW h \in Handler, ApplySync(h),
         NEW i \in Installation, handler[h].inst = i, Informed(i, handler[h])
  PROVE  Consistent(i)'
<1> DEFINE list == handler[h].list
           gone == handler[h].gone
<1>1. TypeOK /\ handler[h].pc = "apply" /\ access[i] \in SUBSET Repo
  BY DEF SyncInvariant, ApplySync, TypeOK, HandlerState
<1>2. list = access[i] /\ github[i] = "installed" /\ gone = ActiveRowsOf(i) \ list
  BY <1>1 DEF Informed
<1>3. access' = access /\ github' = github /\ installation'[i] = "active" /\ handler'[h] = Idle
  BY <1>1, OwnMoves DEF ApplySync, TypeOK, githubVars
<1>4. ASSUME NEW r \in Repo
      PROVE  (row'[r] # NoRow /\ row'[r].inst = i /\ row'[r].active) <=> r \in list
  <2>1. CASE r \in list
    BY <1>1, <2>1, AppliedRows DEF WrittenBy
  <2>2. CASE r \notin list
    <3>1. row'[r] = Deactivated(row, gone)[r]
      BY <1>1, <2>2, AppliedRows
    <3>2. CASE r \in gone /\ row[r] # NoRow
      <4>1. ~row'[r].active
        BY <1>1, <3>1, <3>2, DeactivatedRows
      <4> QED
        BY <2>2, <4>1
    <3>3. CASE r \notin gone \/ row[r] = NoRow
      <4>1. row'[r] = row[r]
        BY <1>1, <3>1, <3>3, DeactivatedRows
      <4>2. r \notin ActiveRowsOf(i)
        BY <1>2, <2>2, <3>3 DEF ActiveRowsOf, RowsOf
      <4>3. ~(row[r] # NoRow /\ row[r].inst = i /\ row[r].active)
        BY <4>2 DEF ActiveRowsOf, RowsOf
      <4> QED
        BY <2>2, <4>1, <4>3
    <3> QED
      BY <3>2, <3>3
  <2> QED
    BY <2>1, <2>2
<1>5. {r \in {q \in Repo : row'[q] # NoRow /\ row'[q].inst = i} : row'[r].active} = list
  <2>1. \A r : r \in list => r \in Repo
    BY <1>1, <1>2
  <2> HIDE DEF list
  <2> QED
    BY <1>4, <2>1
<1>6. ActiveRowsOf(i)' = list
  BY <1>5 DEF ActiveRowsOf, RowsOf
<1> QED
  BY <1>2, <1>3, <1>6 DEF Consistent

\* A deactivation too.
LEMMA DeactivationIsRight ==
  ASSUME SyncInvariant, NEW h \in Handler, DeactivateInstallation(h),
         NEW i \in Installation, handler[h].inst = i, Informed(i, handler[h])
  PROVE  Consistent(i)'
<1>1. TypeOK /\ handler[h].pc = "deactivate"
  BY DEF SyncInvariant, DeactivateInstallation
<1>2. github[i] # "installed" /\ access[i] = {}
  BY <1>1 DEF Informed, SyncInvariant, Announced
<1>3. /\ access' = access /\ github' = github /\ row' = Deactivated(row, RowsOf(i))
      /\ installation' = [installation EXCEPT ![i] = IF @ = "absent" THEN @ ELSE "inactive"]
  BY DEF DeactivateInstallation, githubVars
<1>4. installation'[i] # "active"
  BY <1>1, <1>3 DEF TypeOK
<1>5. ASSUME NEW r \in Repo
      PROVE  ~(row'[r] # NoRow /\ row'[r].inst = i /\ row'[r].active)
  <2>1. CASE r \in RowsOf(i)
    <3>1. row[r] # NoRow
      BY <2>1 DEF RowsOf
    <3>2. ~row'[r].active
      BY <1>1, <1>3, <2>1, <3>1, DeactivatedRows
    <3> QED
      BY <3>2
  <2>2. CASE r \notin RowsOf(i)
    <3>1. row'[r] = row[r]
      BY <1>1, <1>3, <2>2, DeactivatedRows
    <3> QED
      BY <2>2, <3>1 DEF RowsOf
  <2> QED
    BY <2>1, <2>2
<1>6. ActiveRowsOf(i)' = {}
  BY <1>5 DEF ActiveRowsOf, RowsOf
<1> QED
  BY <1>2, <1>3, <1>4, <1>6 DEF Consistent

\* The handler's own installation, while the handler works on it: what the handler knows
\* stays true.
LEMMA QuietOwn ==
  ASSUME SyncInvariant, ~disturbed, ~disturbed', NEW h \in Handler, Progress(h), ~ConnectCreate(h),
         NEW i \in Installation, handler[h].inst = i
  PROVE  QuietInstallation(i)'
<1> DEFINE own == handler[h]
<1>1. /\ TypeOK /\ Undisturbed /\ HandlersAreSound /\ Step(h) /\ Sound(own)
      /\ own \in HandlerState /\ access[i] \in SUBSET Repo
  BY DEF SyncInvariant, Step, HandlersAreSound, TypeOK
<1>2. UNCHANGED <<github, access, events>> /\ Busy(h)
  BY DEF Progress, LookUpRemoved, FetchPage, ReadRows, CleanupDone, FindInstallation, FetchRefused, Busy,
         SaveInstallation, CleanupRepository, DeactivateInstallation, ApplySync, githubVars
<1>3. \A g \in Handler : g # h => ~Busy(g) /\ ~Busy(g)'
  BY <1>1, OthersIdle
<1>4. SUFFICES ASSUME Quiet(i)
               PROVE  /\ ~Busy(h)' => Consistent(i)'
                      /\ Busy(h)' => handler'[h].inst = i /\ Informed(i, handler[h])'
  <2>1. Quiet(i)' = Quiet(i)
    BY <1>2 DEF Quiet
  <2>2. \A g \in Handler : g # h => Informed(i, handler[g])'
    BY <1>3 DEF Informed, Busy
  <2>3. ~Busy(h)' => Informed(i, handler[h])'
    BY DEF Informed, Busy
  <2> QED
    BY <1>3, <1>4, <2>1, <2>2, <2>3 DEF QuietInstallation
<1>5. Informed(i, own)
  BY <1>1, <1>4 DEF Undisturbed, QuietInstallation
<1>6. UpTo(access[i], 0) = {} /\ \A n : UpTo(access[i], n)' = UpTo(access[i], n)
  <2>1. 1 \in Nat \ {0}
    OBVIOUS
  <2> QED
    BY <1>1, <1>2, <2>1, NextPage DEF UpTo, Rank
<1>7. ASSUME NEW pc \in {"find", "cleanup"}, handler'[h].pc = pc, handler'[h].inst = i
      PROVE  Busy(h)' /\ Informed(i, handler[h])'
  BY <1>7 DEF Informed, Busy
<1>8. CASE SaveInstallation(h)
  <2>1. handler'[h] = [own EXCEPT !.pc = "find"]
    BY <1>1, <1>8, OwnMoves
  <2>2. handler'[h].pc = "find" /\ handler'[h].inst = i
    BY <1>1, <2>1 DEF HandlerState
  <2> QED
    BY <1>7, <2>2
<1>9. ASSUME NEW r \in Repo, LookUpRemoved(h, r) \/ CleanupRepository(h, r)
      PROVE  Busy(h)' /\ handler'[h].inst = i /\ Informed(i, handler[h])'
  <2>1. handler'[h].inst = i /\ handler'[h].pc = "cleanup"
    BY <1>1, <1>9 DEF LookUpRemoved, CleanupRepository, HandlerState, TypeOK
  <2> QED
    BY <1>7, <2>1
<1>10. CASE CleanupDone(h)
  <2>1. handler'[h] = [own EXCEPT !.pc = own.then] /\ own.pc = "cleanup"
    BY <1>1, <1>10, OwnMoves DEF CleanupDone
  <2>2. CASE own.then = "find"
    BY <1>1, <1>7, <2>1, <2>2 DEF HandlerState
  <2>3. CASE own.then # "find"
    <3>1. own.then = "deactivate" /\ github[i] = "gone"
      BY <1>1, <2>1, <2>3 DEF Sound
    <3>2. handler'[h].pc = "deactivate" /\ handler'[h].inst = i
      BY <1>1, <2>1, <3>1 DEF HandlerState
    <3> QED
      BY <1>2, <3>1, <3>2 DEF Informed, Busy
  <2> QED
    BY <2>2, <2>3
<1>11. CASE FindInstallation(h)
  <2>1. own.pc = "find" /\ handler'[h] = IF Present(i) THEN [own EXCEPT !.pc = "fetch"] ELSE Idle
    BY <1>1, <1>11, OwnMoves DEF FindInstallation
  <2>2. Present(i)
    <3>1. github[i] # "never" /\ KnownOrComing
      BY <1>1, <2>1 DEF Sound, Undisturbed
    <3>2. ~(\E e \in events : e.body.kind = "created" /\ e.body.inst = i)
      BY <1>4 DEF Quiet
    <3>3. ~(\E g \in Handler : handler[g].pc = "save")
      BY <1>3, <2>1 DEF Busy
    <3> QED
      BY <3>1, <3>2, <3>3 DEF KnownOrComing
  <2>3. handler'[h].pc = "fetch" /\ handler'[h].list = {} /\ handler'[h].page = 1 /\ handler'[h].inst = i
    BY <1>1, <2>1, <2>2 DEF HandlerState, Sound
  <2>4. handler'[h].page - 1 = 0
    BY <2>3
  <2> QED
    BY <1>2, <1>6, <2>3, <2>4 DEF Informed, Busy, UpTo, Rank
<1>12. CASE FetchPage(h)
  <2> DEFINE got == Page(access[i], own.page)
             pc == IF Cardinality(got) < PageSize THEN "read" ELSE own.pc
  <2>1. own.pc = "fetch" /\ github[i] = "installed" /\ handler'[h] = [own EXCEPT !.list = @ \cup got, !.page = @ + 1, !.pc = pc]
    BY ZenonT(40), <1>1, <1>12, OwnMoves DEF FetchPage
  <2>2. own.list = UpTo(access[i], own.page - 1)
    BY <1>5, <2>1 DEF Informed
  <2>3. own.page \in Nat \ {0}
    BY <1>1 DEF HandlerState
  <2>4. own.list \cup got = UpTo(access[i], own.page)
    BY <1>1, <2>2, <2>3, NextPage
  <2>5. Cardinality(got) < PageSize => UpTo(access[i], own.page) = access[i]
    BY <1>1, <2>3, ShortPageIsLast
  <2>6. (pc = "fetch" /\ ~(Cardinality(got) < PageSize)) \/ (pc = "read" /\ Cardinality(got) < PageSize)
    BY <2>1
  <2> HIDE DEF got, pc
  <2>7. /\ handler'[h].list = UpTo(access[i], own.page) /\ handler'[h].page = own.page + 1
        /\ handler'[h].pc = pc /\ handler'[h].inst = i
    BY <1>1, <2>1, <2>4 DEF HandlerState
  <2>8. handler'[h].page - 1 = own.page
    BY <2>3, <2>7
  <2> HIDE DEF own
  <2>9. CASE pc = "fetch"
    BY <1>2, <2>7, <2>8, <2>9 DEF Informed, Busy, UpTo, Rank
  <2>10. CASE pc = "read"
    BY <1>2, <2>1, <2>5, <2>6, <2>7, <2>10 DEF Informed, Busy
  <2> QED
    BY <2>6, <2>9, <2>10
<1>13. CASE FetchRefused(h)
  <2>1. handler'[h] = [own EXCEPT !.pc = "deactivate"] /\ github[i] # "installed"
    BY <1>1, <1>13, OwnMoves DEF FetchRefused
  <2>2. handler'[h].pc = "deactivate" /\ handler'[h].inst = i
    BY <1>1, <2>1 DEF HandlerState
  <2> QED
    BY <1>2, <2>1, <2>2 DEF Informed, Busy
<1>14. CASE ReadRows(h)
  <2> DEFINE gone == ActiveRowsOf(i) \ own.list
  <2>1. own.pc = "read" /\ row' = row /\ handler'[h] = [own EXCEPT !.gone = gone, !.pc = "apply"]
    BY <1>1, <1>14, OwnMoves DEF ReadRows
  <2> HIDE DEF gone
  <2>2. /\ handler'[h].pc = "apply" /\ handler'[h].inst = i /\ handler'[h].gone = gone
        /\ handler'[h].list = own.list
    BY <1>1, <2>1 DEF HandlerState
  <2>3. ActiveRowsOf(i)' = ActiveRowsOf(i)
    BY <2>1, SameRows
  <2>4. own.list = access[i] /\ github[i] = "installed"
    BY <1>5, <2>1 DEF Informed
  <2> HIDE DEF own
  <2> QED
    BY <1>2, <2>2, <2>3, <2>4 DEF Informed, Busy, gone
<1>15. CASE ApplySync(h) \/ DeactivateInstallation(h)
  <2>1. handler'[h] = Idle
    BY <1>1, <1>15, OwnMoves
  <2>2. Consistent(i)'
    BY <1>5, <1>15, SyncIsRight, DeactivationIsRight
  <2> QED
    BY <2>1, <2>2, IdleType DEF Busy
<1> QED
  BY <1>7, <1>8, <1>9, <1>10, <1>11, <1>12, <1>13, <1>14, <1>15 DEF Progress

\* Only one handler, no connect request, and no installation is forgotten.
LEMMA OneHandlerStep ==
  ASSUME SyncInvariant, ~disturbed, ~disturbed', NEW h \in Handler, Step(h)
  PROVE  /\ OneHandler' /\ KnownOrComing'
         /\ \A g \in Handler : handler'[g].pc # "connect"
<1>1. /\ TypeOK /\ HandlersAreSound /\ handler[h].pc # "connect" /\ KnownOrComing /\ [Next]_vars
      /\ github' = github /\ Undisturbed
  BY GitHubRests DEF SyncInvariant, Undisturbed, Next, Step, Progress, LookUpRemoved, FetchPage, ReadRows,
     CleanupDone, FindInstallation, FetchRefused, SaveInstallation, CleanupRepository, DeactivateInstallation,
     ApplySync, githubVars, Receive, RequestSync, ConnectFetch, FetchFails, ConnectCreate
<1>2. \A g \in Handler : g # h => ~Busy(g) /\ ~Busy(g)'
  BY <1>1, OthersIdle
<1>3. \/ \E e \in events : Receive(h, e)
      \/ \E i \in Installation : RequestSync(h, i)
      \/ Progress(h) /\ ~ConnectCreate(h)
  BY <1>1, StepUndisturbed
<1>4. handler'[h].pc # "connect"
  BY <1>1, <1>3, PcMoves, IdleType
<1>5. ASSUME NEW i \in Installation, github[i] # "never"
      PROVE  \/ Present(i)'
             \/ \E e \in events' : e.body.kind = "created" /\ e.body.inst = i
             \/ \E g \in Handler : handler'[g].pc = "save" /\ handler'[g].inst = i
  <2>1. CASE Present(i)
    BY <1>1, <2>1, PresentStays
  <2>2. ASSUME NEW e \in events, e.body.kind = "created", e.body.inst = i
        PROVE  \/ e \in events'
               \/ handler'[h].pc = "save" /\ handler'[h].inst = i
    <3>1. CASE Receive(h, e)
      BY <1>1, <2>2, <3>1, PcMoves
    <3>2. CASE ~Receive(h, e)
      <4>1. e \in events'
        <5>1. ASSUME NEW f \in events, Receive(h, f)
              PROVE  e \in events'
          BY <3>2, <5>1 DEF Receive
        <5>2. CASE Progress(h) \/ \E k \in Installation : RequestSync(h, k)
          BY <5>2 DEF RequestSync, Progress, LookUpRemoved, FetchPage, ReadRows,
             CleanupDone, FindInstallation, FetchRefused, SaveInstallation, CleanupRepository,
             DeactivateInstallation, ApplySync, ConnectCreate
        <5> QED
          BY <1>3, <5>1, <5>2
      <4> QED
        BY <4>1
    <3> QED
      BY <3>1, <3>2
  <2>3. ASSUME NEW g \in Handler, handler[g].pc = "save", handler[g].inst = i
        PROVE  Present(i)'
    <3>1. g = h
      BY <1>2, <2>3 DEF Busy
    <3>2. SaveInstallation(h)
      BY <1>3, <2>3, <3>1 DEF Receive, RequestSync, Progress, LookUpRemoved, FetchPage, ReadRows,
             CleanupDone, FindInstallation, FetchRefused, CleanupRepository, DeactivateInstallation, ApplySync
    <3> QED
      BY <1>1, <2>3, <3>1, <3>2 DEF SaveInstallation, Present, TypeOK
  <2> QED
    BY <1>1, <1>5, <2>1, <2>2, <2>3 DEF KnownOrComing
<1>6. KnownOrComing'
  BY <1>1, <1>5 DEF KnownOrComing
<1>7. OneHandler'
  BY <1>2 DEF OneHandler
<1>8. ASSUME NEW g \in Handler
      PROVE  handler'[g].pc # "connect"
  BY <1>2, <1>4 DEF Busy
<1> QED
  BY <1>6, <1>7, <1>8

\* What GitHub, the user or nobody does changes nothing of this.
LEMMA UndisturbedRests ==
  ASSUME SyncInvariant, ~disturbed', GitHubStep \/ UserStep \/ Crash \/ UNCHANGED vars
  PROVE  Undisturbed'
<1>1. TypeOK /\ Announced /\ Undisturbed
  BY DEF SyncInvariant
<1>2. CASE GitHubStep
  <2>1. GitHubMoved /\ ~disturbed /\ (OneOwner => OneOwner') /\ UNCHANGED <<installation, row, handler>>
    BY <1>1, <1>2, GitHubMoves
  <2>2. OneOwner' /\ OneHandler' /\ (\A h \in Handler : handler'[h].pc # "connect")
    BY <1>1, <2>1 DEF Undisturbed, OneHandler, Busy
  <2>3. KnownOrComing'
    BY <1>1, <2>1 DEF Undisturbed, KnownOrComing, GitHubMoved, Present
  <2>4. ASSUME NEW i \in Installation
        PROVE  QuietInstallation(i)'
    <3>1. SUFFICES ASSUME Quiet(i)'
                   PROVE  QuietInstallation(i)'
      BY DEF QuietInstallation
    <3>2. Quiet(i) /\ github'[i] = github[i] /\ access'[i] = access[i]
      BY <2>1, <3>1 DEF Quiet, GitHubMoved
    <3>3. QuietInstallation(i)
      BY <1>1, <2>1 DEF Undisturbed
    <3>4. ActiveRowsOf(i)' = ActiveRowsOf(i)
      BY <2>1, SameRows
    <3>5. Consistent(i) => Consistent(i)'
      BY <2>1, <3>2, <3>4 DEF Consistent
    <3>6. \A h \in Handler : Informed(i, handler[h]) => Informed(i, handler[h])'
      BY <2>1, <3>2, <3>4 DEF Informed, UpTo, Rank
    <3> QED
      BY <2>1, <3>1, <3>2, <3>3, <3>5, <3>6 DEF QuietInstallation, Busy
  <2> QED
    BY <2>2, <2>3, <2>4 DEF Undisturbed
<1>3. CASE UserStep \/ UNCHANGED vars
  <2>1. UNCHANGED <<github, access, revoked, events, installation, handler>> /\ ~disturbed
    BY <1>1, <1>3 DEF UserStep, SignIn, UpdateSettings, SetActive, githubVars, history, vars, TypeOK
  <2>2. ASSUME NEW i \in Installation
        PROVE  ActiveRowsOf(i)' = ActiveRowsOf(i)
    <3>1. CASE row' = row
      BY <3>1, SameRows
    <3>2. ASSUME NEW r \in Repo, UpdateSettings(r)
          PROVE  ActiveRowsOf(i)' = ActiveRowsOf(i)
      <4>1. row[r] \in Row /\ row' = [row EXCEPT ![r] = [row[r] EXCEPT !.custom = TRUE]]
            /\ row \in [Repo -> Row \cup {NoRow}]
        BY <1>1, <3>2, RowType DEF UpdateSettings, TypeOK
      <4>2. [row[r] EXCEPT !.custom = TRUE] \in Row
            /\ [row[r] EXCEPT !.custom = TRUE].inst = row[r].inst
            /\ [row[r] EXCEPT !.custom = TRUE].active = row[r].active
        BY <4>1 DEF Row
      <4>3. row[r] # NoRow /\ row'[r] # NoRow
        BY <1>1, <4>1, <4>2, RowType
      <4>4. \A q \in Repo : (row'[q] # NoRow <=> row[q] # NoRow)
                            /\ row'[q].inst = row[q].inst /\ row'[q].active = row[q].active
        BY <4>1, <4>2, <4>3
      <4> QED
        BY <4>4 DEF ActiveRowsOf, RowsOf
    <3> QED
      BY <1>3, <3>1, <3>2, <1>1 DEF UserStep, SignIn, SetActive, vars
  <2>3. OneOwner' /\ OneHandler' /\ KnownOrComing' /\ (\A h \in Handler : handler'[h].pc # "connect")
    BY <1>1, <2>1 DEF Undisturbed, OneOwner, Ever, OneHandler, Busy, KnownOrComing, Present
  <2>4. ASSUME NEW i \in Installation
        PROVE  QuietInstallation(i)'
    <3>1. QuietInstallation(i)
      BY <1>1, <2>1 DEF Undisturbed
    <3>2. Consistent(i)' = Consistent(i)
      BY <2>1, <2>2 DEF Consistent
    <3>3. \A h \in Handler : Informed(i, handler[h])' = Informed(i, handler[h])
      BY <2>1, <2>2 DEF Informed, UpTo, Rank
    <3> QED
      BY <2>1, <3>1, <3>2, <3>3 DEF QuietInstallation, Busy, Quiet
  <2> QED
    BY <2>3, <2>4 DEF Undisturbed
<1>4. CASE Crash
  BY <1>4 DEF Crash
<1> QED
  BY <1>2, <1>3, <1>4

LEMMA UndisturbedStep ==
  ASSUME SyncInvariant, [Next]_vars
  PROVE  Undisturbed'
<1>1. SUFFICES ASSUME ~disturbed'
               PROVE  Undisturbed'
  BY DEF Undisturbed
<1>2. TypeOK /\ HandlersAreSound /\ Undisturbed
  BY DEF SyncInvariant
<1>3. ASSUME NEW h \in Handler, Step(h), ~GitHubStep
      PROVE  Undisturbed'
  <2>1. ~disturbed /\ UNCHANGED githubVars
    BY <1>1, <1>2, <1>3, GitHubRests
  <2>2. OneOwner /\ handler[h].pc # "connect"
    BY <1>2, <2>1 DEF Undisturbed
  <2>3. OneOwner'
    BY <2>1, <2>2 DEF OneOwner, Ever, githubVars
  <2>4. \/ \E e \in events : Receive(h, e)
        \/ \E i \in Installation : RequestSync(h, i)
        \/ Progress(h) /\ ~ConnectCreate(h)
    BY <1>1, <1>2, <1>3, <2>2, StepUndisturbed
  <2>5. \A i \in Installation : QuietInstallation(i)'
    BY <1>1, <2>1, <2>4, QuietStarts, QuietOther, QuietOwn
  <2> QED
    BY <1>1, <1>3, <2>1, <2>3, <2>5, OneHandlerStep DEF Undisturbed
<1> QED
  BY <1>1, <1>3, UndisturbedRests DEF Next

-----------------------------------------------------------------------------
(* The theorems. *)

LEMMA SyncInit ==
  ASSUME Init
  PROVE  SyncInvariant
<1> USE DEF Init
<1>1. TypeOK
  <2>1. left \in [changes : 0..MaxChanges, faults : 0..MaxFaults, userOps : 0..MaxUserOps, events : 0..MaxEvents]
    BY SyncAssumption
  <2> QED
    BY <2>1, IdleType DEF TypeOK
<1>2. Announced /\ SettingsSurvive
  BY DEF Announced, SettingsSurvive
<1>3. \A h \in Handler : handler[h] = Idle
  OBVIOUS
<1>4. RowsAreGranted
  BY <1>3, IdleType DEF RowsAreGranted, Holds, Present
<1>5. HandlersAreSound
  BY <1>3, IdleType DEF HandlersAreSound, Sound
<1>6. Undisturbed
  <2>1. OneOwner /\ OneHandler /\ KnownOrComing /\ \A h \in Handler : handler[h].pc = "idle"
    BY <1>3, IdleType DEF OneOwner, Ever, OneHandler, Busy, KnownOrComing
  <2>2. \A i \in Installation : Consistent(i)
    BY DEF Consistent, ActiveRowsOf, RowsOf
  <2> QED
    BY <2>1, <2>2 DEF Undisturbed, QuietInstallation, Informed
<1> QED
  BY <1>1, <1>2, <1>4, <1>5, <1>6 DEF SyncInvariant

LEMMA SyncStep ==
  ASSUME SyncInvariant, [Next]_vars
  PROVE  SyncInvariant'
<1>1. HandlersInvariant
  BY DEF SyncInvariant, HandlersInvariant
<1>2. TypeOK' /\ Announced'
  BY TypeStep, AnnouncedStep DEF SyncInvariant
<1>3. RowsAreGranted' /\ HandlersAreSound'
  BY <1>1, RowsStep, HandlersStep
<1>4. SettingsSurvive'
  BY <1>1, SettingsStep DEF SyncInvariant
<1> QED
  BY <1>2, <1>3, <1>4, UndisturbedStep DEF SyncInvariant

LEMMA SyncIsInvariant == Spec => []SyncInvariant
BY SyncInit, SyncStep, PTL DEF Spec

(***************************************************************************)
(* Tables, deliveries and handlers keep their types, whatever GitHub, the  *)
(* users and restarts do.                                                  *)
(***************************************************************************)
THEOREM SyncIsTyped == Spec => []TypeOK
<1>1. SyncInvariant => TypeOK
  BY DEF SyncInvariant
<1> QED
  BY <1>1, SyncIsInvariant, PTL

(***************************************************************************)
(* No sync, deactivation or revocation of another repository loses the     *)
(* settings a user chose, however many handlers overlap, fail or are cut   *)
(* off: a handler deletes only rows whose repository was revoked, and      *)
(* writes every other in place.                                            *)
(***************************************************************************)
THEOREM SettingsAreKept == Spec => []SettingsSurvive
<1>1. SyncInvariant => SettingsSurvive
  BY DEF SyncInvariant
<1> QED
  BY <1>1, SyncIsInvariant, PTL

(***************************************************************************)
(* Undisturbed, the table agrees with GitHub once every delivery was       *)
(* handled, in whatever order they came and however the list changed       *)
(* between two of its pages, for any page size: of an installation nothing *)
(* new is announced about, a handler holds exactly the pages it has read   *)
(* of the list GitHub has now.                                             *)
(***************************************************************************)
THEOREM QuietTableIsConsistent == Spec => []QuietIsConsistent
<1>1. SyncInvariant => QuietIsConsistent
  <2>1. ASSUME SyncInvariant, ~disturbed, events = {}, \A h \in Handler : handler[h].pc = "idle",
               NEW i \in Installation
        PROVE  Consistent(i)
    BY <2>1 DEF SyncInvariant, Undisturbed, QuietInstallation, Quiet, Busy
  <2> QED
    BY <2>1 DEF QuietIsConsistent
<1> QED
  BY <1>1, SyncIsInvariant, PTL
=============================================================================
