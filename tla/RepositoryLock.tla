--------------------------- MODULE RepositoryLock ---------------------------
(***************************************************************************)
(* The in-memory lock of repository-lock.service.ts: a map from repository *)
(* ids to the promise of whoever took the lock last.  A client is one      *)
(* asynchronous caller of acquireLock in the backend process: the worker   *)
(* that clones for a run, a request that deletes a workspace, the sweep of *)
(* expired workspaces.                                                     *)
(*                                                                         *)
(* A step is what runs between two awaits.  The continuations of the       *)
(* waiters are steps of their own (Wake): other work that is already       *)
(* queued may come first.  Names that every specification has carry Lock   *)
(* here: a module about one that uses the lock extends both.               *)
(***************************************************************************)
CONSTANTS Clients, Repositories, NoClient, NoRepository

ASSUME LockAssumption == NoClient \notin Clients /\ NoRepository \notin Repositories

VARIABLES
  locks,  \* the owner of the promise in the map, for each repository
  place,  \* where each client is
  at,     \* the repository it is working on
  on      \* the owner of the promise it awaits

lockVars == <<locks, place, at, on>>

LockTypes ==
  /\ locks \in [Repositories -> Clients \cup {NoClient}]
  /\ place \in [Clients -> {"idle", "waiting", "woken", "holding"}]
  /\ at \in [Clients -> Repositories \cup {NoRepository}]
  /\ on \in [Clients -> Clients \cup {NoClient}]

LockInit ==
  /\ locks = [r \in Repositories |-> NoClient]
  /\ place = [c \in Clients |-> "idle"]
  /\ at = [c \in Clients |-> NoRepository]
  /\ on = [c \in Clients |-> NoClient]

\* The waiters of a client that let go run before whatever it does next: their
\* continuations were queued first.
Quiet(c) == \A d \in Clients : on[d] # c

\* acquireLock on a repository without an entry returns at once.
Enter(c, r) ==
  /\ place[c] = "idle" /\ Quiet(c) /\ locks[r] = NoClient
  /\ locks' = [locks EXCEPT ![r] = c]
  /\ place' = [place EXCEPT ![c] = "holding"]
  /\ at' = [at EXCEPT ![c] = r]
  /\ UNCHANGED on

\* acquireLock on a repository with an entry awaits the promise found there.
Wait(c, r) ==
  /\ place[c] = "idle" /\ Quiet(c) /\ locks[r] # NoClient
  /\ on' = [on EXCEPT ![c] = locks[r]]
  /\ place' = [place EXCEPT ![c] = "waiting"]
  /\ at' = [at EXCEPT ![c] = r]
  /\ UNCHANGED locks

\* Mutant: after the await, wait again if there is an entry by now.
WakeRechecked(c) ==
  /\ place[c] = "woken"
  /\ IF locks[at[c]] = NoClient
     THEN /\ locks' = [locks EXCEPT ![at[c]] = c]
          /\ place' = [place EXCEPT ![c] = "holding"]
          /\ on' = [on EXCEPT ![c] = NoClient]
     ELSE /\ place' = [place EXCEPT ![c] = "waiting"]
          /\ on' = [on EXCEPT ![c] = locks[at[c]]]
          /\ UNCHANGED locks
  /\ UNCHANGED at

\* After the await: the map is overwritten, whatever it holds by now.
Wake(c) ==
  /\ place[c] = "woken"
  /\ locks' = [locks EXCEPT ![at[c]] = c]
  /\ place' = [place EXCEPT ![c] = "holding"]
  /\ on' = [on EXCEPT ![c] = NoClient]
  /\ UNCHANGED at

\* Mutant: nothing happens unless the entry is the own one.
ReleaseOwnEntry(c) ==
  /\ place[c] = "holding"
  /\ locks' = IF locks[at[c]] = c THEN [locks EXCEPT ![at[c]] = NoClient] ELSE locks
  /\ place' = [d \in Clients |-> IF d = c THEN "idle"
                              ELSE IF on[d] = c /\ locks[at[c]] = c THEN "woken" ELSE place[d]]
  /\ at' = [at EXCEPT ![c] = NoRepository]
  /\ UNCHANGED on

\* releaseLock: delete the entry, whoever owns it, and resolve the own promise.
Release(c) ==
  /\ place[c] = "holding"
  /\ locks' = [locks EXCEPT ![at[c]] = NoClient]
  /\ place' = [d \in Clients |-> IF d = c THEN "idle"
                              ELSE IF on[d] = c THEN "woken" ELSE place[d]]
  /\ at' = [at EXCEPT ![c] = NoRepository]
  /\ UNCHANGED on

LockNext == \E c \in Clients :
  \/ \E r \in Repositories : Enter(c, r) \/ Wait(c, r)
  \/ Wake(c) \/ Release(c)

\* Every critical section ends in a finally block that releases.
LockFairness == \A c \in Clients : WF_lockVars(Wake(c)) /\ WF_lockVars(Release(c))

LockSpec == LockInit /\ [][LockNext]_lockVars
FairLockSpec == LockSpec /\ LockFairness

-----------------------------------------------------------------------------
\* Two clients never work on the same repository at the same time.  acquireLock
\* keeps this promise between two callers; a third can break it, since all the
\* waiters of one holder go on when it lets go.
MutualExclusion ==
  \A c, d \in Clients :
    place[c] = "holding" /\ place[d] = "holding" /\ at[c] = at[d] => c = d

\* Whoever waits, waits for a client that is still to release: overwriting and
\* deleting the entries of others strands no waiter.
NoWaiterIsStranded ==
  \A c \in Clients : place[c] = "waiting" =>
    on[c] \in Clients /\ place[on[c]] = "holding" /\ at[on[c]] = at[c]

\* A client that waits gets the lock in the end, however others come and go.
WaitersGetIn == \A c \in Clients : place[c] = "waiting" ~> place[c] = "holding"
=============================================================================
