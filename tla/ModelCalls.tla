------------------------------ MODULE ModelCalls ------------------------------
(***************************************************************************)
(* One node of a run that needs the model or the remote repository, and    *)
(* what becomes of its failures: the writer asks for the documents of a    *)
(* chunk at the same time and cancels the others when one fails, the       *)
(* critic asks once and never fails, each request is repeated by the retry *)
(* policy, and what is left is thrown to the queue, which decides by the   *)
(* error alone whether there is another attempt.                           *)
(***************************************************************************)
EXTENDS ErrorChains, FiniteSets

CONSTANTS
    NumDocuments,     \* documents the writer produces, in a fixed order
    Limit,            \* DOC_GEN_CONCURRENCY, the documents of one chunk
    MaxTries,         \* maxAttempts of the retry policy
    MaxAttempts,      \* attempts of the job
    ProviderFailure,  \* failures of the provider: [status, message, delay]
    GitMessage        \* messages of a failing clone, as sets of phrases

ASSUME CallsAssumption ==
    /\ NumDocuments \in Nat \ {0} /\ Limit \in Nat \ {0}
    /\ MaxTries \in Nat \ {0} /\ MaxAttempts \in Nat \ {0}

VARIABLES
    node,       \* what the current attempt runs
    attempt,    \* attempts made, the current one included
    phase,      \* "waiting" for a worker, "running", or how the job ended
    call,       \* call[d]: the request for document d
    aborted,    \* the AbortController of the chunk has fired
    thrown,     \* the error the node throws, <<>> while there is none
    orphans,    \* requests of abandoned calls the provider still works on
    passed,     \* the critic's verdict
    cause       \* history: the first failure of this attempt, <<>> without one

vars == <<node, attempt, phase, call, aborted, thrown, orphans, passed, cause>>

Document == 1..NumDocuments
NodeName == {"RepositoryAnalyzer", "TechnicalWriter", "DocumentationCritic", "resume"}
Ended == {"recorded", "deadLettered", "delayed", "failed"}

TypeOK ==
    /\ node \in NodeName
    /\ attempt \in 0..MaxAttempts
    /\ phase \in {"waiting", "running"} \cup Ended
    /\ call \in [Document -> [state : {"idle", "ready", "asking", "sleeping", "done", "failed"},
                              tries : 0..MaxTries]]
    /\ aborted \in BOOLEAN /\ passed \in BOOLEAN
    /\ orphans \in 0..(MaxAttempts * NumDocuments)
    /\ Len(thrown) <= 4 /\ Len(cause) <= 1

Init ==
    /\ node = "RepositoryAnalyzer"
    /\ attempt = 0 /\ phase = "waiting"
    /\ call = [d \in Document |-> [state |-> "idle", tries |-> 0]]
    /\ aborted = FALSE /\ thrown = <<>> /\ orphans = 0 /\ passed = FALSE /\ cause = <<>>

InState(s) == {d \in Document : call[d].state = s}

(***************************************************************************)
(* The documents of the chunk that starts with d; the critic's single      *)
(* request is the first document's.                                        *)
(***************************************************************************)
Chunk(d) == {e \in Document : d <= e /\ e < d + Limit}

FirstCalls(n) ==
    CASE n = "TechnicalWriter" -> Chunk(1)
      [] n = "DocumentationCritic" -> {1}
      [] OTHER -> {}

Prepared(calls, ds) ==
    [d \in Document |-> IF d \in ds THEN [calls[d] EXCEPT !.state = "ready"] ELSE calls[d]]

-----------------------------------------------------------------------------
(***************************************************************************)
(* Which node an attempt comes to is the executor's business.              *)
(***************************************************************************)
StartAttempt ==
    /\ phase = "waiting"
    /\ phase' = "running" /\ attempt' = attempt + 1
    /\ \E n \in NodeName :
          /\ node' = n
          /\ call' = Prepared([d \in Document |-> [state |-> "idle", tries |-> 0]], FirstCalls(n))
    /\ aborted' = FALSE /\ thrown' = <<>> /\ passed' = FALSE /\ cause' = <<>>
    /\ UNCHANGED orphans

Running == phase = "running" /\ thrown = <<>>

(***************************************************************************)
(* The beginning of the loop of RetryPolicyService.execute, for the first  *)
(* try and after a pause: a cancelled operation throws before it asks.     *)
(***************************************************************************)
Ask(d) ==
    /\ phase = "running" /\ call[d].state \in {"ready", "sleeping"}
    /\ call' = IF aborted THEN [call EXCEPT ![d].state = "failed"]
               ELSE [call EXCEPT ![d].state = "asking", ![d].tries = @ + 1]
    /\ UNCHANGED <<node, attempt, phase, aborted, thrown, orphans, passed, cause>>

(***************************************************************************)
(* A call of the node failed for good with the error chain it throws.  In  *)
(* the writer Promise.all throws the first such error and the others are   *)
(* cancelled: a pause ends at once, a request in flight is abandoned but   *)
(* goes on at the provider.  The critic takes no failure for a failure.    *)
(***************************************************************************)
Fails(d, chain) ==
    /\ cause' = IF cause = <<>> THEN <<chain[Len(chain)]>> ELSE cause
    /\ IF node = "TechnicalWriter"
       THEN /\ thrown' = NodeThrows(WriterThrows(LlmServiceThrows(chain)))
            /\ aborted' = TRUE
            /\ orphans' = orphans + Cardinality(InState("asking") \ {d})
            /\ call' = [e \in Document |->
                  IF e = d \/ call[e].state \in {"asking", "sleeping"}
                  THEN [call[e] EXCEPT !.state = "failed"] ELSE call[e]]
            /\ UNCHANGED passed
       ELSE /\ IF AsksForRetry(LlmServiceThrows(chain))
               THEN thrown' = NodeThrows(LlmServiceThrows(chain)) /\ passed' = passed
               ELSE thrown' = thrown /\ passed' = FALSE
            /\ call' = [call EXCEPT ![d].state = "failed"]
            /\ UNCHANGED <<aborted, orphans>>
    /\ UNCHANGED <<node, attempt, phase>>

Pause(d) ==
    /\ call' = [call EXCEPT ![d].state = "sleeping"]
    /\ UNCHANGED <<node, attempt, phase, aborted, thrown, orphans, passed, cause>>

(***************************************************************************)
(* The catch branch of RetryPolicyService.execute.  A rate limit without a *)
(* delay of its own counts as a long one.                                  *)
(***************************************************************************)
\* Mutant: one try too many.
TriesOnceMore(d, failure) ==
    LET code == LlmCode(failure) IN
    /\ Running /\ call[d].state = "asking"
    /\ IF call[d].tries > MaxTries \/ code \notin LlmRetryable
       THEN Fails(d, LlmError(code, failure.message))
       ELSE IF code = "RATE_LIMITED" /\ failure.delay # "short"
       THEN Fails(d, DelayedRetry)
       ELSE Pause(d)

ProviderFails(d, failure) ==
    LET code == LlmCode(failure) IN
    /\ Running /\ call[d].state = "asking"
    /\ IF call[d].tries >= MaxTries \/ code \notin LlmRetryable
       THEN Fails(d, LlmError(code, failure.message))
       ELSE IF code = "RATE_LIMITED" /\ failure.delay # "short"
       THEN Fails(d, DelayedRetry)
       ELSE Pause(d)

(***************************************************************************)
(* The text arrives.  A text the parser refuses fails the writer with the  *)
(* parser's own message, which names malformed JSON as such; the critic    *)
(* scores what it can read and passes or not.                              *)
(***************************************************************************)
BadText(d, message) ==
    /\ Running /\ call[d].state = "asking"
    /\ Fails(d, HttpError(message))

Answer(d) ==
    /\ Running /\ call[d].state = "asking"
    /\ call' = [call EXCEPT ![d].state = "done"]
    /\ IF node = "DocumentationCritic" THEN passed' \in BOOLEAN ELSE UNCHANGED passed
    /\ UNCHANGED <<node, attempt, phase, aborted, thrown, orphans, cause>>

(***************************************************************************)
(* The next chunk starts when every document of the one before is there.   *)
(***************************************************************************)
\* Mutant: the next chunk starts when one document of this one is there.
NextChunkEarly ==
    /\ Running /\ node = "TechnicalWriter" /\ InState("done") # {} /\ InState("idle") # {}
    /\ call' = Prepared(call, Chunk(CHOOSE d \in InState("idle") : \A e \in InState("idle") : d <= e))
    /\ UNCHANGED <<node, attempt, phase, aborted, thrown, orphans, passed, cause>>

NextChunk ==
    /\ Running /\ node = "TechnicalWriter"
    /\ InState("idle") # {} /\ InState("idle") \cup InState("done") = Document
    /\ call' = Prepared(call, Chunk(CHOOSE d \in InState("idle") : \A e \in InState("idle") : d <= e))
    /\ UNCHANGED <<node, attempt, phase, aborted, thrown, orphans, passed, cause>>

(***************************************************************************)
(* Cloning: from the analyzer's node, or before any node when a resume     *)
(* finds its directory gone.                                               *)
(***************************************************************************)
CloneFails(message) ==
    /\ Running /\ node \in {"RepositoryAnalyzer", "resume"}
    /\ cause' = GitError(message)
    /\ thrown' = IF node = "resume" THEN CloneThrows(GitError(message))
                 ELSE NodeThrows(CloneThrows(GitError(message)))
    /\ UNCHANGED <<node, attempt, phase, call, aborted, orphans, passed>>

-----------------------------------------------------------------------------
\* Mutant: the writer is done when nothing is in progress.
NothingInProgress == InState("ready") \cup InState("asking") \cup InState("sleeping") = {}

CallsOver ==
    CASE node = "TechnicalWriter" -> InState("done") = Document
      [] node = "DocumentationCritic" -> call[1].state \in {"done", "failed"}
      [] OTHER -> TRUE

Record ==
    /\ Running /\ CallsOver
    /\ phase' = "recorded"
    /\ UNCHANGED <<node, attempt, call, aborted, thrown, orphans, passed, cause>>

(***************************************************************************)
(* The queue: a permanent error goes to the dead letters, any other one is *)
(* tried again until the attempts are used up.                             *)
(***************************************************************************)
\* Mutant: a failed attempt is not counted.
SettleUncounted ==
    /\ phase = "running" /\ thrown # <<>>
    /\ phase' = IF Verdict(thrown) # "retry" THEN Verdict(thrown) ELSE "waiting"
    /\ attempt' = attempt - 1
    /\ UNCHANGED <<node, call, aborted, thrown, orphans, passed, cause>>

Settle ==
    /\ phase = "running" /\ thrown # <<>>
    /\ phase' = CASE Verdict(thrown) # "retry" -> Verdict(thrown)
                  [] attempt = MaxAttempts -> "failed"
                  [] OTHER -> "waiting"
    /\ UNCHANGED <<node, attempt, call, aborted, thrown, orphans, passed, cause>>

OrphanEnds ==
    /\ orphans > 0
    /\ orphans' = orphans - 1
    /\ UNCHANGED <<node, attempt, phase, call, aborted, thrown, passed, cause>>

Provider(d) ==
    \/ Answer(d)
    \/ \E failure \in ProviderFailure : ProviderFails(d, failure)
    \/ \E message \in {{}, {"malformed"}} : BadText(d, message)

Next ==
    \/ StartAttempt \/ NextChunk \/ Record \/ Settle \/ OrphanEnds
    \/ \E d \in Document : Ask(d) \/ Provider(d)
    \/ \E message \in GitMessage : CloneFails(message)

(***************************************************************************)
(* Timers fire, promises settle and the queue offers waiting jobs; the     *)
(* provider answers every request, for no request has a timeout.           *)
(***************************************************************************)
Spec ==
    /\ Init /\ [][Next]_vars
    /\ WF_vars(StartAttempt \/ NextChunk \/ Record \/ Settle)
    /\ \A d \in Document : WF_vars(Ask(d)) /\ WF_vars(Provider(d))

-----------------------------------------------------------------------------
(***************************************************************************)
(* Never more documents in the making than the limit, counting those that  *)
(* pause between two tries.                                                *)
(***************************************************************************)
BoundedConcurrency ==
    Cardinality(InState("ready") \cup InState("asking") \cup InState("sleeping")) <= Limit

(***************************************************************************)
(* What is recorded is whole: all documents of the writer, and a critique  *)
(* that passes only when the critic was heard.                             *)
(***************************************************************************)
RecordedIsWhole ==
    phase = "recorded" =>
        /\ node = "TechnicalWriter" => InState("done") = Document
        /\ passed => node = "DocumentationCritic" /\ call[1].state = "done"

(***************************************************************************)
(* A failure that its own class calls retryable is never given to the      *)
(* dead letters, however it was wrapped, unless its words say otherwise.   *)
(***************************************************************************)
RetryableIsNeverBuried ==
    (phase = "deadLettered" /\ (cause[1].retryable \/ cause[1].wait))
        => cause[1].message \cap PermanentPhrases # {}

(***************************************************************************)
(* Every job ends: recorded, dead-lettered, or with its attempts used up.  *)
(***************************************************************************)
JobEnds == <>(phase \in Ended)
=============================================================================
