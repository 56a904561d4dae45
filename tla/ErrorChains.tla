----------------------------- MODULE ErrorChains -----------------------------
(***************************************************************************)
(* What an error says of itself on its way from the call that failed to    *)
(* the queue: the exception classes that wrap it, the properties that link *)
(* one to the next, and the rules that read them.  A chain is a sequence   *)
(* of frames, the outermost first; a message is the set of known phrases   *)
(* it contains.                                                            *)
(***************************************************************************)
EXTENDS Integers, Sequences

(***************************************************************************)
(* The rows of an error mapper are tried in order; the first whose phrases *)
(* the message contains decides.                                           *)
(***************************************************************************)
FirstMatch(table, message, default) ==
    LET hits == {k \in DOMAIN table : table[k].phrases \cap message # {}} IN
    IF hits = {} THEN default
    ELSE table[CHOOSE k \in hits : \A j \in hits : k <= j].code

Row(phrases, code) == [phrases |-> phrases, code |-> code]

LlmPhrases == <<
    Row({"api key", "apikey", "unauthorized", "invalid credentials"}, "INVALID_API_KEY"),
    Row({"quota", "exhausted", "resource_exhausted", "limit exceeded"}, "QUOTA_EXCEEDED"),
    Row({"rate limit", "too many requests", "429"}, "RATE_LIMITED"),
    Row({"model not found", "model invalid"}, "INVALID_MODEL"),
    Row({"context length", "context window", "too many tokens", "token limit exceeded"},
        "CONTEXT_WINDOW_EXCEEDED"),
    Row({"overloaded", "unavailable", "outage", "500", "503", "internal error"},
        "PROVIDER_UNAVAILABLE"),
    Row({"network", "socket", "hang up", "timeout", "connreset", "dns"}, "NETWORK_ERROR") >>

(***************************************************************************)
(* GeminiErrorMapper: the status decides when it is one of those listed,   *)
(* the phrases otherwise.  A failure without a status has status 0.        *)
(***************************************************************************)
LlmCode(failure) ==
    CASE failure.status = 401 -> "INVALID_API_KEY"
      [] failure.status = 403 -> "EXPIRED_API_KEY"
      [] failure.status = 404 -> "INVALID_MODEL"
      [] failure.status = 429 -> "RATE_LIMITED"
      [] failure.status \in 500..599 -> "PROVIDER_UNAVAILABLE"
      [] OTHER -> FirstMatch(LlmPhrases, failure.message, "UNKNOWN")

LlmRetryable == {"RATE_LIMITED", "PROVIDER_UNAVAILABLE", "NETWORK_ERROR"}

GitPhrases == <<
    Row({"authentication failed", "could not read username", "could not read password",
         "permission denied", "terminal prompts disabled"}, "AUTHENTICATION_FAILED"),
    Row({"repository not found", "does not exist", "could not read from remote repository"},
        "REPOSITORY_NOT_FOUND"),
    Row({"already exists"}, "BRANCH_ALREADY_EXISTS"),
    Row({"merge conflict", "conflict (content)", "prevented by merge checks"}, "MERGE_CONFLICT"),
    Row({"protected branch", "cannot push to protected"}, "PROTECTED_BRANCH"),
    Row({"push rejected", "updates were rejected", "failed to push"}, "PUSH_REJECTED"),
    Row({"could not resolve host", "connection refused", "disconnected", "network", "econnreset"},
        "NETWORK_ERROR"),
    Row({"timeout", "timed out"}, "TIMEOUT"),
    Row({"index.lock", "lock file"}, "REPOSITORY_LOCKED") >>

GitCode(message) == FirstMatch(GitPhrases, message, "UNKNOWN")

GitRetryable == {"NETWORK_ERROR", "RATE_LIMITED", "TIMEOUT", "REPOSITORY_LOCKED"}

-----------------------------------------------------------------------------
(***************************************************************************)
(* kind: the class as the rules tell classes apart.  link: the property    *)
(* that holds the next frame.  wait: the delay it asks for is not zero.    *)
(* Every wrapper's message contains the message of what it wraps, so the   *)
(* phrases of the outermost frame include those of the inner ones, as long *)
(* as no class in between makes a message of its own.                      *)
(***************************************************************************)
Kind == {"Node", "Http", "Llm", "Git", "Delayed", "Plain"}
Link == {"causeError", "cause", "originalCause", "none"}

Frame(kind, link, retryable, wait, message) ==
    [kind |-> kind, link |-> link, retryable |-> retryable, wait |-> wait, message |-> message]

LlmError(code, message) ==
    << Frame("Llm", "none", code \in LlmRetryable, FALSE, message) >>

GitError(message) ==
    << Frame("Git", "none", GitCode(message) \in GitRetryable, FALSE, message) >>

DelayedRetry == << Frame("Delayed", "none", FALSE, TRUE, {}) >>
HttpError(message) == << Frame("Http", "none", FALSE, FALSE, message) >>

Wrap(kind, link, chain) ==
    << Frame(kind, link, FALSE, FALSE, chain[1].message) >> \o chain

(***************************************************************************)
(* LlmService lets an LlmException through and makes one of everything     *)
(* else, which it keeps as originalCause; its code is UNKNOWN.             *)
(***************************************************************************)
LlmServiceThrows(chain) ==
    IF chain[1].kind = "Llm" THEN chain ELSE Wrap("Llm", "originalCause", chain)

(***************************************************************************)
(* What the writer and the critic look for in an error they caught.        *)
(***************************************************************************)
AsksForRetry(chain) == chain[1].wait \/ chain[1].kind = "Delayed"

(***************************************************************************)
(* generateDocuments makes an HTTP exception of what is none, out of its   *)
(* message alone.                                                          *)
(***************************************************************************)
WriterThrows(chain) ==
    IF AsksForRetry(chain) \/ chain[1].kind = "Http" THEN chain ELSE HttpError(chain[1].message)

CloneThrows(chain) == Wrap("Http", "cause", chain)

NodeThrows(chain) == Wrap("Node", "causeError", chain)

-----------------------------------------------------------------------------
(***************************************************************************)
(* The frames a reader that follows only some links can see.               *)
(***************************************************************************)
Seen(chain, links) ==
    {k \in DOMAIN chain : \A j \in 1..(k - 1) : chain[j].link \in links}

Domain(chain, links) == {k \in Seen(chain, links) : chain[k].kind \in {"Llm", "Git"}}

PermanentPhrases == {"not found", "model not found", "repository not found", "deleted",
    "unsupported", "malformed", "validation failed", "permission denied",
    "authentication failed", "error: 403", "could not read username", "invalid credentials",
    "remote rejected"}

ClassifierLinks == {"cause", "originalCause"}

\* Mutant: an error without a domain exception is permanent.
ClassifyUnlessKnown(chain) ==
    IF Domain(chain, ClassifierLinks) = {} \/ chain[1].message \cap PermanentPhrases # {}
    THEN "PERMANENT" ELSE "TRANSIENT"

(***************************************************************************)
(* classifyWorkflowError: the first domain exception on the links it       *)
(* knows, then the marker of the outermost error, then the phrases of its  *)
(* message.                                                                *)
(***************************************************************************)
ClassifyWorkflowError(chain) ==
    LET domain == Domain(chain, ClassifierLinks)
        first == CHOOSE k \in domain : \A j \in domain : k <= j
        permanent ==
            IF domain # {} THEN ~chain[first].retryable
            ELSE chain[1].kind # "Delayed" /\ chain[1].message \cap PermanentPhrases # {}
    IN IF permanent THEN "PERMANENT" ELSE "TRANSIENT"

(***************************************************************************)
(* extractDelayMs of the processor follows links of its own.               *)
(***************************************************************************)
DelayLinks == {"causeError", "cause"}
ExtractDelay(chain) == \E k \in Seen(chain, DelayLinks) : chain[k].wait

(***************************************************************************)
(* The catch branch of WorkflowProcessor.process.                          *)
(***************************************************************************)
Verdict(chain) ==
    IF ClassifyWorkflowError(chain) = "PERMANENT" THEN "deadLettered"
    ELSE IF ExtractDelay(chain) THEN "delayed" ELSE "retry"
=============================================================================
