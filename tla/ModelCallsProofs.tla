-------------------------- MODULE ModelCallsProofs --------------------------
(***************************************************************************)
(* What holds of a node's calls and of what becomes of its failures, for   *)
(* any number of documents, tries and attempts, any limit, and whatever    *)
(* the provider and git answer.                                            *)
(***************************************************************************)
EXTENDS ModelCalls, FiniteSetTheorems, SequenceTheorems, TLAPS

InProgress == InState("ready") \cup InState("asking") \cup InState("sleeping")

\* Documents are begun in their order, only by the nodes that ask the model.
CallsInOrder ==
    /\ \A d \in Document : call[d].state = "idle" => \A e \in Document : d < e => call[e].state = "idle"
    /\ \A d \in Document : call[d].state # "idle" =>
          \/ node = "TechnicalWriter"
          \/ node = "DocumentationCritic" /\ d = 1

\* A try is left to whoever may still ask.
TriesLeft ==
    \A d \in Document :
        /\ call[d].state \in {"idle", "ready"} => call[d].tries = 0
        /\ call[d].state = "sleeping" => call[d].tries < MaxTries

\* What is in progress belongs to one chunk.
OneChunk == \E c \in Document : InProgress \subseteq Chunk(c)

\* An attempt is left to a waiting job, and each attempt abandons requests once.
AttemptsLeft ==
    /\ phase = "waiting" => attempt < MaxAttempts
    /\ phase = "running" => attempt > 0
    /\ orphans <= attempt * NumDocuments
    /\ Running => orphans <= (attempt - 1) * NumDocuments

\* The critic passes only what it has heard.
PassedIsHeard == passed => node = "DocumentationCritic" /\ call[1].state = "done"

\* Only a critic survives a failure.
CauseIsThrown ==
    /\ Running /\ cause # <<>> => node = "DocumentationCritic" /\ call[1].state = "failed"
    /\ thrown # <<>> => cause # <<>>

\* A chain that would be buried without the words of its cause is never thrown.
Spared(chain, origin) ==
    (Verdict(chain) = "deadLettered" /\ (origin.retryable \/ origin.wait))
        => origin.message \cap PermanentPhrases # {}
ThrownIsSpared == thrown # <<>> => Spared(thrown, cause[1])

CallsInvariant ==
    /\ TypeOK /\ CallsInOrder /\ TriesLeft /\ OneChunk /\ AttemptsLeft
    /\ PassedIsHeard /\ CauseIsThrown /\ ThrownIsSpared
    /\ RecordedIsWhole /\ RetryableIsNeverBuried

-----------------------------------------------------------------------------
(* Documents and chunks. *)

\* A node has at most NumDocuments calls.
LEMMA FewDocuments ==
  ASSUME NEW ds \in SUBSET Document
  PROVE  IsFiniteSet(ds) /\ Cardinality(ds) \in Nat /\ Cardinality(ds) <= NumDocuments
<1>1. IsFiniteSet(Document) /\ Cardinality(Document) = NumDocuments
  BY FS_Interval, CallsAssumption DEF Document
<1> QED
  BY <1>1, FS_Subset, FS_CardinalityType

\* A chunk is no longer than the limit.
LEMMA ChunkBound ==
  ASSUME NEW c \in Document, NEW ds \in SUBSET Chunk(c)
  PROVE  Cardinality(ds) <= Limit
<1>1. Chunk(c) \subseteq c..(c + Limit - 1)
  BY CallsAssumption DEF Chunk, Document
<1>2. IsFiniteSet(c..(c + Limit - 1)) /\ Cardinality(c..(c + Limit - 1)) = Limit
  BY FS_Interval, CallsAssumption DEF Document
<1> QED
  BY <1>1, <1>2, FS_Subset

\* The first document of those that are not begun.
LEMMA FirstOf ==
  ASSUME NEW ds \in SUBSET Document, ds # {}
  PROVE  LET d == CHOOSE d \in ds : \A e \in ds : d <= e
         IN d \in ds /\ \A e \in ds : d <= e
<1>1. ds \in SUBSET Nat
  BY CallsAssumption DEF Document
<1>2. PICK d \in ds : \A e \in ds : ~(<<e, d>> \in OpToRel(<, Nat))
  BY <1>1, WFMin, NatLessThanWellFounded
<1>3. \A e \in ds : ~(e < d)
  <2> TAKE e \in ds
  <2>1. <<e, d>> \in Nat \X Nat /\ <<e, d>>[1] = e /\ <<e, d>>[2] = d
    BY <1>1
  <2> QED
    BY <1>2, <2>1 DEF OpToRel
<1>4. \E d_ \in ds : \A e \in ds : d_ <= e
  BY <1>1, <1>3
<1> QED
  BY <1>4

\* Requests multiply with the attempts.
LEMMA Attempts ==
  ASSUME NEW a \in Nat
  PROVE  /\ a * NumDocuments \in Nat
         /\ (a + 1) * NumDocuments = a * NumDocuments + NumDocuments
         /\ a <= MaxAttempts => a * NumDocuments <= MaxAttempts * NumDocuments
BY CallsAssumption

-----------------------------------------------------------------------------
(* What the queue is given. *)

\* A frame put before a chain of one or of two.
LEMMA Prepended ==
  ASSUME NEW f, NEW g, NEW h
  PROVE  <<f>> \o <<g>> = <<f, g>> /\ <<f>> \o <<g, h>> = <<f, g, h>>
<1> DEFINE S == {f, g, h}
           two == <<f>> \o <<g>>
           three == <<f>> \o <<g, h>>
<1>1. <<f>> \in Seq(S) /\ <<g>> \in Seq(S) /\ <<f, g>> \in Seq(S)
      /\ <<g, h>> \in Seq(S) /\ <<f, g, h>> \in Seq(S)
  OBVIOUS
<1>2. Len(<<f>>) = 1 /\ Len(<<g>>) = 1 /\ Len(<<g, h>>) = 2
  OBVIOUS
<1>3. two \in Seq(S) /\ Len(two) = 2 /\ three \in Seq(S) /\ Len(three) = 3
  BY <1>1, <1>2, ConcatProperties
<1>4. two[1] = f /\ two[2] = g /\ three[1] = f /\ three[2] = g /\ three[3] = h
  BY <1>1, <1>2, ConcatProperties
<1>5. \A i \in 1..Len(two) : two[i] = <<f, g>>[i]
  BY <1>3, <1>4
<1>6. \A i \in 1..Len(three) : three[i] = <<f, g, h>>[i]
  BY <1>3, <1>4
<1>7. Len(<<f, g>>) = 2 /\ Len(<<f, g, h>>) = 3
  OBVIOUS
<1> HIDE DEF S, two, three
<1>8. two = <<f, g>>
  BY <1>1, <1>3, <1>5, <1>7, SeqEqual
<1>9. three = <<f, g, h>>
  BY <1>1, <1>3, <1>6, <1>7, SeqEqual
<1> QED
  BY <1>8, <1>9 DEF two, three

\* The words of a wrapper are those of what it wraps.
LEMMA WrappedOne ==
  ASSUME NEW kind, NEW link, NEW f
  PROVE  Wrap(kind, link, <<f>>) = <<Frame(kind, link, FALSE, FALSE, f.message), f>>
<1>1. <<f>>[1] = f
  OBVIOUS
<1> QED
  BY <1>1, Prepended DEF Wrap

\* A node's exception hides what it wraps from the classifier: its words decide.
LEMMA NodeHides ==
  ASSUME NEW chain, NEW n \in Nat \ {0}, DOMAIN chain = 1..n,
         chain[1].kind = "Node", chain[1].link = "causeError"
  PROVE  Verdict(chain) = "deadLettered" => chain[1].message \cap PermanentPhrases # {}
<1>1. ASSUME NEW k \in DOMAIN chain, chain[k].kind \in {"Llm", "Git"}
      PROVE  ~\A j \in 1..(k - 1) : chain[j].link \in ClassifierLinks
  <2>1. k # 1
    BY <1>1
  <2>2. 1 \in 1..(k - 1)
    BY <1>1, <2>1
  <2> QED
    BY <2>2 DEF ClassifierLinks
<1>2. Domain(chain, ClassifierLinks) = {}
  BY <1>1 DEF Domain, Seen
<1> QED
  BY <1>2 DEF Verdict, ClassifyWorkflowError

\* The queue never buries what the writer throws of a retryable failure, the
\* words aside: the HTTP exception it makes of it hides the class of the failure.
LEMMA WriterSpares ==
  ASSUME NEW f, f.wait => f.message = {} /\ f.kind = "Delayed",
         f.kind = "Llm" => ~f.wait,
         NEW chain, chain = <<f>>
  PROVE  /\ NodeThrows(WriterThrows(LlmServiceThrows(chain))) # <<>>
         /\ Len(NodeThrows(WriterThrows(LlmServiceThrows(chain)))) <= 4
         /\ Spared(NodeThrows(WriterThrows(LlmServiceThrows(chain))), f)
         /\ ~AsksForRetry(LlmServiceThrows(chain))
<1> DEFINE service == LlmServiceThrows(chain)
           http == Frame("Http", "none", FALSE, FALSE, f.message)
           node_ == Frame("Node", "causeError", FALSE, FALSE, f.message)
           final == NodeThrows(WriterThrows(service))
<1>1. chain[1] = f
  OBVIOUS
<1>2. service[1].kind = "Llm" /\ service[1].wait = FALSE /\ service[1].message = f.message
  <2>1. CASE f.kind = "Llm"
    BY <1>1, <2>1 DEF LlmServiceThrows
  <2>2. CASE f.kind # "Llm"
    <3>1. service = Wrap("Llm", "originalCause", <<f>>)
      BY <1>1, <2>2 DEF LlmServiceThrows
    <3> DEFINE wrapper == Frame("Llm", "originalCause", FALSE, FALSE, f.message)
    <3>2. /\ wrapper.kind = "Llm" /\ wrapper.wait = FALSE /\ wrapper.message = f.message
      BY DEF Frame
    <3> HIDE DEF service
    <3>3. service = <<wrapper, f>>
      BY <3>1, WrappedOne
    <3> HIDE DEF wrapper
    <3>4. service[1] = wrapper
      BY <3>3
    <3> QED
      BY <3>2, <3>4
  <2> QED
    BY <2>1, <2>2
<1>3. WriterThrows(service) = <<http>>
  BY <1>2 DEF WriterThrows, AsksForRetry, HttpError
<1>4. final = <<node_, http>>
  <2>1. http.message = f.message
    BY DEF Frame
  <2> HIDE DEF http
  <2>2. final = Wrap("Node", "causeError", <<http>>)
    BY <1>3 DEF NodeThrows
  <2> QED
    BY <2>1, <2>2, WrappedOne
<1>5. DOMAIN final = 1..2 /\ Len(final) = 2 /\ final # <<>> /\ final[1] = node_
  <2> HIDE DEF http, node_, final
  <2> QED
    BY <1>4
<1>6. Verdict(final) = "deadLettered" => f.message \cap PermanentPhrases # {}
  <2>1. node_.kind = "Node" /\ node_.link = "causeError" /\ node_.message = f.message
    BY DEF Frame
  <2> HIDE DEF final, node_
  <2> QED
    BY <1>5, <2>1, NodeHides
<1>7. ~AsksForRetry(service)
  BY <1>2 DEF AsksForRetry
<1>8. Spared(final, f)
  BY <1>6 DEF Spared
<1> QED
  BY <1>5, <1>7, <1>8

\* The failures of a call.
LEMMA CallFailures ==
  ASSUME NEW code, NEW message,
         NEW chain \in {LlmError(code, message), DelayedRetry, HttpError(message)}
  PROVE  \E f : /\ chain = <<f>>
                /\ f.wait => f.message = {} /\ f.kind = "Delayed"
                /\ f.kind = "Llm" => ~f.wait
<1>1. \/ chain = <<Frame("Llm", "none", code \in LlmRetryable, FALSE, message)>>
      \/ chain = <<Frame("Delayed", "none", FALSE, TRUE, {})>>
      \/ chain = <<Frame("Http", "none", FALSE, FALSE, message)>>
  BY DEF LlmError, DelayedRetry, HttpError
<1>2. PICK f : /\ chain = <<f>>
               /\ \/ f = Frame("Llm", "none", code \in LlmRetryable, FALSE, message)
                  \/ f = Frame("Delayed", "none", FALSE, TRUE, {})
                  \/ f = Frame("Http", "none", FALSE, FALSE, message)
  BY <1>1
<1>3. /\ f.wait => f.message = {} /\ f.kind = "Delayed"
      /\ f.kind = "Llm" => ~f.wait
  BY <1>2 DEF Frame
<1> QED
  BY <1>2, <1>3

\* The same of a failing clone, with the class in sight or hidden by the node.
LEMMA CloneSpares ==
  ASSUME NEW message, NEW chain \in {CloneThrows(GitError(message)), NodeThrows(CloneThrows(GitError(message)))}
  PROVE  chain # <<>> /\ Len(chain) <= 4 /\ Spared(chain, GitError(message)[1])
<1> DEFINE retryable == GitCode(message) \in GitRetryable
           git == Frame("Git", "none", retryable, FALSE, message)
           http == Frame("Http", "cause", FALSE, FALSE, message)
           node_ == Frame("Node", "causeError", FALSE, FALSE, message)
<1>1. GitError(message) = <<git>> /\ GitError(message)[1] = git
  BY DEF GitError
<1>2. git.message = message /\ http.message = message
  BY DEF Frame
<1>3. CloneThrows(GitError(message)) = <<http, git>>
  <2> HIDE DEF git
  <2> QED
    BY <1>1, <1>2, WrappedOne DEF CloneThrows
<1>4. NodeThrows(CloneThrows(GitError(message))) = <<node_, http, git>>
  <2>1. NodeThrows(<<http, git>>) = <<Frame("Node", "causeError", FALSE, FALSE, <<http, git>>[1].message)>>
                                       \o <<http, git>>
    BY DEF NodeThrows, Wrap
  <2> HIDE DEF git, http
  <2>2. <<http, git>>[1] = http
    OBVIOUS
  <2>3. NodeThrows(<<http, git>>) = <<node_>> \o <<http, git>>
    BY <1>2, <2>1, <2>2
  <2> QED
    BY <1>3, <2>3, Prepended
<1>5. CASE chain = <<http, git>>
  <2>1. DOMAIN chain = 1..2 /\ chain[1] = http /\ chain[2] = git /\ Len(chain) = 2 /\ chain # <<>>
    BY <1>5
  <2>2. \A k \in 1..2 : \A j \in 1..(k - 1) : chain[j].link \in ClassifierLinks
    BY <2>1 DEF ClassifierLinks, Frame
  <2>3. chain[1].kind \notin {"Llm", "Git"} /\ chain[2].kind \in {"Llm", "Git"}
    BY <2>1 DEF Frame
  <2>4. Domain(chain, ClassifierLinks) = {2}
    <3>1. 1..2 = {1, 2}
      OBVIOUS
    <3> HIDE DEF http, git
    <3>2. 2 \in Domain(chain, ClassifierLinks)
      BY <2>1, <2>2, <2>3 DEF Domain, Seen
    <3>3. ASSUME NEW k \in Domain(chain, ClassifierLinks)
          PROVE  k = 2
      BY <2>1, <2>3, <3>1 DEF Domain, Seen
    <3> QED
      BY <3>2, <3>3
  <2>5. Verdict(chain) = "deadLettered" => ~chain[2].retryable
    BY <2>4 DEF Verdict, ClassifyWorkflowError
  <2> QED
    BY <1>1, <2>1, <2>5 DEF Spared, Frame
<1>6. CASE chain = <<node_, http, git>>
  <2>1. DOMAIN chain = 1..3 /\ chain[1] = node_ /\ Len(chain) = 3 /\ chain # <<>>
    BY <1>6
  <2>2. Verdict(chain) = "deadLettered" => message \cap PermanentPhrases # {}
    BY <2>1, NodeHides DEF Frame
  <2> HIDE DEF git
  <2> QED
    BY <1>1, <1>2, <2>1, <2>2 DEF Spared
<1> QED
  BY <1>3, <1>4, <1>5, <1>6

-----------------------------------------------------------------------------
(* What the actions do to the calls. *)

Call == [state : {"idle", "ready", "asking", "sleeping", "done", "failed"}, tries : 0..MaxTries]
Calls == [Document -> Call]

\* A call in progress goes on; an idle call and one that is over stay as they are.
Moved(e) ==
    \/ call'[e] = call[e]
    \/ /\ call[e].state \in {"ready", "asking", "sleeping"}
       /\ call'[e].state \in {"asking", "sleeping", "done", "failed"}
       /\ call'[e].state = "sleeping" => call'[e].tries < MaxTries

LEMMA AskMoves ==
  ASSUME CallsInvariant, NEW d \in Document, Ask(d)
  PROVE  call' \in Calls /\ \A e \in Document : Moved(e)
<1>1. MaxTries \in Nat \ {0} /\ call \in Calls /\ call[d] \in Call
  BY CallsAssumption DEF CallsInvariant, TypeOK, Calls, Call
<1>2. CASE aborted
  <2>1. call' = [call EXCEPT ![d].state = "failed"] /\ call[d].state \in {"ready", "sleeping"}
    BY <1>2 DEF Ask
  <2> QED
    BY <1>1, <2>1 DEF Moved, Calls, Call
<1>3. CASE ~aborted
  <2>1. /\ call' = [call EXCEPT ![d].state = "asking", ![d].tries = @ + 1]
        /\ call[d].state \in {"ready", "sleeping"}
    BY <1>3 DEF Ask
  <2>2. call[d].tries < MaxTries /\ call[d].tries \in Nat
    BY <1>1, <2>1 DEF CallsInvariant, TriesLeft, Call
  <2> QED
    BY <1>1, <2>1, <2>2 DEF Moved, Calls, Call
<1> QED
  BY <1>2, <1>3

LEMMA FailsMoves ==
  ASSUME CallsInvariant, NEW d \in Document, call[d].state = "asking", NEW chain, Fails(d, chain)
  PROVE  call' \in Calls /\ \A e \in Document : Moved(e)
<1>1. MaxTries \in Nat \ {0} /\ call \in Calls
  BY CallsAssumption DEF CallsInvariant, TypeOK, Calls, Call
<1>2. CASE node = "TechnicalWriter"
  <2>1. call' = [e \in Document |->
                  IF e = d \/ call[e].state \in {"asking", "sleeping"}
                  THEN [call[e] EXCEPT !.state = "failed"] ELSE call[e]]
    BY <1>2 DEF Fails
  <2>2. ASSUME NEW e \in Document
        PROVE  call'[e] \in Call /\ Moved(e)
    <3>1. call[e] \in Call
      BY <1>1 DEF Calls
    <3> QED
      BY <2>1, <3>1 DEF Moved, Call
  <2> QED
    BY <2>1, <2>2 DEF Calls
<1>3. CASE node # "TechnicalWriter"
  <2>1. call' = [call EXCEPT ![d].state = "failed"]
    BY <1>3 DEF Fails
  <2> QED
    BY <1>1, <2>1 DEF Moved, Calls, Call
<1> QED
  BY <1>2, <1>3

\* A call that fails for good.
CallFails(d) ==
    /\ Running /\ call[d].state = "asking"
    /\ \E code, message :
         \E chain \in {LlmError(code, message), DelayedRetry, HttpError(message)} : Fails(d, chain)

\* What becomes of a failure of the provider.
LEMMA ProviderFailure_ ==
  ASSUME CallsInvariant, NEW d \in Document, NEW failure, ProviderFails(d, failure)
  PROVE  CallFails(d) \/ (Pause(d) /\ call[d].tries < MaxTries)
<1>1. call[d].tries \in 0..MaxTries /\ MaxTries \in Nat \ {0}
  BY CallsAssumption DEF CallsInvariant, TypeOK
<1>2. CASE call[d].tries >= MaxTries \/ LlmCode(failure) \notin LlmRetryable
  <2>1. /\ Running /\ call[d].state = "asking"
        /\ Fails(d, LlmError(LlmCode(failure), failure.message))
    BY <1>2 DEF ProviderFails
  <2> QED
    BY <2>1 DEF CallFails
<1>3. CASE ~(call[d].tries >= MaxTries \/ LlmCode(failure) \notin LlmRetryable)
  <2>1. Running /\ call[d].state = "asking" /\ (Fails(d, DelayedRetry) \/ Pause(d))
    BY <1>3 DEF ProviderFails
  <2> QED
    BY <1>1, <1>3, <2>1 DEF CallFails
<1> QED
  BY <1>2, <1>3

\* The three ways a request ends.
LEMMA ProviderEnds ==
  ASSUME CallsInvariant, NEW d \in Document, Provider(d)
  PROVE  \/ Answer(d)
         \/ Running /\ call[d].state = "asking" /\ Pause(d) /\ call[d].tries < MaxTries
         \/ CallFails(d)
<1>1. CASE \E failure \in ProviderFailure : ProviderFails(d, failure)
  BY <1>1, ProviderFailure_ DEF ProviderFails
<1>2. CASE \E message \in {{}, {"malformed"}} : BadText(d, message)
  BY <1>2 DEF BadText, CallFails
<1> QED
  BY <1>1, <1>2 DEF Provider

LEMMA ProviderMoves ==
  ASSUME CallsInvariant, NEW d \in Document, Provider(d)
  PROVE  call' \in Calls /\ \A e \in Document : Moved(e)
<1>1. call \in Calls /\ call[d] \in Call
  BY DEF CallsInvariant, TypeOK, Calls, Call
<1>2. Running /\ call[d].state = "asking"
  BY DEF Provider, Answer, ProviderFails, BadText
<1>3. CASE Answer(d)
  <2>1. call' = [call EXCEPT ![d].state = "done"]
    BY <1>3 DEF Answer
  <2> QED
    BY <1>1, <1>2, <2>1 DEF Moved, Calls, Call
<1>4. CASE Pause(d) /\ call[d].tries < MaxTries
  <2>1. call' = [call EXCEPT ![d].state = "sleeping"]
    BY <1>4 DEF Pause
  <2> QED
    BY <1>1, <1>2, <1>4, <2>1 DEF Moved, Calls, Call
<1>5. CASE CallFails(d)
  BY <1>5, FailsMoves DEF CallFails
<1> QED
  BY <1>3, <1>4, <1>5, ProviderEnds

\* Only a new attempt and a new chunk begin calls.
LEMMA CallStep ==
  ASSUME CallsInvariant, [Next]_vars
  PROVE  \/ StartAttempt \/ NextChunk
         \/ call' \in Calls /\ node' = node /\ \A e \in Document : Moved(e)
<1>1. call \in Calls
  BY DEF CallsInvariant, TypeOK, Calls, Call
<1>2. CASE call' = call /\ node' = node
  BY <1>1, <1>2 DEF Moved
<1>3. ASSUME NEW d \in Document, Ask(d) \/ Provider(d)
      PROVE  call' \in Calls /\ node' = node /\ \A e \in Document : Moved(e)
  <2>1. node' = node
    BY <1>3 DEF Ask, Provider, Answer, ProviderFails, BadText, Fails, Pause
  <2> QED
    BY <1>3, <2>1, AskMoves, ProviderMoves
<1>4. CASE Record \/ Settle \/ OrphanEnds \/ (\E message \in GitMessage : CloneFails(message)) \/ UNCHANGED vars
  BY <1>2, <1>4 DEF Record, Settle, OrphanEnds, CloneFails, vars
<1> QED
  BY <1>3, <1>4 DEF Next

\* The calls that begin.
LEMMA PreparedCalls ==
  ASSUME NEW calls \in Calls, NEW ds \in SUBSET Document
  PROVE  /\ Prepared(calls, ds) \in Calls
         /\ \A d \in Document : /\ Prepared(calls, ds)[d].tries = calls[d].tries
                                /\ d \in ds => Prepared(calls, ds)[d].state = "ready"
                                /\ d \notin ds => Prepared(calls, ds)[d].state = calls[d].state
BY DEF Prepared, Calls, Call

\* A new attempt begins the first calls of its node.
LEMMA StartCalls ==
  ASSUME StartAttempt
  PROVE  /\ call' \in Calls /\ node' \in NodeName /\ FirstCalls(node') \subseteq Chunk(1) /\ 1 \in Document
         /\ \A d \in Document : /\ call'[d].tries = 0
                                /\ d \in FirstCalls(node') => call'[d].state = "ready"
                                /\ d \notin FirstCalls(node') => call'[d].state = "idle"
<1> DEFINE fresh == [d \in Document |-> [state |-> "idle", tries |-> 0]]
<1>1. PICK n \in NodeName : node' = n /\ call' = Prepared(fresh, FirstCalls(n))
  BY DEF StartAttempt
<1>2. 1 \in Document /\ 1 \in Chunk(1) /\ Chunk(1) \subseteq Document
  BY CallsAssumption DEF Chunk, Document
<1>3. FirstCalls(n) \subseteq Chunk(1)
  BY <1>2 DEF FirstCalls, NodeName
<1>4. fresh \in Calls /\ \A d \in Document : fresh[d].state = "idle" /\ fresh[d].tries = 0
  BY CallsAssumption DEF Calls, Call
<1> HIDE DEF fresh
<1>5. FirstCalls(n) \in SUBSET Document
  BY <1>2, <1>3
<1> QED
  BY <1>1, <1>2, <1>3, <1>4, <1>5, PreparedCalls

\* The next chunk is all idle, and nothing else is in progress.
LEMMA ChunkCalls ==
  ASSUME CallsInvariant, NextChunk
  PROVE  \E c \in Document :
            /\ call' = Prepared(call, Chunk(c)) /\ Chunk(c) \subseteq Document /\ call' \in Calls
            /\ \A d \in Document : /\ d < c => call[d].state = "done"
                                   /\ c <= d => call[d].state = "idle"
<1> DEFINE c == CHOOSE d \in InState("idle") : \A e \in InState("idle") : d <= e
<1>1. InState("idle") \in SUBSET Document /\ InState("idle") # {}
  BY DEF InState, NextChunk
<1>2. c \in InState("idle") /\ \A e \in InState("idle") : c <= e
  BY <1>1, FirstOf
<1>3. call' = Prepared(call, Chunk(c))
  BY DEF NextChunk
<1> HIDE DEF c
<1>4. c \in Document /\ Chunk(c) \subseteq Document /\ call \in Calls
  BY <1>1, <1>2 DEF Chunk, CallsInvariant, TypeOK, Calls, Call
<1>5. call' \in Calls
  BY <1>3, <1>4, PreparedCalls
<1>6. ASSUME NEW d \in Document
      PROVE  /\ d < c => call[d].state = "done"
             /\ c <= d => call[d].state = "idle"
  <2>1. c \in Int /\ d \in Int
    BY <1>4 DEF Document
  <2>2. CASE d < c
    <3>1. d \notin InState("idle")
      BY <1>2, <2>1, <2>2
    <3>2. InState("idle") \cup InState("done") = Document
      BY DEF NextChunk
    <3> QED
      BY <2>1, <2>2, <3>1, <3>2 DEF InState
  <2>3. CASE c <= d
    BY <1>2, <1>4, <2>1, <2>3 DEF InState, CallsInvariant, CallsInOrder
  <2> QED
    BY <2>1, <2>2, <2>3
<1> QED
  BY <1>3, <1>4, <1>5, <1>6

-----------------------------------------------------------------------------
(* The invariant, part by part. *)

LEMMA OrderStep ==
  ASSUME CallsInvariant, [Next]_vars
  PROVE  CallsInOrder'
<1>1. CASE StartAttempt
  <2>1. ASSUME NEW d \in Document, call'[d].state # "idle"
        PROVE  node' = "TechnicalWriter" \/ (node' = "DocumentationCritic" /\ d = 1)
    BY <1>1, <2>1, StartCalls DEF FirstCalls, NodeName
  <2>2. ASSUME NEW d \in Document, call'[d].state = "idle", NEW e \in Document, d < e
        PROVE  call'[e].state = "idle"
    <3>1. d \notin FirstCalls(node')
      BY <1>1, <2>2, StartCalls
    <3>2. e \notin FirstCalls(node')
      BY <1>1, <2>2, <3>1, StartCalls, CallsAssumption DEF FirstCalls, Chunk, NodeName, Document
    <3> QED
      BY <1>1, <3>2, StartCalls
  <2> QED
    BY <2>1, <2>2 DEF CallsInOrder
<1>2. CASE NextChunk
  <2>1. PICK c \in Document :
            /\ call' = Prepared(call, Chunk(c)) /\ Chunk(c) \subseteq Document
            /\ \A d \in Document : d < c => call[d].state = "done"
            /\ \A d \in Document : c <= d => call[d].state = "idle"
    BY <1>2, ChunkCalls
  <2>2. node' = "TechnicalWriter"
    BY <1>2 DEF NextChunk
  <2>3. ASSUME NEW d \in Document, call'[d].state = "idle", NEW e \in Document, d < e
        PROVE  call'[e].state = "idle"
    <3>1. call \in Calls
      BY DEF CallsInvariant, TypeOK, Calls, Call
    <3>2. d \notin Chunk(c) /\ call[d].state = "idle"
      BY <2>1, <2>3, <3>1, PreparedCalls
    <3>3. c <= d /\ ~(d < c + Limit) /\ c \in Int /\ d \in Int /\ e \in Int /\ Limit \in Int
      BY <2>1, <3>2, CallsAssumption DEF Document, Chunk
    <3>4. e \notin Chunk(c) /\ c <= e
      BY <2>3, <3>3 DEF Chunk
    <3> QED
      BY <2>1, <3>1, <3>4, PreparedCalls
  <2> QED
    BY <2>2, <2>3 DEF CallsInOrder
<1>3. CASE node' = node /\ \A e \in Document : Moved(e)
  <2>1. \A e \in Document : call'[e].state = "idle" <=> call[e].state = "idle"
    BY <1>3 DEF Moved
  <2> QED
    BY <1>3, <2>1 DEF CallsInvariant, CallsInOrder
<1> QED
  BY <1>1, <1>2, <1>3, CallStep

LEMMA TriesStep ==
  ASSUME CallsInvariant, [Next]_vars
  PROVE  call' \in Calls /\ TriesLeft'
<1>1. CASE StartAttempt
  BY <1>1, StartCalls DEF TriesLeft
<1>2. CASE NextChunk
  <2>1. PICK c \in Document :
            /\ call' = Prepared(call, Chunk(c)) /\ Chunk(c) \subseteq Document /\ call' \in Calls
            /\ \A d \in Document : c <= d => call[d].state = "idle"
    BY <1>2, ChunkCalls
  <2>2. call \in Calls
    BY DEF CallsInvariant, TypeOK, Calls, Call
  <2>3. \A d \in Chunk(c) : call[d].state = "idle"
    BY <2>1 DEF Chunk
  <2>4. ASSUME NEW d \in Document
        PROVE  /\ call'[d].state \in {"idle", "ready"} => call'[d].tries = 0
               /\ call'[d].state = "sleeping" => call'[d].tries < MaxTries
    <3>1. /\ call[d].state \in {"idle", "ready"} => call[d].tries = 0
          /\ call[d].state = "sleeping" => call[d].tries < MaxTries
      BY DEF CallsInvariant, TriesLeft
    <3> QED
      BY <2>1, <2>2, <2>3, <3>1, PreparedCalls
  <2> QED
    BY <2>1, <2>4 DEF TriesLeft
<1>3. CASE call' \in Calls /\ \A e \in Document : Moved(e)
  BY <1>3 DEF Moved, CallsInvariant, TriesLeft
<1> QED
  BY <1>1, <1>2, <1>3, CallStep

LEMMA ChunkStep ==
  ASSUME CallsInvariant, [Next]_vars
  PROVE  OneChunk'
<1>1. CASE StartAttempt
  <2>1. (InProgress)' \subseteq Chunk(1)
    BY <1>1, StartCalls DEF InProgress, InState
  <2> QED
    BY <1>1, <2>1, StartCalls DEF OneChunk, Chunk
<1>2. CASE NextChunk
  <2>1. PICK c \in Document :
            /\ call' = Prepared(call, Chunk(c)) /\ Chunk(c) \subseteq Document
            /\ \A d \in Document : d < c => call[d].state = "done"
            /\ \A d \in Document : c <= d => call[d].state = "idle"
    BY <1>2, ChunkCalls
  <2>2. call \in Calls
    BY DEF CallsInvariant, TypeOK, Calls, Call
  <2>3. ASSUME NEW d \in Document, d \notin Chunk(c)
        PROVE  call'[d].state \in {"idle", "done"}
    <3>1. call'[d].state = call[d].state
      BY <2>1, <2>2, <2>3, PreparedCalls
    <3>2. d < c \/ c <= d
      BY DEF Document
    <3> QED
      BY <2>1, <3>1, <3>2
  <2>4. (InProgress)' \subseteq Chunk(c)
    BY <2>3 DEF InProgress, InState
  <2> QED
    BY <2>4 DEF OneChunk, Chunk
<1>3. CASE \A e \in Document : Moved(e)
  <2>1. (InProgress)' \subseteq InProgress
    BY <1>3 DEF InProgress, InState, Moved
  <2> QED
    BY <2>1 DEF CallsInvariant, OneChunk, Chunk
<1> QED
  BY <1>1, <1>2, <1>3, CallStep

\* A call ends for good.
LEMMA Over ==
  ASSUME CallsInvariant, [Next]_vars, ~StartAttempt
  PROVE  /\ node' = node
         /\ \A d \in Document : call[d].state \in {"done", "failed"} => call'[d] = call[d]
<1>1. CASE NextChunk
  <2>1. PICK c \in Document :
            /\ call' = Prepared(call, Chunk(c))
            /\ \A d \in Document : c <= d => call[d].state = "idle"
    BY <1>1, ChunkCalls
  <2>2. \A d \in Chunk(c) : call[d].state = "idle"
    BY <2>1 DEF Chunk
  <2>3. node' = node
    BY <1>1 DEF NextChunk
  <2> QED
    BY <2>1, <2>2, <2>3 DEF Prepared
<1>2. CASE node' = node /\ \A e \in Document : Moved(e)
  BY <1>2 DEF Moved
<1> QED
  BY <1>1, <1>2, CallStep

LEMMA HeardStep ==
  ASSUME CallsInvariant, [Next]_vars
  PROVE  PassedIsHeard' /\ passed' \in BOOLEAN
<1>1. 1 \in Document /\ passed \in BOOLEAN
  BY CallsAssumption DEF Document, CallsInvariant, TypeOK
<1>2. CASE StartAttempt
  BY <1>2 DEF StartAttempt, PassedIsHeard
<1>3. CASE ~StartAttempt /\ (passed' = passed \/ passed' = FALSE)
  <2>1. passed' => passed
    BY <1>3
  <2>2. passed => node = "DocumentationCritic" /\ call[1].state = "done"
    BY DEF CallsInvariant, PassedIsHeard
  <2> QED
    BY <1>1, <1>3, <2>1, <2>2, Over DEF PassedIsHeard
<1>4. ASSUME NEW d \in Document, Answer(d), ~(passed' = passed)
      PROVE  PassedIsHeard' /\ passed' \in BOOLEAN
  <2>1. node = "DocumentationCritic" /\ node' = node /\ call[d].state = "asking" /\ passed' \in BOOLEAN
        /\ call' = [call EXCEPT ![d].state = "done"]
    BY <1>4 DEF Answer
  <2>2. d = 1
    BY <2>1 DEF CallsInvariant, CallsInOrder
  <2>3. call \in Calls
    BY DEF CallsInvariant, TypeOK, Calls, Call
  <2> QED
    BY <1>1, <2>1, <2>2, <2>3 DEF PassedIsHeard, Calls, Call
<1>5. ASSUME ~(passed' = passed), ~StartAttempt, \A d \in Document : ~Answer(d)
      PROVE  passed' = FALSE
  <2>1. PICK d \in Document : Provider(d)
    BY <1>5 DEF Next, NextChunk, Record, Settle, OrphanEnds, Ask, CloneFails, vars
  <2>2. \E chain : Fails(d, chain)
    BY <1>5, <2>1, ProviderEnds DEF CallFails, Pause
  <2> QED
    BY <1>5, <2>2 DEF Fails
<1> QED
  BY <1>2, <1>3, <1>4, <1>5

LEMMA RecordedStep ==
  ASSUME CallsInvariant, [Next]_vars, PassedIsHeard'
  PROVE  RecordedIsWhole'
<1>1. SUFFICES ASSUME phase' = "recorded", node' = "TechnicalWriter"
               PROVE  (InState("done"))' = Document
  BY DEF RecordedIsWhole, PassedIsHeard
<1>2. CASE phase = "recorded"
  <2>1. call' = call /\ node' = node
    BY <1>2 DEF Next, StartAttempt, NextChunk, Record, Settle, OrphanEnds, Ask, CloneFails, Running,
                Provider, Answer, ProviderFails, BadText, vars
  <2> QED
    BY <1>1, <1>2, <2>1 DEF CallsInvariant, RecordedIsWhole, InState
<1>3. CASE phase # "recorded"
  <2>1. Record \/ Settle
    BY <1>1, <1>3 DEF Next, StartAttempt, NextChunk, OrphanEnds, Ask, CloneFails,
                Provider, Answer, ProviderFails, BadText, Fails, Pause, vars
  <2>2. Record
    BY <1>1, <2>1 DEF Settle, Verdict
  <2> QED
    BY <1>1, <2>2 DEF Record, CallsOver, InState
<1> QED
  BY <1>2, <1>3

\* While nothing is thrown, a request in flight is the first to fail.
LEMMA FirstFailure ==
  ASSUME CallsInvariant, Running, NEW d \in Document, call[d].state = "asking"
  PROVE  /\ cause = <<>>
         /\ node \in {"TechnicalWriter", "DocumentationCritic"}
         /\ node = "DocumentationCritic" => d = 1
BY DEF CallsInvariant, CallsInOrder, CauseIsThrown

\* A call of the writer that fails for good is thrown and spared; one of the
\* critic's is not thrown at all.
LEMMA FailsThrows ==
  ASSUME CallsInvariant, NEW d \in Document, CallFails(d)
  PROVE  /\ Len(cause') = 1 /\ cause' # <<>> /\ phase' = phase /\ node' = node
         /\ \/ /\ thrown' # <<>> /\ Len(thrown') <= 4 /\ Spared(thrown', cause'[1])
            \/ /\ thrown' = <<>> /\ node = "DocumentationCritic" /\ d = 1
               /\ call' = [call EXCEPT ![d].state = "failed"] /\ orphans' = orphans
<1>0. PICK code, message :
        \E chain \in {LlmError(code, message), DelayedRetry, HttpError(message)} : Fails(d, chain)
  BY DEF CallFails
<1> PICK chain \in {LlmError(code, message), DelayedRetry, HttpError(message)} : Fails(d, chain)
  BY <1>0
<1>1. PICK f : /\ chain = <<f>>
               /\ f.wait => f.message = {} /\ f.kind = "Delayed"
               /\ f.kind = "Llm" => ~f.wait
  BY CallFailures
<1> USE DEF CallFails
<1>2. cause' = <<f>> /\ phase' = phase /\ node' = node /\ thrown = <<>>
  BY <1>1, FirstFailure DEF Fails, Running
<1>3. /\ NodeThrows(WriterThrows(LlmServiceThrows(chain))) # <<>>
      /\ Len(NodeThrows(WriterThrows(LlmServiceThrows(chain)))) <= 4
      /\ Spared(NodeThrows(WriterThrows(LlmServiceThrows(chain))), f)
      /\ ~AsksForRetry(LlmServiceThrows(chain))
  BY <1>1, WriterSpares
<1>4. Len(<<f>>) = 1 /\ <<f>> # <<>> /\ <<f>>[1] = f
  OBVIOUS
<1>5. CASE node = "TechnicalWriter"
  <2>1. thrown' = NodeThrows(WriterThrows(LlmServiceThrows(chain)))
    BY <1>5 DEF Fails
  <2> QED
    BY <1>2, <1>3, <1>4, <2>1
<1>6. CASE node = "DocumentationCritic"
  <2>1. /\ thrown' = thrown /\ orphans' = orphans
        /\ call' = [call EXCEPT ![d].state = "failed"]
    BY <1>3, <1>6 DEF Fails
  <2> QED
    BY <1>2, <1>4, <1>6, <2>1, FirstFailure
<1> QED
  BY <1>5, <1>6, FirstFailure

\* What a step throws, and what it leaves of the causes.
LEMMA ThrowStep ==
  ASSUME CallsInvariant, [Next]_vars
  PROVE  /\ Len(thrown') <= 4 /\ Len(cause') <= 1
         /\ CauseIsThrown' /\ ThrownIsSpared'
<1>1. CASE StartAttempt
  BY <1>1 DEF StartAttempt, CauseIsThrown, ThrownIsSpared
<1>2. ASSUME thrown' = thrown, cause' = cause, ~StartAttempt, Running' => Running
      PROVE  /\ Len(thrown') <= 4 /\ Len(cause') <= 1
             /\ CauseIsThrown' /\ ThrownIsSpared'
  <2>1. 1 \in Document
    BY CallsAssumption DEF Document
  <2>2. Len(thrown) <= 4 /\ Len(cause) <= 1 /\ CauseIsThrown /\ ThrownIsSpared
    BY DEF CallsInvariant, TypeOK
  <2>3. node' = node /\ (call[1].state = "failed" => call'[1].state = "failed")
    BY <1>2, <2>1, Over
  <2> QED
    BY <1>2, <2>2, <2>3 DEF CauseIsThrown, ThrownIsSpared
<1>3. ASSUME NEW d \in Document, CallFails(d)
      PROVE  /\ Len(thrown') <= 4 /\ Len(cause') <= 1
             /\ CauseIsThrown' /\ ThrownIsSpared'
  <2>1. call \in Calls
    BY DEF CallsInvariant, TypeOK, Calls, Call
  <2>2. /\ Len(cause') = 1 /\ cause' # <<>> /\ phase' = phase /\ node' = node
        /\ \/ /\ thrown' # <<>> /\ Len(thrown') <= 4 /\ Spared(thrown', cause'[1])
           \/ /\ thrown' = <<>> /\ node = "DocumentationCritic" /\ d = 1
              /\ call' = [call EXCEPT ![d].state = "failed"]
    BY <1>3, FailsThrows
  <2>3. CASE thrown' # <<>> /\ Len(thrown') <= 4 /\ Spared(thrown', cause'[1])
    BY <2>2, <2>3 DEF CauseIsThrown, ThrownIsSpared, Running
  <2>4. CASE thrown' = <<>> /\ node = "DocumentationCritic" /\ d = 1 /\ call' = [call EXCEPT ![d].state = "failed"]
    <3>1. call'[1].state = "failed"
      BY <2>1, <2>4 DEF Calls, Call
    <3> QED
      BY <2>2, <2>4, <3>1 DEF CauseIsThrown, ThrownIsSpared
  <2> QED
    BY <2>2, <2>3, <2>4
<1>4. ASSUME NEW message, CloneFails(message)
      PROVE  /\ Len(thrown') <= 4 /\ Len(cause') <= 1
             /\ CauseIsThrown' /\ ThrownIsSpared'
  <2>1. /\ cause' = GitError(message)
        /\ thrown' \in {CloneThrows(GitError(message)), NodeThrows(CloneThrows(GitError(message)))}
    BY <1>4 DEF CloneFails
  <2>2. thrown' # <<>> /\ Len(thrown') <= 4 /\ Spared(thrown', cause'[1])
    BY <2>1, CloneSpares
  <2>3. Len(cause') = 1 /\ cause' # <<>>
    BY <2>1 DEF GitError
  <2> QED
    BY <2>2, <2>3 DEF CauseIsThrown, ThrownIsSpared, Running
<1>5. ASSUME NEW d \in Document, Provider(d), ~CallFails(d)
      PROVE  thrown' = thrown /\ cause' = cause /\ ~StartAttempt /\ (Running' => Running)
  <2>1. Answer(d) \/ (Running /\ Pause(d))
    BY <1>5, ProviderEnds
  <2> QED
    BY <2>1 DEF Answer, Pause, Running, StartAttempt
<1>6. CASE NextChunk \/ Record \/ Settle \/ OrphanEnds \/ (\E d \in Document : Ask(d)) \/ UNCHANGED vars
  <2>1. thrown' = thrown /\ cause' = cause /\ (Running' => Running)
    BY <1>6 DEF NextChunk, Record, Settle, OrphanEnds, Ask, Running, vars
  <2> QED
    BY <1>1, <1>2, <2>1
<1> QED
  BY <1>1, <1>2, <1>3, <1>4, <1>5, <1>6 DEF Next

\* The queue judges what was thrown.
LEMMA BuriedStep ==
  ASSUME CallsInvariant, [Next]_vars
  PROVE  RetryableIsNeverBuried'
<1>1. SUFFICES ASSUME phase' = "deadLettered"
               PROVE  \/ ~(cause'[1].retryable \/ cause'[1].wait)
                      \/ cause'[1].message \cap PermanentPhrases # {}
  BY DEF RetryableIsNeverBuried
<1>2. CASE phase = "deadLettered"
  <2>1. cause' = cause
    BY <1>2 DEF Next, StartAttempt, NextChunk, Record, Settle, OrphanEnds, Ask, CloneFails, Running,
                Provider, Answer, ProviderFails, BadText, vars
  <2> QED
    BY <1>2, <2>1 DEF CallsInvariant, RetryableIsNeverBuried
<1>3. CASE phase # "deadLettered"
  <2>1. Settle
    BY <1>1, <1>3 DEF Next, StartAttempt, NextChunk, Record, OrphanEnds, Ask, CloneFails,
                Provider, Answer, ProviderFails, BadText, Fails, Pause, vars
  <2>2. Verdict(thrown) = "deadLettered" /\ thrown # <<>> /\ cause' = cause
    BY <1>1, <2>1 DEF Settle
  <2> QED
    BY <2>2 DEF CallsInvariant, ThrownIsSpared, Spared
<1> QED
  BY <1>2, <1>3

\* Attempts are counted, and each abandons fewer requests than there are documents.
LEMMA AttemptsStep ==
  ASSUME CallsInvariant, [Next]_vars
  PROVE  AttemptsLeft' /\ attempt' \in 0..MaxAttempts /\ orphans' \in Nat
<1> DEFINE most(a) == a * NumDocuments
<1>1. /\ attempt \in Nat /\ attempt <= MaxAttempts /\ orphans \in Nat /\ NumDocuments \in Nat
      /\ MaxAttempts \in Nat /\ AttemptsLeft
  BY CallsAssumption, Attempts DEF CallsInvariant, TypeOK
<1>2. /\ most(attempt) \in Nat /\ most(attempt + 1) = most(attempt) + NumDocuments
      /\ attempt > 0 => most(attempt - 1) \in Nat /\ most(attempt) = most(attempt - 1) + NumDocuments
  <2>1. attempt > 0 => attempt - 1 \in Nat /\ (attempt - 1) + 1 = attempt
    BY <1>1
  <2> QED
    BY <1>1, <2>1, Attempts
<1>3. /\ phase = "waiting" => attempt < MaxAttempts
      /\ phase = "running" => attempt > 0
      /\ orphans <= most(attempt)
      /\ Running => orphans <= most(attempt - 1)
  BY <1>1 DEF AttemptsLeft
<1> DEFINE Left == /\ attempt' \in Nat /\ attempt' <= MaxAttempts /\ orphans' \in Nat
                   /\ phase' = "waiting" => attempt' < MaxAttempts
                   /\ phase' = "running" => attempt' > 0
                   /\ orphans' <= most(attempt')
                   /\ Running' => orphans' <= most(attempt' - 1)
<1>4. ASSUME Left PROVE AttemptsLeft' /\ attempt' \in 0..MaxAttempts /\ orphans' \in Nat
  <2>1. /\ phase' = "waiting" => attempt' < MaxAttempts
        /\ phase' = "running" => attempt' > 0
        /\ orphans' <= attempt' * NumDocuments
        /\ Running' => orphans' <= (attempt' - 1) * NumDocuments
    BY <1>4
  <2>2. AttemptsLeft'
    BY <2>1 DEF AttemptsLeft
  <2> QED
    BY <1>1, <1>4, <2>2
<1> HIDE DEF most
<1>5. CASE StartAttempt
  <2>1. /\ attempt' = attempt + 1 /\ orphans' = orphans /\ phase' = "running"
        /\ phase = "waiting"
    BY <1>5 DEF StartAttempt
  <2>2. attempt' - 1 = attempt
    BY <1>1, <2>1
  <2> QED
    BY <1>1, <1>2, <1>3, <1>4, <2>1, <2>2
<1>6. CASE attempt' = attempt /\ phase' = phase /\ (Running' => Running) /\ orphans' \in 0..orphans
  <2>1. Running => most(attempt - 1) \in Nat
    BY <1>2, <1>3 DEF Running
  <2> QED
    BY <1>1, <1>2, <1>3, <1>4, <1>6, <2>1
<1>7. CASE Record \/ Settle
  <2>1. attempt' = attempt /\ orphans' = orphans /\ phase' # "running"
        /\ (phase' = "waiting" => attempt # MaxAttempts)
    BY <1>7 DEF Record, Settle, Verdict
  <2> QED
    BY <1>1, <1>2, <1>3, <1>4, <2>1 DEF Running
<1>8. ASSUME NEW d \in Document, CallFails(d)
      PROVE  AttemptsLeft' /\ attempt' \in 0..MaxAttempts /\ orphans' \in Nat
  <2>1. attempt' = attempt /\ phase' = phase /\ Running /\ phase = "running"
    BY <1>8 DEF CallFails, Fails, Running
  <2>2. CASE orphans' = orphans
    BY <1>1, <1>3, <1>4, <2>1, <2>2
  <2>3. CASE orphans' # orphans
    <3>1. orphans' = orphans + Cardinality(InState("asking") \ {d})
      BY <1>8, <2>3 DEF CallFails, Fails
    <3>2. InState("asking") \ {d} \in SUBSET Document
      BY DEF InState
    <3>3. orphans' \in Nat /\ orphans' <= orphans + NumDocuments
      BY <1>1, <3>1, <3>2, FewDocuments
    <3>4. ~Running'
      BY <1>8, <2>3, FailsThrows DEF Running
    <3>5. attempt > 0 /\ orphans <= most(attempt - 1)
      BY <1>3, <2>1
    <3> QED
      BY <1>1, <1>2, <1>3, <1>4, <2>1, <3>3, <3>4, <3>5
  <2> QED
    BY <2>2, <2>3
<1>9. ASSUME NEW d \in Document, Provider(d), ~CallFails(d)
      PROVE  attempt' = attempt /\ phase' = phase /\ (Running' => Running) /\ orphans' \in 0..orphans
  <2>1. Answer(d) \/ (Running /\ Pause(d))
    BY <1>9, ProviderEnds
  <2> QED
    BY <1>1, <2>1 DEF Answer, Pause, Running
<1>10. ASSUME \/ NextChunk \/ OrphanEnds \/ (\E d \in Document : Ask(d))
              \/ (\E m \in GitMessage : CloneFails(m)) \/ UNCHANGED vars
       PROVE  attempt' = attempt /\ phase' = phase /\ (Running' => Running) /\ orphans' \in 0..orphans
  <2>1. CASE OrphanEnds
    BY <1>1, <2>1 DEF OrphanEnds, Running
  <2>2. CASE NextChunk \/ (\E d \in Document : Ask(d)) \/ UNCHANGED vars
    <3>1. UNCHANGED <<attempt, phase, thrown, orphans>>
      BY <2>2 DEF NextChunk, Ask, vars
    <3> QED
      BY <1>1, <3>1 DEF Running
  <2>3. CASE \E m \in GitMessage : CloneFails(m)
    BY <1>1, <2>3 DEF CloneFails, Running
  <2> QED
    BY <1>10, <2>1, <2>2, <2>3
<1> QED
  BY <1>5, <1>6, <1>7, <1>8, <1>9, <1>10 DEF Next

-----------------------------------------------------------------------------
(* The theorems. *)

LEMMA CallsInit == Init => CallsInvariant
<1> SUFFICES ASSUME Init
             PROVE  CallsInvariant
  OBVIOUS
<1>1. /\ NumDocuments \in Nat /\ MaxTries \in Nat \ {0} /\ MaxAttempts \in Nat \ {0} /\ 1 \in Document
      /\ 0 * NumDocuments = 0 /\ MaxAttempts * NumDocuments \in Nat
  BY CallsAssumption, Attempts DEF Document
<1>2. call \in Calls /\ \A d \in Document : call[d].state = "idle" /\ call[d].tries = 0
  BY <1>1 DEF Init, Calls, Call
<1>3. TypeOK
  <2>1. Len(thrown) <= 4 /\ Len(cause) <= 1
    BY DEF Init
  <2>2. attempt \in 0..MaxAttempts /\ orphans \in 0..(MaxAttempts * NumDocuments)
    BY <1>1 DEF Init
  <2>3. node \in NodeName /\ phase \in {"waiting", "running"} \cup Ended
    BY DEF Init, NodeName
  <2>4. aborted \in BOOLEAN /\ passed \in BOOLEAN
    BY DEF Init
  <2> QED
    BY <1>2, <2>1, <2>2, <2>3, <2>4 DEF TypeOK, Calls, Call
<1>4. CallsInOrder /\ TriesLeft
  BY <1>2 DEF CallsInOrder, TriesLeft
<1>5. OneChunk
  BY <1>1, <1>2 DEF OneChunk, InProgress, InState
<1>6. AttemptsLeft
  BY <1>1 DEF Init, AttemptsLeft, Running
<1> QED
  BY <1>3, <1>4, <1>5, <1>6 DEF Init, CallsInvariant, PassedIsHeard, CauseIsThrown, ThrownIsSpared,
     Running, RecordedIsWhole, RetryableIsNeverBuried

LEMMA TypeStep ==
  ASSUME CallsInvariant, [Next]_vars
  PROVE  TypeOK'
<1>1. attempt' \in 0..MaxAttempts /\ orphans' \in Nat /\ orphans' <= attempt' * NumDocuments
  BY AttemptsStep DEF AttemptsLeft
<1>2. orphans' \in 0..(MaxAttempts * NumDocuments)
  <2>1. attempt' \in Nat /\ attempt' <= MaxAttempts /\ MaxAttempts \in Nat
    BY <1>1, CallsAssumption
  <2>2. /\ attempt' * NumDocuments <= MaxAttempts * NumDocuments
        /\ attempt' * NumDocuments \in Nat /\ MaxAttempts * NumDocuments \in Nat
    BY <2>1, Attempts
  <2> QED
    BY <1>1, <2>2
<1>3. call' \in [Document -> [state : {"idle", "ready", "asking", "sleeping", "done", "failed"},
                             tries : 0..MaxTries]]
  BY TriesStep DEF Calls, Call
<1>4. passed' \in BOOLEAN /\ Len(thrown') <= 4 /\ Len(cause') <= 1
  BY HeardStep, ThrowStep
<1>5. node' \in NodeName /\ phase' \in {"waiting", "running"} \cup Ended /\ aborted' \in BOOLEAN
  <2>1. node \in NodeName /\ phase \in {"waiting", "running"} \cup Ended /\ aborted \in BOOLEAN
    BY DEF CallsInvariant, TypeOK
  <2>2. CASE StartAttempt
    BY <2>2, StartCalls DEF StartAttempt
  <2>3. CASE Settle \/ Record
    BY <2>1, <2>3 DEF Settle, Record, Verdict, Ended
  <2>4. ASSUME NEW d \in Document, Provider(d)
        PROVE  node' = node /\ phase' = phase /\ aborted' \in BOOLEAN
    BY <2>1, <2>4, ProviderEnds DEF Answer, Pause, CallFails, Fails
  <2>5. CASE \/ NextChunk \/ OrphanEnds \/ (\E d \in Document : Ask(d))
             \/ (\E m \in GitMessage : CloneFails(m)) \/ UNCHANGED vars
    BY <2>1, <2>5 DEF NextChunk, OrphanEnds, Ask, CloneFails, vars
  <2> QED
    BY <2>1, <2>2, <2>3, <2>4, <2>5 DEF Next
<1> QED
  BY <1>1, <1>2, <1>3, <1>4, <1>5 DEF TypeOK

LEMMA CallsAlways == Spec => []CallsInvariant
<1>1. ASSUME CallsInvariant, [Next]_vars
      PROVE  CallsInvariant'
  BY <1>1, TypeStep, OrderStep, TriesStep, ChunkStep, AttemptsStep, HeardStep, RecordedStep,
     ThrowStep, BuriedStep DEF CallsInvariant
<1> QED
  BY <1>1, CallsInit, PTL DEF Spec

\* Every call, error and counter keeps its type: no request is tried more often than
\* the policy allows and no job more often than the queue does (RetryPolicyService).
THEOREM CallsAreTyped == Spec => []TypeOK
<1>1. CallsInvariant => TypeOK
  BY DEF CallsInvariant
<1> QED
  BY <1>1, CallsAlways, PTL

\* However the calls of a chunk interleave, fail and are cancelled, no more documents
\* are in the making than the limit (generateDocuments).
THEOREM ConcurrencyIsBounded == Spec => []BoundedConcurrency
<1>1. ASSUME CallsInvariant
      PROVE  BoundedConcurrency
  <2>1. PICK c \in Document : InProgress \subseteq Chunk(c)
    BY <1>1 DEF CallsInvariant, OneChunk
  <2> QED
    BY <2>1, ChunkBound DEF BoundedConcurrency, InProgress
<1> QED
  BY <1>1, CallsAlways, PTL

\* What a node records is whole (TechnicalWriterNode, DocumentationCriticNode).
THEOREM RecordsAreWhole == Spec => []RecordedIsWhole
<1>1. CallsInvariant => RecordedIsWhole
  BY DEF CallsInvariant
<1> QED
  BY <1>1, CallsAlways, PTL

\* Whatever the provider and git answer, no failure that its class calls retryable is
\* given to the dead letters unless its words say so (classifyWorkflowError).
THEOREM RetryablesAreSpared == Spec => []RetryableIsNeverBuried
<1>1. CallsInvariant => RetryableIsNeverBuried
  BY DEF CallsInvariant
<1> QED
  BY <1>1, CallsAlways, PTL
=============================================================================
