------------------------------ MODULE Pipeline ------------------------------
(***************************************************************************)
(* The documentation pipeline as a graph: the nodes of                     *)
(* documentation-workflow.graph.ts, their order, the edge taken after each *)
(* of them, and the decisions of workflow-executor.service.ts and          *)
(* workflow-node-adapters.ts about where an execution enters the graph and *)
(* which nodes it passes over.                                             *)
(*                                                                         *)
(* A graph state is a record                                               *)
(*   done    the nodes whose output the state holds (repository,           *)
(*           documentation, sourceCodeAnalysis, commitSha, ...)            *)
(*   docs    the generation of generatedDocuments it holds, 0 for none     *)
(*   iter    generationIteration                                           *)
(*   verdict humanReviewStatus, "NONE" for undefined                       *)
(*   skip    shouldSkip                                                    *)
(***************************************************************************)
EXTENDS Naturals, Sequences

CONSTANT OpensPullRequest   \* FALSE for branchStrategy CURRENT_BRANCH
ASSUME PipelineAssumption == OpensPullRequest \in BOOLEAN

SequentialOrder ==
  << "EarlySkip", "RepositoryAnalyzer", "DocumentationLocator",
     "CodebaseAnalyzer", "TechnicalWriter", "DocumentationCritic",
     "GitCommit", "PushBranch", "CreatePullRequest" >>

Node == {SequentialOrder[i] : i \in 1..Len(SequentialOrder)}
Position(n) == CHOOSE i \in 1..Len(SequentialOrder) : SequentialOrder[i] = n

Verdict == {"NONE", "PENDING", "APPROVED", "REJECTED"}

GraphState == [done : SUBSET Node, docs : Nat, iter : Nat,
               verdict : Verdict, skip : BOOLEAN]

\* The state a fresh execution is invoked with.
FreshState == [done |-> {}, docs |-> 0, iter |-> 1, verdict |-> "NONE", skip |-> FALSE]

-----------------------------------------------------------------------------
\* Where a resumed execution enters, from the node of the last checkpoint.
DetermineNextNode(last) ==
  CASE last = "NONE" -> "EarlySkip"
    [] last = "CreatePullRequest" -> "RepositoryAnalyzer"
    [] OTHER -> SequentialOrder[Position(last) + 1]

\* Mutant: the checkpointed node itself, not the one after it.
FirstNodeUnadvanced(verdict, last) ==
  CASE verdict = "REJECTED" -> "TechnicalWriter"
    [] verdict = "APPROVED" -> "GitCommit"
    [] OTHER -> last

\* The verdict of the current review takes precedence over the checkpoint.
FirstNode(verdict, last) ==
  CASE verdict = "REJECTED" -> "TechnicalWriter"
    [] verdict = "APPROVED" -> "GitCommit"
    [] OTHER -> DetermineNextNode(last)

\* The adapter of n returns without calling the node.
ShouldSkip(n, first, s) ==
  \/ n = "GitCommit" /\ "GitCommit" \in s.done
  \/ Position(n) < Position(first)

\* Mutant: the critic's edge is unconditional.
RouteUnreviewed(n, s) ==
  IF n = "CreatePullRequest" \/ (n = "EarlySkip" /\ s.skip) THEN "END"
  ELSE SequentialOrder[Position(n) + 1]

\* The edge out of n; "END" ends the invocation.
Route(n, s) ==
  CASE n = "EarlySkip" /\ s.skip -> "END"
    [] n = "DocumentationCritic" /\ s.verdict = "APPROVED" -> "GitCommit"
    [] n = "DocumentationCritic" /\ s.verdict = "REJECTED" -> "TechnicalWriter"
    [] n = "DocumentationCritic" /\ s.verdict \notin {"APPROVED", "REJECTED"} -> "END"
    [] n = "CreatePullRequest" -> "END"
    [] OTHER -> SequentialOrder[Position(n) + 1]

-----------------------------------------------------------------------------
\* What a node insists on finding in the state before it does anything.
Ready(n, s) ==
  CASE n = "TechnicalWriter" ->
         {"RepositoryAnalyzer", "DocumentationLocator"} \subseteq s.done
    [] n = "DocumentationCritic" ->
         /\ {"RepositoryAnalyzer", "DocumentationLocator"} \subseteq s.done
         /\ s.docs # 0
    [] n = "PushBranch" -> "GitCommit" \in s.done
    [] n = "CreatePullRequest" ->
         OpensPullRequest => {"GitCommit", "RepositoryAnalyzer"} \subseteq s.done
    [] OTHER -> TRUE

\* The graph states node n may return from s; generation is what a writer
\* that runs now calls its documents.
Outputs(n, s, generation) ==
  CASE n = "EarlySkip" ->
         {[s EXCEPT !.done = @ \cup {n}, !.skip = b] : b \in BOOLEAN}
    [] n = "TechnicalWriter" ->
         {[s EXCEPT !.done = @ \cup {n},
                    !.docs = generation,
                    !.iter = IF s.verdict = "REJECTED" THEN @ + 1 ELSE @,
                    !.verdict = "NONE"]}
    [] OTHER -> {[s EXCEPT !.done = @ \cup {n}]}
=============================================================================
