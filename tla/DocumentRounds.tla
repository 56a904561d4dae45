---------------------------- MODULE DocumentRounds ----------------------------
(***************************************************************************)
(* The documents of a repository over several runs: what a push makes of   *)
(* the run's first decision (early-skip.node.ts), what the locator takes   *)
(* for its own earlier work and what for a developer's, what the model     *)
(* answers, what the critic makes of it, and what is written back, which   *)
(* is a push again.                                                        *)
(*                                                                         *)
(* One run at a time, on the default branch; retries, reviews and the      *)
(* working tree are RunLifecycle and PublicationWorkspace.  A developer    *)
(* edits between two runs.                                                 *)
(***************************************************************************)
EXTENDS GeneratedText, CodebaseAnalysis

CONSTANTS
  Type,         \* orderedTypes, as a sequence
  Path,         \* paths of documents, relative to documentationDirectory
  Nested,       \* those in a directory below it
  Standard,     \* those whose name mapType knows
  Root,         \* documentationDirectory is "."
  Texts,        \* bound: the model's answers, as tokens
  Drafts,       \* bound: the documents in them
  Markdowns,    \* bound: a developer's documents
  CriticItems,  \* bound: the critic's answers
  Repositories, \* bound: the files analyzed
  MaxPushes     \* bound: pushes in all

ASSUME DocumentRoundsAssumption ==
  /\ Nested \subseteq Path /\ Standard \subseteq Path
  /\ Root \in BOOLEAN /\ MaxPushes \in Nat
  /\ Type \in Seq(STRING)
  /\ Texts \subseteq Seq(Token) /\ Drafts \cup Markdowns \subseteq Seq(Line)
  /\ CriticItems \subseteq Seq([type : STRING, score : Int])
  /\ Repositories \subseteq Seq(IndexedFile)
  /\ \A read \in Repositories : IsInjective([i \in DOMAIN read |-> read[i].path])

VARIABLES
  files,  \* the documents on the default branch
  own,    \* history: what DocPulse wrote there and nobody touched since
  push,   \* the last push
  run,    \* the run it started
  pushes

vars == <<files, own, push, run, pushes>>

Absent == <<"absent">>
FileKind == {"doc", "lock", "code"}
Types == {Type[i] : i \in 1..Len(Type)}
Push == [last : SUBSET FileKind, earlier : SUBSET FileKind, asked : BOOLEAN, active : BOOLEAN]
NoPush == [last |-> {}, earlier |-> {}, asked |-> FALSE, active |-> TRUE]
PC == {"idle", "pushed", "entered", "skipped", "located", "asking", "answered", "written",
       "reviewed", "approved", "failed"}
NoAnswer == [text |-> <<>>, path |-> "none", markdown |-> <<>>]
NoReview == [score |-> 0, passed |-> FALSE]
Fresh == [pc |-> "idle", previous |-> {}, authored |-> {}, read |-> <<>>, failing |-> {},
          answer |-> NoAnswer, documents |-> <<>>, items |-> <<>>, review |-> NoReview]

Init ==
  /\ files \in [Path -> {Absent} \cup Markdowns]
  /\ own = [p \in Path |-> Absent]
  /\ push = NoPush
  /\ run = Fresh
  /\ pushes = 0

Goto(pc) == run' = [run EXCEPT !.pc = pc]
Pushed == pushes < MaxPushes /\ pushes' = pushes + 1

-----------------------------------------------------------------------------
(* The developer. *)

\* A push to the default branch: the files of its last commit and of those before it.
PushCode ==
  /\ run.pc \in {"idle", "skipped", "failed"} /\ Pushed
  /\ \E p \in Push : push' = p
  /\ run' = [Fresh EXCEPT !.pc = "pushed"]
  /\ UNCHANGED <<files, own>>

Marked(markdown) == <<"marker">> \o markdown
IsGenerated(file) == file # <<>> /\ Head(file) = "marker"

\* A document is rewritten with or without its marker, or deleted.
EditDocument(p) ==
  /\ run.pc \in {"idle", "skipped", "failed"} /\ Pushed
  /\ \E new \in {Absent} \cup Markdowns \cup {Marked(m) : m \in Markdowns} :
       /\ files' = [files EXCEPT ![p] = new]
       /\ new \notin {Absent} \cup Markdowns => files[p] # Absent /\ IsGenerated(files[p])
  /\ own' = [own EXCEPT ![p] = Absent]
  /\ push' = [last |-> {"doc"}, earlier |-> {}, asked |-> FALSE, active |-> TRUE]
  /\ run' = [Fresh EXCEPT !.pc = "pushed"]

-----------------------------------------------------------------------------
(* EarlySkipNode and its rules. *)

IsDoc(file) == file = "doc"
IsLock(file) == file = "lock"

DisabledRepository(context) == ~context.active
CommitMessageSkip(context) == context.asked
\* Mutant: one documentation file among the changed ones is enough.
DocumentationSome(context) == \E file \in context.modified : IsDoc(file)
DocumentationOnly(context) ==
  context.modified # {} /\ \A file \in context.modified : IsDoc(file)
DependencyOnly(context) ==
  context.modified # {} /\ \A file \in context.modified : IsLock(file)

\* git show knows the last commit only; a merge has no files, and a failure counts as none.
SkipContexts ==
  {[active |-> push.active, modified |-> push.last, asked |-> push.asked],
   [active |-> push.active, modified |-> push.last, asked |-> FALSE],
   [active |-> push.active, modified |-> {}, asked |-> FALSE]}

EarlySkip ==
  /\ run.pc = "pushed"
  /\ \E context \in SkipContexts :
       Goto(IF \/ DisabledRepository(context) \/ CommitMessageSkip(context)
               \/ DocumentationOnly(context) \/ DependencyOnly(context)
            THEN "skipped" ELSE "entered")
  /\ UNCHANGED <<files, own, push, pushes>>

\* A fresh run enters behind EarlySkip; only one retried without a checkpoint executes it.
EnterFresh ==
  /\ run.pc = "pushed" /\ push.active
  /\ Goto("entered")
  /\ UNCHANGED <<files, own, push, pushes>>

-----------------------------------------------------------------------------
(* DocumentationLocatorNode: buildDocumentationInventory. *)

\* Only files directly in the directory; in the root only those with a known name.
Inventoried(p) == p \notin Nested /\ (Root => p \in Standard)

\* Without the marker, and trimmed when it is put into the prompt.
Content(file) == Trim(Tail(file))

Locate ==
  LET found == {p \in Path : Inventoried(p) /\ files[p] # Absent}
      generated == {p \in found : IsGenerated(files[p])}
  IN /\ run.pc = "entered" /\ push' = NoPush
     /\ run' = [run EXCEPT !.pc = "located",
                           !.previous = {[path |-> p, text |-> Content(files[p])] : p \in generated},
                           !.authored = found \ generated]
     /\ UNCHANGED <<files, own, pushes>>

\* CodebaseAnalyzerNode, with analyzers that throw.
Analyze ==
  /\ run.pc = "located"
  /\ \E read \in Repositories, failing \in SUBSET Analyzer :
       run' = [run EXCEPT !.pc = "asking", !.read = read, !.failing = failing]
  /\ UNCHANGED <<files, own, push, pushes>>

-----------------------------------------------------------------------------
(* TechnicalWriterNode: one question per type, in which previous documents are quoted. *)

Ask ==
  /\ run.pc = "asking" /\ Len(run.documents) < Len(Type)
  /\ \E text \in Texts, path \in Path, markdown \in Drafts \cup {d.text : d \in run.previous} :
       run' = [run EXCEPT !.pc = "answered", !.read = <<>>, !.failing = {},
                          !.answer = [text |-> text, path |-> path, markdown |-> markdown]]
  /\ UNCHANGED <<files, own, push, pushes>>

Parse ==
  LET a == run.answer
      type == Type[Len(run.documents) + 1]
  IN /\ run.pc = "answered"
     /\ run' = IF Parses(a.text) /\ Complete(a.markdown)
                 THEN [run EXCEPT !.pc = IF Len(run.documents) + 1 = Len(Type) THEN "written" ELSE "asking",
                                  !.documents = Append(@, ParsedDocument(type, a.path, a.markdown)),
                                  !.answer = NoAnswer]
                 ELSE [run EXCEPT !.pc = "failed"]
     /\ UNCHANGED <<files, own, push, pushes>>

-----------------------------------------------------------------------------
(* DocumentationCriticNode, the reviewer, and DocumentationWriterService. *)

Criticize ==
  /\ run.pc = "written"
  /\ \E items \in CriticItems :
       run' = [run EXCEPT !.pc = "reviewed", !.items = items,
                          !.review = ReviewDocuments(run.documents, BatchScores(items))]
  /\ UNCHANGED <<files, own, push, pushes>>

\* The reviewer decides whatever the critic says.
Approve ==
  /\ run.pc = "reviewed"
  /\ run' = [run EXCEPT !.pc = "approved", !.items = <<>>, !.review = NoReview]
  /\ UNCHANGED <<files, own, push, pushes>>

\* All documents are written again, from the same inventory.
Reject ==
  /\ run.pc = "reviewed"
  /\ run' = [run EXCEPT !.pc = "asking", !.documents = <<>>, !.items = <<>>, !.review = NoReview]
  /\ UNCHANGED <<files, own, push, pushes>>

\* Mutant: the marker is put below the document.
WrittenBelow(markdown) == markdown \o <<"marker">>
Written(markdown) == Marked(markdown)

\* writeDocuments: in their order, two documents with one path over each other.
LastFor(p) == Max({i \in 1..Len(run.documents) : run.documents[i].path = p})
Publish ==
  LET paths == {run.documents[i].path : i \in 1..Len(run.documents)} IN
  /\ run.pc = "approved" /\ Pushed
  /\ files' = [p \in Path |-> IF p \in paths THEN Written(run.documents[LastFor(p)].markdown) ELSE files[p]]
  /\ own' = [p \in Path |-> IF p \in paths THEN run.documents[LastFor(p)].markdown ELSE own[p]]
  /\ push' = [last |-> {"doc"}, earlier |-> {}, asked |-> FALSE, active |-> TRUE]
  /\ run' = [Fresh EXCEPT !.pc = "pushed"]

\* The pull request is closed without being merged.
Close ==
  /\ run.pc = "approved"
  /\ run' = Fresh
  /\ UNCHANGED <<files, own, push, pushes>>

-----------------------------------------------------------------------------
Next ==
  \/ PushCode \/ \E p \in Path : EditDocument(p)
  \/ EarlySkip \/ EnterFresh \/ Locate \/ Analyze \/ Ask \/ Parse
  \/ Criticize \/ Approve \/ Reject \/ Publish \/ Close

Spec == Init /\ [][Next]_vars

-----------------------------------------------------------------------------
(* A run is only skipped over changes that need no new documentation: when its push is
   one commit, nobody asked for it and the repository is active, every changed file is
   documentation or every one a dependency file, whatever git could not tell. *)
SkipsAreHarmless ==
  run.pc = "skipped" /\ push.active /\ ~push.asked /\ push.earlier = {}
    => push.last # {} /\ "code" \notin push.last

(* What DocPulse wrote and nobody touched since comes back in the next run as its own
   earlier document, word for word and without the marker, and is never taken for a
   developer's, as long as the locator looks at its path at all. *)
Comes(p) == [path |-> p, text |-> own[p]] \in run.previous /\ p \notin run.authored
OwnDocumentsComeBack ==
  run.pc = "located" =>
    /\ \A p \in Path : own[p] # Absent /\ Inventoried(p) => Comes(p)
    /\ \A d \in run.previous : \A i \in 1..Len(d.text) : d.text[i] # "marker"

(* The same of every path a model may choose, as the comment where the marker is
   written has it. *)
EveryOwnDocumentComesBack ==
  run.pc = "located" => \A p \in Path : own[p] # Absent => Comes(p)

(* Whatever fences, language tags and prose a model puts around one complete JSON
   object, the object is found and the run does not fail over it. *)
Around(text) == Cardinality(Occurrences("{", text)) = 1 /\ Cardinality(Occurrences("}", text)) = 1
                  /\ \E i \in 1..Len(text) - 2 : SubSeq(text, i, i + 2) = Object
AnswersAreUnderstood ==
  run.pc = "failed" /\ Around(run.answer.text) => ~Complete(run.answer.markdown)

(* The critic passes a set of documents only if it scored each of them high enough and
   each is sound Markdown; an answer that is partial, repeated, out of range or about
   other documents passes nothing it did not judge. *)
Judged(document) ==
  \E i \in 1..Len(run.items) : /\ run.items[i].type = document.type
                               /\ run.items[i].score # Unscored /\ run.items[i].score >= Threshold
PassedMeansJudged ==
  run.pc = "reviewed" /\ run.review.passed =>
    \A i \in 1..Len(run.documents) :
      LET markdown == run.documents[i].markdown IN
      /\ Judged(run.documents[i])
      /\ \E j \in 1..Len(markdown) : IsHeading(markdown[j])
      /\ Cardinality(Fences(markdown)) % 2 = 0

(* An analyzer that throws takes away what it would have found and nothing else, no list
   grows over its limit, and the two analyses of one repository agree: what the summary
   calls a framework of it the analysis knows too, peer dependencies aside, unless its
   list is full. *)
Delivers(analyzer, files_) == DOMAIN Partial(analyzer, files_)
KnownTo(analysis, framework) ==
  Listed(analysis.frameworks, framework) \/ Len(analysis.frameworks) = Limit
AnalysisSurvivesFailures ==
  run.pc = "asking" /\ run.read # <<>> =>
    LET partly == AnalyzeRepository(run.read, run.failing)
        wholly == AnalyzeRepository(run.read, {})
        frameworks == RepositorySummary(run.read, "workspace").frameworks
    IN /\ \A list \in Lists : Len(partly[list]) <= Limit
       /\ \A analyzer \in Analyzer \ run.failing :
            Supports(analyzer, run.read) =>
              \A field \in Delivers(analyzer, run.read) : partly[field] = wholly[field]
       /\ \A i \in 1..Len(frameworks) :
            \/ "dependency" \in run.failing \/ KnownTo(partly, frameworks[i])
            \/ Listed(Package(run.read).peer, frameworks[i])
=============================================================================
