----------------------------- MODULE GeneratedText -----------------------------
(***************************************************************************)
(* What becomes of a model's answers: the JSON in them is recovered and    *)
(* parsed into documents, the documents' Markdown is validated, and the    *)
(* critic's scores are turned into a verdict.                              *)
(*                                                                         *)
(* An answer is a sequence of tokens, and Markdown a sequence of lines, as *)
(* far as the code tells them apart.                                       *)
(***************************************************************************)
EXTENDS Integers, Sequences, FiniteSets, SequencesExt

CONSTANT Threshold  \* CRITIC_APPROVAL_THRESHOLD
ASSUME GeneratedTextAssumption == Threshold \in 0..100

-----------------------------------------------------------------------------
(* OutputParserService. *)

\* "body" is what stands between the braces of one complete JSON object.
Token == {"fence", "json", "word", "{", "body", "}"}
Object == <<"{", "body", "}">>

\* A text that is fenced as a whole, with anything in the fences.
Unfenced(text) ==
  LET tagged == Len(text) > 2 /\ text[2] = "json"
      inner == SubSeq(text, IF tagged THEN 3 ELSE 2, Len(text) - 1)
      fenced == Len(text) > 1 /\ Head(text) = "fence" /\ Last(text) = "fence"
  IN IF fenced /\ inner # <<>> THEN inner ELSE text

Occurrences(token, text) == {i \in 1..Len(text) : text[i] = token}

\* Mutant: the end of a substring is taken to be inclusive.
RecoverJsonShort(text) ==
  LET trimmed == Unfenced(text)
      opening == Occurrences("{", trimmed)
      closing == Occurrences("}", trimmed)
      bare == trimmed # <<>> /\ Head(trimmed) = "{" /\ Last(trimmed) = "}"
  IN IF ~bare /\ opening # {} /\ closing # {} /\ Max(closing) > Min(opening)
       THEN SubSeq(trimmed, Min(opening), Max(closing) - 1)
       ELSE trimmed

\* recoverJson: otherwise from the first brace to the last.
RecoverJson(text) ==
  LET trimmed == Unfenced(text)
      opening == Occurrences("{", trimmed)
      closing == Occurrences("}", trimmed)
      bare == trimmed # <<>> /\ Head(trimmed) = "{" /\ Last(trimmed) = "}"
  IN IF ~bare /\ opening # {} /\ closing # {} /\ Max(closing) > Min(opening)
       THEN SubSeq(trimmed, Min(opening), Max(closing))
       ELSE trimmed

Parses(text) == text # <<>> /\ RecoverJson(text) = Object

Line == {"marker", "fence", "heading", "title", "text", "blank"}
Trim(markdown) ==
  LET content == {i \in 1..Len(markdown) : markdown[i] # "blank"}
  IN IF content = {} THEN <<>> ELSE SubSeq(markdown, Min(content), Max(content))

\* parse: every field has to be there, and is trimmed.
ParsedDocument(type, path, markdown) == [type |-> type, path |-> path, markdown |-> Trim(markdown)]
Complete(markdown) == markdown # <<>>

\* parseBatchCriticReview: scores are clamped, items without one count 0, the last item
\* about a type wins.  Types that are not asked about are not looked up.
Clamp(score) == IF score < 0 THEN 0 ELSE IF score > 100 THEN 100 ELSE score
Unscored == -1000  \* no number
RawScore(item) == Clamp(IF item.score = Unscored THEN 0 ELSE item.score)
BatchScores(items) ==
  [type \in {items[i].type : i \in 1..Len(items)} |->
     RawScore(items[Max({i \in 1..Len(items) : items[i].type = type})])]

-----------------------------------------------------------------------------
(* MarkdownValidatorService. *)

Fences(markdown) == Occurrences("fence", markdown)
Outside(markdown, i) == Cardinality({j \in Fences(markdown) : j < i}) % 2 = 0
IsHeading(line) == line \in {"heading", "title"}
Headings(markdown) == {i \in 1..Len(markdown) : IsHeading(markdown[i]) /\ Outside(markdown, i)}
Duplicated(markdown) ==
  {i \in Headings(markdown) : \E j \in Headings(markdown) : j < i /\ markdown[j] = markdown[i]}
EmptySections(markdown) ==
  {i \in Headings(markdown) :
     LET next == {j \in i + 1..Len(markdown) : markdown[j] # "blank"}
     IN next = {} \/ IsHeading(markdown[Min(next)])}

Validate(markdown) ==
  IF Trim(markdown) = <<>> THEN [errors |-> 1, warnings |-> 0]
  ELSE [errors |-> (IF Headings(markdown) = {} THEN 1 ELSE 0)
                     + (Cardinality(Fences(markdown)) % 2),
        warnings |-> Cardinality(Duplicated(markdown)) + Cardinality(EmptySections(markdown))]

-----------------------------------------------------------------------------
(* ReviewEvaluatorService and DocumentReviewService. *)

Evaluate(score, validation) ==
  LET final == Clamp(score - 15 * validation.errors - 2 * validation.warnings)
  IN [score |-> final, approved |-> final >= Threshold /\ validation.errors = 0]

\* Mutant: a document the critic left out is judged by its form alone.
ReviewedLeniently(document, scores) ==
  Evaluate(IF document.type \in DOMAIN scores THEN scores[document.type] ELSE 100,
           Validate(document.markdown))

\* A document the critic left out is not approved.
Reviewed(document, scores) ==
  IF document.type \in DOMAIN scores
    THEN Evaluate(scores[document.type], Validate(document.markdown))
    ELSE [score |-> 0, approved |-> FALSE]

Aggregate(reviews) ==
  [score |-> IF reviews = <<>> THEN 0
             ELSE LET sum == FoldLeft(LAMBDA n, review : n + review.score, 0, reviews)
                  IN (2 * sum + Len(reviews)) \div (2 * Len(reviews)),
   passed |-> reviews # <<>> /\ \A i \in 1..Len(reviews) : reviews[i].approved]

\* A critic that did not answer, or not in JSON, reviews nothing.
ReviewDocuments(documents, scores) ==
  Aggregate([i \in 1..Len(documents) |-> Reviewed(documents[i], scores)])
=============================================================================
