------------------------ MODULE DocumentRoundsProofs ------------------------
(***************************************************************************)
(* What holds of the documents of a repository, for any documents, answers *)
(* and scores and any number of pushes: skips, a document's way to GitHub  *)
(* and back into the next prompt, the recovery of JSON, and the verdict;   *)
(* and, in the last sections, of the analyses of a repository of any size. *)
(***************************************************************************)
EXTENDS DocumentRounds, FiniteSetTheorems, TLAPS

-----------------------------------------------------------------------------
(* Positions in a text. *)

\* Of the positions in a text that are sought there is a first and a last one.
LEMMA FirstAndLast ==
  ASSUME NEW n \in Nat, NEW S \in SUBSET (1..n), S # {}
  PROVE  /\ Max(S) \in S /\ \A y \in S : y <= Max(S)
         /\ Min(S) \in S /\ \A y \in S : Min(S) <= y
<1> DEFINE Above(x) == {y \in 1..n : y > x}
           Below(x) == {y \in 1..n : y < x}
<1>1. IsFiniteSet(1..n)
  BY FS_Interval
<1>2. ASSUME NEW F \in SUBSET SUBSET (1..n), F # {}
      PROVE  \E A \in F : \A B \in F : ~(B \subseteq A /\ B # A)
  <2>1. IsWellFoundedOn(StrictSubsetOrdering(1..n), SUBSET (1..n))
    BY <1>1, FS_StrictSubsetOrderingWellFounded, FS_FiniteSubsetsOfFinite
  <2>2. PICK A \in F : \A B \in F : ~(<<B, A>> \in StrictSubsetOrdering(1..n))
    BY <1>2, <2>1, WFMin
  <2> QED
    BY <2>2 DEF StrictSubsetOrdering
<1>3. \E m \in S : \A y \in S : m >= y
  <2>1. PICK m \in S : \A y \in S : ~(Above(y) \subseteq Above(m) /\ Above(y) # Above(m))
    <3> DEFINE F == {Above(x) : x \in S}
    <3>1. F \in SUBSET SUBSET (1..n) /\ F # {}
      OBVIOUS
    <3>2. PICK A \in F : \A B \in F : ~(B \subseteq A /\ B # A)
      BY <1>2, <3>1
    <3>3. PICK m \in S : A = Above(m)
      OBVIOUS
    <3>4. \A y \in S : Above(y) \in F
      OBVIOUS
    <3> HIDE DEF F, Above
    <3> QED
      BY <3>2, <3>3, <3>4
  <2>2. ASSUME NEW y \in S, ~(m >= y) PROVE FALSE
    <3>1. m \in Int /\ y \in Int /\ y > m
      BY <2>2
    <3>2. Above(y) \subseteq Above(m) /\ y \in Above(m) /\ y \notin Above(y)
      BY <3>1
    <3> QED
      BY <2>1, <3>2
  <2> QED
    BY <2>2
<1>4. \E m \in S : \A y \in S : m <= y
  <2>1. PICK m \in S : \A y \in S : ~(Below(y) \subseteq Below(m) /\ Below(y) # Below(m))
    <3> DEFINE F == {Below(x) : x \in S}
    <3>1. F \in SUBSET SUBSET (1..n) /\ F # {}
      OBVIOUS
    <3>2. PICK A \in F : \A B \in F : ~(B \subseteq A /\ B # A)
      BY <1>2, <3>1
    <3>3. PICK m \in S : A = Below(m)
      OBVIOUS
    <3>4. \A y \in S : Below(y) \in F
      OBVIOUS
    <3> HIDE DEF F, Below
    <3> QED
      BY <3>2, <3>3, <3>4
  <2>2. ASSUME NEW y \in S, ~(m <= y) PROVE FALSE
    <3>1. m \in Int /\ y \in Int /\ y < m
      BY <2>2
    <3>2. Below(y) \subseteq Below(m) /\ y \in Below(m) /\ y \notin Below(y)
      BY <3>1
    <3> QED
      BY <2>1, <3>2
  <2> QED
    BY <2>2
<1>5. Max(S) \in S /\ \A y \in S : Max(S) >= y
  BY <1>3 DEF Max
<1>6. Min(S) \in S /\ \A y \in S : Min(S) <= y
  BY <1>4 DEF Min
<1> QED
  BY <1>5, <1>6

\* One position is the first and the last.
LEMMA OnlyOne ==
  ASSUME NEW i \in Int
  PROVE  Max({i}) = i /\ Min({i}) = i
BY DEF Max, Min

\* A part of a text.
LEMMA PartOf ==
  ASSUME NEW S, NEW s \in Seq(S), NEW a \in 1..Len(s), NEW b \in a..Len(s)
  PROVE  /\ SubSeq(s, a, b) \in Seq(S) /\ Len(SubSeq(s, a, b)) = b - a + 1
         /\ \A i \in 1..b - a + 1 : SubSeq(s, a, b)[i] = s[a + i - 1]
OBVIOUS

\* The ends of a text.
LEMMA Ends ==
  ASSUME NEW S, NEW s \in Seq(S), s # <<>>
  PROVE  /\ Len(s) \in Nat /\ 1 <= Len(s)
         /\ Head(s) = s[1] /\ Last(s) = s[Len(s)] /\ SubSeq(s, 1, Len(s)) = s
BY DEF Last

-----------------------------------------------------------------------------
(* Recovering JSON. *)

\* The only braces in a text are those of the object at i.
Alone(text, i) ==
  /\ 1 <= i /\ i + 2 <= Len(text)
  /\ text[i] = "{" /\ text[i + 1] = "body" /\ text[i + 2] = "}"
  /\ \A j \in 1..Len(text) : (text[j] = "{" => j = i) /\ (text[j] = "}" => j = i + 2)

\* One object in a text, and no brace but its own.
LEMMA AroundIsAlone ==
  ASSUME NEW text \in Seq(Token), Around(text)
  PROVE  \E i \in Nat : Alone(text, i)
<1>1. Len(text) \in Nat /\ IsFiniteSet(1..Len(text))
  BY FS_Interval
<1>2. \A token : IsFiniteSet(Occurrences(token, text))
  BY <1>1, FS_Subset DEF Occurrences
<1>3. PICK a : Occurrences("{", text) = {a}
  BY <1>2, FS_Singleton DEF Around
<1>4. PICK b : Occurrences("}", text) = {b}
  BY <1>2, FS_Singleton DEF Around
<1>5. PICK i \in 1..Len(text) - 2 : SubSeq(text, i, i + 2) = Object
  BY DEF Around
<1>6. text[i] = "{" /\ text[i + 1] = "body" /\ text[i + 2] = "}"
  <2>1. i \in 1..Len(text) /\ i + 2 \in i..Len(text) /\ i + 2 - i + 1 = 3
    BY <1>1
  <2>2. \A j \in 1..3 : SubSeq(text, i, i + 2)[j] = text[i + j - 1]
    BY <2>1, PartOf
  <2> DEFINE part == SubSeq(text, i, i + 2)
  <2>3. part[1] = text[i + 1 - 1] /\ part[2] = text[i + 2 - 1] /\ part[3] = text[i + 3 - 1]
    BY <2>2
  <2>4. i + 1 - 1 = i /\ i + 2 - 1 = i + 1 /\ i + 3 - 1 = i + 2
    OBVIOUS
  <2>5. Object[1] = "{" /\ Object[2] = "body" /\ Object[3] = "}"
    BY DEF Object
  <2>6. part = Object
    BY <1>5
  <2> HIDE DEF part, Object
  <2> QED
    BY <2>3, <2>4, <2>5, <2>6
<1>7. i \in Nat /\ 1 <= i /\ i + 2 <= Len(text) /\ i \in 1..Len(text) /\ i + 2 \in 1..Len(text)
  BY <1>1
<1>8. \A j \in 1..Len(text) : (text[j] = "{" => j = a) /\ (text[j] = "}" => j = b)
  BY <1>3, <1>4 DEF Occurrences
<1>9. i = a /\ i + 2 = b
  BY <1>6, <1>7, <1>8
<1>10. \A j \in 1..Len(text) : (text[j] = "{" => j = i) /\ (text[j] = "}" => j = i + 2)
  BY <1>8, <1>9
<1>11. Alone(text, i)
  BY <1>6, <1>7, <1>10 DEF Alone
<1> QED
  BY <1>7, <1>11

\* Taking fences and a language tag off leaves the object where it is.
LEMMA UnfencedIsAlone ==
  ASSUME NEW text \in Seq(Token), NEW i \in Nat, Alone(text, i)
  PROVE  Unfenced(text) \in Seq(Token) /\ \E j \in Nat : Alone(Unfenced(text), j)
<1>1. Len(text) \in Nat /\ 1 <= i /\ i + 2 <= Len(text) /\ i \in 1..Len(text) /\ i + 2 \in 1..Len(text)
  <2>1. 1 <= i /\ i + 2 <= Len(text)
    BY DEF Alone
  <2>2. Len(text) \in Nat
    OBVIOUS
  <2> QED
    BY <2>1, <2>2
<1>2. \A j \in 1..Len(text) : (text[j] = "{" => j = i) /\ (text[j] = "}" => j = i + 2)
  BY DEF Alone
<1>3. text[i] = "{" /\ text[i + 1] = "body" /\ text[i + 2] = "}"
  BY DEF Alone
<1> DEFINE tagged == Len(text) > 2 /\ text[2] = "json"
           first == IF tagged THEN 3 ELSE 2
           inner == SubSeq(text, first, Len(text) - 1)
           fenced == Len(text) > 1 /\ Head(text) = "fence" /\ Last(text) = "fence"
<1>4. Unfenced(text) = IF fenced /\ inner # <<>> THEN inner ELSE text
  BY DEF Unfenced
<1>5. CASE ~(fenced /\ inner # <<>>)
  BY <1>4, <1>5
<1>6. CASE fenced /\ inner # <<>>
  <2>1. text[1] = "fence" /\ text[Len(text)] = "fence"
    BY <1>1, <1>6 DEF Last
  <2>2. i # 1 /\ i + 2 # Len(text) /\ (tagged => i # 2)
    BY <1>3, <2>1
  <2>3. first \in 2..3 /\ i >= first /\ i + 2 <= Len(text) - 1
    BY <1>1, <2>2
  <2> HIDE DEF first
  <2>4. first \in 1..Len(text) /\ Len(text) - 1 \in first..Len(text)
    BY <1>1, <2>3
  <2>5. /\ inner \in Seq(Token) /\ Len(inner) = Len(text) - first
        /\ \A j \in 1..Len(text) - first : inner[j] = text[first + j - 1]
    <3>1. Len(text) - 1 - first + 1 = Len(text) - first
      BY <1>1, <2>3
    <3> QED
      BY <1>1, <2>4, <3>1, PartOf
  <2> HIDE DEF inner
  <2> DEFINE k == i - first + 1
  <2>6. /\ k \in Nat /\ 1 <= k /\ k + 2 <= Len(inner)
        /\ k \in 1..Len(text) - first /\ k + 1 \in 1..Len(text) - first /\ k + 2 \in 1..Len(text) - first
        /\ first + k - 1 = i /\ first + (k + 1) - 1 = i + 1 /\ first + (k + 2) - 1 = i + 2
    BY <1>1, <2>3, <2>5
  <2>7. inner[k] = "{" /\ inner[k + 1] = "body" /\ inner[k + 2] = "}"
    <3> HIDE DEF k
    <3> QED
      BY <1>3, <2>5, <2>6
  <2>8. ASSUME NEW j \in 1..Len(inner)
        PROVE  (inner[j] = "{" => j = k) /\ (inner[j] = "}" => j = k + 2)
    <3>1. first + j - 1 \in 1..Len(text) /\ inner[j] = text[first + j - 1]
      <4>1. j \in 1..Len(text) - first
        BY <2>5
      <4>2. inner[j] = text[first + j - 1]
        BY <2>5, <4>1
      <4> QED
        BY <1>1, <2>3, <4>1, <4>2
    <3>2. (inner[j] = "{" => first + j - 1 = i) /\ (inner[j] = "}" => first + j - 1 = i + 2)
      BY <1>2, <3>1
    <3>3. (first + j - 1 = i => j = k) /\ (first + j - 1 = i + 2 => j = k + 2)
      BY <1>1, <2>3, <2>5
    <3> QED
      BY <3>2, <3>3
  <2> HIDE DEF k
  <2>9. Alone(inner, k)
    BY <2>6, <2>7, <2>8 DEF Alone
  <2>10. Unfenced(text) = inner
    BY <1>4, <1>6
  <2> QED
    BY <2>5, <2>6, <2>9, <2>10
<1> QED
  BY <1>5, <1>6

\* From the first brace to the last there is the object.
LEMMA ObjectIsFound ==
  ASSUME NEW text \in Seq(Token), Around(text)
  PROVE  Parses(text)
<1> DEFINE trimmed == Unfenced(text)
           opening == Occurrences("{", trimmed)
           closing == Occurrences("}", trimmed)
           bare == trimmed # <<>> /\ Head(trimmed) = "{" /\ Last(trimmed) = "}"
<1>1. PICK i \in Nat : Alone(text, i)
  BY AroundIsAlone
<1>2. text # <<>>
  <2>1. 1 <= i /\ i + 2 <= Len(text)
    BY <1>1 DEF Alone
  <2> QED
    BY <2>1
<1>3. RecoverJson(text) = IF ~bare /\ opening # {} /\ closing # {} /\ Max(closing) > Min(opening)
                          THEN SubSeq(trimmed, Min(opening), Max(closing)) ELSE trimmed
  BY DEF RecoverJson
<1>4. trimmed \in Seq(Token) /\ Len(trimmed) \in Nat
  BY <1>1, UnfencedIsAlone
<1>5. PICK k \in Nat : Alone(trimmed, k)
  BY <1>1, UnfencedIsAlone
<1> HIDE DEF trimmed
<1>6. 1 <= k /\ k + 2 <= Len(trimmed) /\ k \in 1..Len(trimmed) /\ k + 2 \in 1..Len(trimmed)
  <2>1. 1 <= k /\ k + 2 <= Len(trimmed)
    BY <1>5 DEF Alone
  <2> QED
    BY <1>4, <2>1
<1>7. trimmed[k] = "{" /\ trimmed[k + 1] = "body" /\ trimmed[k + 2] = "}"
  BY <1>5 DEF Alone
<1>8. \A j \in 1..Len(trimmed) : (trimmed[j] = "{" => j = k) /\ (trimmed[j] = "}" => j = k + 2)
  BY <1>5 DEF Alone
<1>9. opening = {k} /\ closing = {k + 2}
  BY <1>6, <1>7, <1>8 DEF Occurrences
<1> HIDE DEF opening, closing
<1>10. Min(opening) = k /\ Max(closing) = k + 2
  <2>1. k \in Int /\ k + 2 \in Int
    OBVIOUS
  <2>2. Min({k}) = k /\ Max({k + 2}) = k + 2
    BY <2>1, OnlyOne
  <2> QED
    BY <1>9, <2>2
<1>11. SubSeq(trimmed, k, k + 2) = Object
  <2> DEFINE part == SubSeq(trimmed, k, k + 2)
  <2>1. k \in 1..Len(trimmed) /\ k + 2 \in k..Len(trimmed) /\ k + 2 - k + 1 = 3
    BY <1>4, <1>6
  <2>2. part \in Seq(Token) /\ Len(part) = 3 /\ \A j \in 1..3 : part[j] = trimmed[k + j - 1]
    BY <1>4, <2>1, PartOf
  <2>3. k + 1 - 1 = k /\ k + 2 - 1 = k + 1 /\ k + 3 - 1 = k + 2
    OBVIOUS
  <2> HIDE DEF part
  <2>4. part[1] = "{" /\ part[2] = "body" /\ part[3] = "}"
    <3>1. part[1] = trimmed[k + 1 - 1] /\ part[2] = trimmed[k + 2 - 1] /\ part[3] = trimmed[k + 3 - 1]
      <4>1. 1 \in 1..3 /\ 2 \in 1..3 /\ 3 \in 1..3
        OBVIOUS
      <4> QED
        BY <2>2, <4>1
    <3> QED
      BY <1>7, <2>3, <3>1
  <2>5. part = <<part[1], part[2], part[3]>>
    BY <2>2
  <2>7. part = Object
    BY <2>4, <2>5 DEF Object
  <2> QED
    BY <2>7 DEF part
<1>12. CASE bare
  <2>1. trimmed[1] = "{" /\ trimmed[Len(trimmed)] = "}"
    <3>1. trimmed # <<>> /\ Head(trimmed) = "{" /\ Last(trimmed) = "}"
      BY <1>12
    <3> QED
      BY <1>4, <3>1, Ends
  <2>2. k = 1 /\ k + 2 = Len(trimmed)
    <3> HIDE DEF bare
    <3>1. 1 \in 1..Len(trimmed) /\ Len(trimmed) \in 1..Len(trimmed)
      BY <1>4, <1>6
    <3> QED
      BY <1>8, <2>1, <3>1
  <2>3. SubSeq(trimmed, 1, Len(trimmed)) = trimmed
    BY <1>4
  <2>4. RecoverJson(text) = Object
    BY <1>3, <1>11, <1>12, <2>2, <2>3
  <2> QED
    BY <1>2, <2>4 DEF Parses
<1>13. CASE ~bare
  <2>1. k + 2 > k /\ opening # {} /\ closing # {}
    BY <1>9
  <2>2. RecoverJson(text) = Object
    BY <1>3, <1>10, <1>11, <1>13, <2>1
  <2> QED
    BY <1>2, <2>2 DEF Parses
<1> QED
  BY <1>12, <1>13

-----------------------------------------------------------------------------
(* Trimming. *)

\* What trimming leaves begins and ends with something, is a part of what there was,
\* and is not trimmed any further.
LEMMA TrimmedOnce ==
  ASSUME NEW m \in Seq(Line)
  PROVE  /\ Trim(m) \in Seq(Line) /\ Trim(Trim(m)) = Trim(m)
         /\ \A i \in 1..Len(Trim(m)) : \E j \in 1..Len(m) : Trim(m)[i] = m[j]
<1> DEFINE content == {i \in 1..Len(m) : m[i] # "blank"}
           t == SubSeq(m, Min(content), Max(content))
           kept == {i \in 1..Len(t) : t[i] # "blank"}
<1>1. Trim(m) = IF content = {} THEN <<>> ELSE t
  BY DEF Trim
<1>2. Trim(<<>>) = <<>>
  <2>1. {i \in 1..Len(<<>>) : <<>>[i] # "blank"} = {}
    OBVIOUS
  <2> QED
    BY <2>1 DEF Trim
<1>3. CASE content = {}
  BY <1>1, <1>2, <1>3
<1>4. CASE content # {}
  <2> DEFINE a == Min(content)
             b == Max(content)
  <2>1. Len(m) \in Nat
    OBVIOUS
  <2>2. content \in SUBSET (1..Len(m))
    OBVIOUS
  <2>3. a \in content /\ b \in content /\ a <= b
    <3> HIDE DEF content
    <3> QED
      BY <1>4, <2>1, <2>2, FirstAndLast
  <2>4. a \in 1..Len(m) /\ b \in a..Len(m) /\ m[a] # "blank" /\ m[b] # "blank"
    <3>1. a \in 1..Len(m) /\ b \in 1..Len(m) /\ m[a] # "blank" /\ m[b] # "blank"
      BY <2>3
    <3> HIDE DEF a, b
    <3> QED
      BY <2>1, <2>3, <3>1
  <2>5. t = SubSeq(m, a, b)
    OBVIOUS
  <2> HIDE DEF t, a, b, content
  <2>6. /\ t \in Seq(Line) /\ Len(t) = b - a + 1
        /\ \A i \in 1..b - a + 1 : t[i] = m[a + i - 1]
    BY <2>4, <2>5, PartOf
  <2>7. Len(t) \in Nat /\ 1 \in 1..Len(t) /\ Len(t) \in 1..Len(t)
    BY <2>1, <2>4, <2>6
  <2>8. t[1] # "blank" /\ t[Len(t)] # "blank"
    <3>1. a + 1 - 1 = a /\ a + Len(t) - 1 = b
      BY <2>1, <2>4, <2>6
    <3>2. t[1] = m[a + 1 - 1] /\ t[Len(t)] = m[a + Len(t) - 1]
      BY <2>6, <2>7
    <3> QED
      BY <2>4, <3>1, <3>2
  <2>9. Trim(t) = t
    <3>1. kept \in SUBSET (1..Len(t)) /\ kept # {} /\ 1 \in kept /\ Len(t) \in kept
      BY <2>7, <2>8
    <3>2. Trim(t) = SubSeq(t, Min(kept), Max(kept))
      BY <3>1 DEF Trim
    <3>3. Min(kept) \in kept /\ Max(kept) \in kept /\ Min(kept) <= 1 /\ Len(t) <= Max(kept)
      <4> HIDE DEF kept
      <4> QED
        BY <2>7, <3>1, FirstAndLast
    <3>4. Min(kept) \in 1..Len(t) /\ Max(kept) \in 1..Len(t)
      BY <3>3
    <3> HIDE DEF kept
    <3>5. Min(kept) = 1 /\ Max(kept) = Len(t)
      BY <2>7, <3>3, <3>4
    <3>6. SubSeq(t, 1, Len(t)) = t
      <4>1. t # <<>>
        BY <2>7
      <4> QED
        BY <2>6, <4>1, Ends
    <3> QED
      BY <3>2, <3>5, <3>6
  <2>10. ASSUME NEW i \in 1..Len(t) PROVE \E j \in 1..Len(m) : t[i] = m[j]
    <3>1. a + i - 1 \in 1..Len(m)
      BY <2>1, <2>4, <2>6
    <3>2. t[i] = m[a + i - 1]
      BY <2>6
    <3> QED
      BY <3>1, <3>2
  <2> QED
    BY <1>1, <1>4, <2>6, <2>9, <2>10
<1> QED
  BY <1>3, <1>4

\* Putting the marker on top and taking it off again.
LEMMA MarkerComesOff ==
  ASSUME NEW m \in Seq(Line)
  PROVE  /\ Marked(m) \in Seq(Line) /\ Marked(m) # Absent /\ IsGenerated(Marked(m))
         /\ Tail(Marked(m)) = m
<1>1. "marker" \in Line /\ "absent" \notin Line
  BY DEF Line
<1>2. <<"marker">> \in Seq(Line)
  BY <1>1
<1>3. Marked(m) \in Seq(Line) /\ Len(Marked(m)) = 1 + Len(m) /\ Marked(m)[1] = "marker"
      /\ \A i \in 1..Len(m) : Marked(m)[i + 1] = m[i]
  BY <1>2 DEF Marked
<1> HIDE DEF Marked
<1>4. Marked(m) # <<>> /\ Len(m) \in Nat
  BY <1>3
<1>5. Marked(m) # Absent
  BY <1>3 DEF Absent
<1>6. IsGenerated(Marked(m))
  BY <1>3, <1>4, Ends DEF IsGenerated
<1>7. Tail(Marked(m)) = m
  <2>1. Tail(Marked(m)) \in Seq(Line) /\ Len(Tail(Marked(m))) = Len(m)
        /\ \A i \in 1..Len(m) : Tail(Marked(m))[i] = Marked(m)[i + 1]
    BY <1>3, <1>4
  <2> DEFINE r == Tail(Marked(m))
  <2> HIDE DEF r
  <2>2. r \in Seq(Line) /\ Len(r) = Len(m) /\ \A i \in 1..Len(m) : r[i] = m[i]
    BY <1>3, <2>1 DEF r
  <2>3. r = m
    BY <2>2
  <2> QED
    BY <2>3 DEF r
<1> QED
  BY <1>3, <1>5, <1>6, <1>7

-----------------------------------------------------------------------------
(* The invariant of the rounds. *)

Document == [type : STRING, path : Path, markdown : Seq(Line)]
Answer == [text : Seq(Token), path : Path \cup {"none"}, markdown : Seq(Line)]
Stored == {Absent} \cup Seq(Line)

\* A run's record has its fields.
RunHasFields ==
  run = [pc |-> run.pc, previous |-> run.previous, authored |-> run.authored, read |-> run.read,
         failing |-> run.failing, answer |-> run.answer, documents |-> run.documents,
         items |-> run.items, review |-> run.review]

\* What a run knows: earlier documents, the model's answer, and its own documents, which
\* are trimmed.
RunIsTyped ==
  /\ RunHasFields
  /\ run.previous \subseteq [path : Path, text : Seq(Line)]
  /\ run.answer \in Answer
  /\ run.pc = "answered" => run.answer.path \in Path /\ Len(run.documents) < Len(Type)
  /\ run.documents \in Seq(Document)
  /\ \A i \in 1..Len(run.documents) : Trim(run.documents[i].markdown) = run.documents[i].markdown

\* A document that is still DocPulse's own is on the branch below its marker, and trimmed.
OwnIsMarked ==
  /\ files \in [Path -> Stored] /\ own \in [Path -> Stored]
  /\ \A p \in Path : own[p] # Absent => files[p] = Marked(own[p]) /\ Trim(own[p]) = own[p]

\* The locator found every own document it looks for, without the marker.
Returned ==
  run.pc = "located" => \A p \in Path : own[p] # Absent /\ Inventoried(p) => Comes(p)

RoundInv == RunIsTyped /\ OwnIsMarked /\ Returned /\ SkipsAreHarmless

\* A run that starts anew knows nothing.
LEMMA FreshIsTyped ==
  /\ Fresh = [pc |-> "idle", previous |-> {}, authored |-> {}, read |-> <<>>, failing |-> {},
              answer |-> NoAnswer, documents |-> <<>>, items |-> <<>>, review |-> NoReview]
  /\ [Fresh EXCEPT !.pc = "pushed"] =
       [pc |-> "pushed", previous |-> {}, authored |-> {}, read |-> <<>>, failing |-> {},
        answer |-> NoAnswer, documents |-> <<>>, items |-> <<>>, review |-> NoReview]
  /\ NoAnswer \in Answer
<1>1. NoAnswer \in Answer
  <2>1. <<>> \in Seq(Token) /\ <<>> \in Seq(Line)
    OBVIOUS
  <2> QED
    BY <2>1 DEF NoAnswer, Answer
<1>2. Fresh = [pc |-> "idle", previous |-> {}, authored |-> {}, read |-> <<>>, failing |-> {},
               answer |-> NoAnswer, documents |-> <<>>, items |-> <<>>, review |-> NoReview]
  BY DEF Fresh
<1>3. [Fresh EXCEPT !.pc = "pushed"] =
        [pc |-> "pushed", previous |-> {}, authored |-> {}, read |-> <<>>, failing |-> {},
         answer |-> NoAnswer, documents |-> <<>>, items |-> <<>>, review |-> NoReview]
  <2> DEFINE none == {}
             nil == <<>>
  <2>1. Fresh = [pc |-> "idle", previous |-> none, authored |-> none, read |-> nil, failing |-> none,
                 answer |-> NoAnswer, documents |-> nil, items |-> nil, review |-> NoReview]
    BY <1>2
  <2> HIDE DEF none, nil
  <2>2. [Fresh EXCEPT !.pc = "pushed"] =
          [pc |-> "pushed", previous |-> none, authored |-> none, read |-> nil, failing |-> none,
           answer |-> NoAnswer, documents |-> nil, items |-> nil, review |-> NoReview]
    BY <2>1
  <2> QED
    BY <2>2 DEF none, nil
<1> QED
  BY <1>1, <1>2, <1>3

\* A fresh run disturbs nothing.
LEMMA FreshRound ==
  ASSUME OwnIsMarked', run' = Fresh \/ run' = [Fresh EXCEPT !.pc = "pushed"]
  PROVE  RoundInv'
<1>1. /\ RunHasFields' /\ run'.previous = {} /\ run'.answer = NoAnswer /\ run'.documents = <<>>
      /\ run'.pc \in {"idle", "pushed"}
  BY FreshIsTyped DEF RunHasFields
<1>2. RunIsTyped'
  BY <1>1, FreshIsTyped DEF RunIsTyped
<1> QED
  BY <1>1, <1>2 DEF RoundInv, Returned, SkipsAreHarmless

\* At first there are only a developer's documents.
LEMMA RoundInit == Init => RoundInv
<1> SUFFICES ASSUME Init PROVE RoundInv
  OBVIOUS
<1>1. OwnIsMarked
  BY DocumentRoundsAssumption DEF Init, OwnIsMarked, Stored
<1>2. /\ RunHasFields /\ run.previous = {} /\ run.answer = NoAnswer /\ run.documents = <<>>
      /\ run.pc = "idle"
  BY FreshIsTyped DEF Init, RunHasFields
<1>3. RunIsTyped
  BY <1>2, FreshIsTyped DEF RunIsTyped
<1> QED
  BY <1>1, <1>2, <1>3 DEF RoundInv, Returned, SkipsAreHarmless

\* A push, whoever makes it, starts a run that knows nothing.
LEMMA PushStep ==
  ASSUME RoundInv, PushCode \/ Close PROVE RoundInv'
<1>1. OwnIsMarked'
  BY DEF RoundInv, OwnIsMarked, PushCode, Close
<1> QED
  BY <1>1, FreshRound DEF PushCode, Close

\* What a developer touched is nobody's own any more.
LEMMA EditStep ==
  ASSUME RoundInv, NEW p \in Path, EditDocument(p) PROVE RoundInv'
<1>1. PICK new \in {Absent} \cup Markdowns \cup {Marked(m) : m \in Markdowns} :
        files' = [files EXCEPT ![p] = new]
  BY DEF EditDocument
<1>2. new \in Stored
  <2>1. \A m \in Markdowns : Marked(m) \in Seq(Line)
    BY MarkerComesOff, DocumentRoundsAssumption
  <2> QED
    BY <2>1, DocumentRoundsAssumption DEF Stored
<1>3. own' = [own EXCEPT ![p] = Absent]
  BY DEF EditDocument
<1>4. files' \in [Path -> Stored] /\ own' \in [Path -> Stored]
  BY <1>1, <1>2, <1>3 DEF RoundInv, OwnIsMarked, Stored
<1>5. \A q \in Path : own'[q] # Absent => files'[q] = Marked(own'[q]) /\ Trim(own'[q]) = own'[q]
  BY <1>1, <1>3 DEF RoundInv, OwnIsMarked
<1>6. OwnIsMarked'
  BY <1>4, <1>5 DEF OwnIsMarked
<1> QED
  BY <1>6, FreshRound DEF EditDocument

\* A run is skipped for its last commit, and nothing changes until the next push.
LEMMA EnterStep ==
  ASSUME RoundInv, EarlySkip \/ EnterFresh PROVE RoundInv'
<1>1. UNCHANGED <<files, own, push>> /\ \E pc \in {"skipped", "entered"} : run' = [run EXCEPT !.pc = pc]
  BY DEF EarlySkip, EnterFresh, Goto
<1>2. PICK pc \in {"skipped", "entered"} : run' = [run EXCEPT !.pc = pc]
  BY <1>1
<1>3. /\ run' = [pc |-> pc, previous |-> run.previous, authored |-> run.authored, read |-> run.read,
                 failing |-> run.failing, answer |-> run.answer, documents |-> run.documents,
                 items |-> run.items, review |-> run.review]
  BY <1>2 DEF RoundInv, RunIsTyped, RunHasFields
<1>4. RunIsTyped'
  BY <1>3 DEF RoundInv, RunIsTyped, RunHasFields
<1>5. OwnIsMarked' /\ Returned'
  BY <1>1, <1>3 DEF RoundInv, OwnIsMarked, Returned
<1>6. SkipsAreHarmless'
  <2> SUFFICES ASSUME pc = "skipped", push.active, ~push.asked, push.earlier = {}
               PROVE  push.last # {} /\ "code" \notin push.last
    BY <1>1, <1>3 DEF SkipsAreHarmless
  <2>1. EarlySkip
    BY <1>3 DEF EnterFresh, Goto, RoundInv, RunIsTyped, RunHasFields
  <2>2. PICK context \in SkipContexts :
          /\ context.modified \in {push.last, {}} /\ context.active = push.active /\ ~context.asked
          /\ DisabledRepository(context) \/ CommitMessageSkip(context)
               \/ DocumentationOnly(context) \/ DependencyOnly(context)
    <3>1. PICK context \in SkipContexts :
            run' = [run EXCEPT !.pc = IF \/ DisabledRepository(context) \/ CommitMessageSkip(context)
                                         \/ DocumentationOnly(context) \/ DependencyOnly(context)
                                      THEN "skipped" ELSE "entered"]
      BY <2>1 DEF EarlySkip, Goto
    <3>2. /\ context.modified \in {push.last, {}} /\ context.active = push.active
          /\ context.asked \in {push.asked, FALSE}
      <4>1. CASE context = [active |-> push.active, modified |-> push.last, asked |-> push.asked]
        BY <4>1
      <4>2. CASE context = [active |-> push.active, modified |-> push.last, asked |-> FALSE]
        BY <4>2
      <4>3. CASE context = [active |-> push.active, modified |-> {}, asked |-> FALSE]
        BY <4>3
      <4> QED
        BY <4>1, <4>2, <4>3 DEF SkipContexts
    <3>3. DisabledRepository(context) \/ CommitMessageSkip(context)
            \/ DocumentationOnly(context) \/ DependencyOnly(context)
      <4> DEFINE skip == \/ DisabledRepository(context) \/ CommitMessageSkip(context)
                         \/ DocumentationOnly(context) \/ DependencyOnly(context)
      <4>1. run' = [run EXCEPT !.pc = IF skip THEN "skipped" ELSE "entered"]
        BY <3>1
      <4> HIDE DEF skip
      <4>2. skip
        BY <1>3, <4>1 DEF RoundInv, RunIsTyped, RunHasFields
      <4> QED
        BY <4>2 DEF skip
    <3> QED
      BY <3>2, <3>3
  <2>3. DocumentationOnly(context) \/ DependencyOnly(context)
    BY <2>2 DEF DisabledRepository, CommitMessageSkip
  <2> QED
    BY <2>2, <2>3 DEF DocumentationOnly, DependencyOnly, IsDoc, IsLock
<1> QED
  BY <1>4, <1>5, <1>6 DEF RoundInv

\* The locator takes the marker off what it finds below one, and trims the rest.
LEMMA LocateStep ==
  ASSUME RoundInv, Locate PROVE RoundInv'
<1> DEFINE found == {p \in Path : Inventoried(p) /\ files[p] # Absent}
           generated == {p \in found : IsGenerated(files[p])}
           previous == {[path |-> p, text |-> Content(files[p])] : p \in generated}
<1>1. run' = [run EXCEPT !.pc = "located", !.previous = previous, !.authored = found \ generated]
      /\ UNCHANGED <<files, own>>
  BY DEF Locate
<1>2. previous \subseteq [path : Path, text : Seq(Line)]
  <2> SUFFICES ASSUME NEW p \in generated PROVE Content(files[p]) \in Seq(Line)
    OBVIOUS
  <2>1. files[p] \in Seq(Line) /\ files[p] # <<>>
    BY DEF RoundInv, OwnIsMarked, Stored, IsGenerated
  <2>2. Tail(files[p]) \in Seq(Line)
    BY <2>1
  <2> QED
    BY <2>2, TrimmedOnce DEF Content
<1>3. ASSUME NEW p \in Path, own[p] # Absent, Inventoried(p)
      PROVE  [path |-> p, text |-> own[p]] \in previous /\ p \notin found \ generated
  <2>1. own[p] \in Seq(Line) /\ files[p] = Marked(own[p]) /\ Trim(own[p]) = own[p]
    BY <1>3 DEF RoundInv, OwnIsMarked, Stored
  <2>2. files[p] # Absent /\ IsGenerated(files[p]) /\ Content(files[p]) = own[p]
    BY <2>1, MarkerComesOff DEF Content
  <2>3. p \in generated
    BY <1>3, <2>2
  <2> QED
    BY <2>2, <2>3
<1> HIDE DEF found, generated, previous
<1>4. run' = [pc |-> "located", previous |-> previous, authored |-> found \ generated, read |-> run.read,
              failing |-> run.failing, answer |-> run.answer, documents |-> run.documents,
              items |-> run.items, review |-> run.review]
  BY <1>1 DEF RoundInv, RunIsTyped, RunHasFields
<1>5. RunIsTyped'
  BY <1>2, <1>4 DEF RoundInv, RunIsTyped, RunHasFields
<1>6. OwnIsMarked'
  BY <1>1 DEF RoundInv, OwnIsMarked
<1>7. Returned'
  BY <1>1, <1>3, <1>4 DEF Returned, Comes
<1>8. SkipsAreHarmless'
  BY <1>4 DEF SkipsAreHarmless
<1> QED
  BY <1>5, <1>6, <1>7, <1>8 DEF RoundInv

\* A step that only moves a run on, and may forget what it asked or was scored.
LEMMA MoveStep ==
  ASSUME RoundInv, UNCHANGED <<files, own>>,
         NEW pc \in PC \ {"answered", "located", "skipped"},
         NEW read, NEW failing, NEW documents \in {run.documents, <<>>}, NEW items, NEW review,
         run' = [pc |-> pc, previous |-> run.previous, authored |-> run.authored, read |-> read,
                 failing |-> failing, answer |-> run.answer, documents |-> documents,
                 items |-> items, review |-> review]
  PROVE  RoundInv'
<1>1. RunHasFields' /\ run'.pc = pc /\ run'.previous = run.previous /\ run'.answer = run.answer
      /\ run'.documents = documents
  BY DEF RunHasFields
<1>2. /\ documents \in Seq(Document)
      /\ \A i \in 1..Len(documents) : Trim(documents[i].markdown) = documents[i].markdown
  <2>1. CASE documents = run.documents
    BY <2>1 DEF RoundInv, RunIsTyped
  <2>2. CASE documents = <<>>
    BY <2>2
  <2> QED
    BY <2>1, <2>2
<1>3. RunIsTyped'
  BY <1>1, <1>2 DEF RoundInv, RunIsTyped
<1>4. OwnIsMarked'
  BY DEF RoundInv, OwnIsMarked
<1>5. Returned' /\ SkipsAreHarmless'
  BY <1>1 DEF Returned, SkipsAreHarmless
<1> QED
  BY <1>3, <1>4, <1>5 DEF RoundInv

\* Analysis, critic and reviewer leave the documents alone.
LEMMA JudgeStep ==
  ASSUME RoundInv, Analyze \/ Criticize \/ Approve \/ Reject PROVE RoundInv'
<1> USE DEF RoundInv, RunIsTyped, RunHasFields
<1>1. CASE Analyze
  <2>1. PICK read \in Repositories, failing \in SUBSET Analyzer :
          run' = [run EXCEPT !.pc = "asking", !.read = read, !.failing = failing]
    BY <1>1 DEF Analyze
  <2>2. run' = [pc |-> "asking", previous |-> run.previous, authored |-> run.authored, read |-> read,
                failing |-> failing, answer |-> run.answer, documents |-> run.documents,
                items |-> run.items, review |-> run.review]
    BY <2>1
  <2> QED
    BY <1>1, <2>2, MoveStep DEF Analyze, PC
<1>2. CASE Criticize
  <2>1. PICK items \in CriticItems :
          run' = [run EXCEPT !.pc = "reviewed", !.items = items,
                             !.review = ReviewDocuments(run.documents, BatchScores(items))]
    BY <1>2 DEF Criticize
  <2> DEFINE review == ReviewDocuments(run.documents, BatchScores(items))
  <2> HIDE DEF review
  <2>2. run' = [pc |-> "reviewed", previous |-> run.previous, authored |-> run.authored, read |-> run.read,
                failing |-> run.failing, answer |-> run.answer, documents |-> run.documents,
                items |-> items, review |-> review]
    BY <2>1 DEF review
  <2> QED
    BY <1>2, <2>2, MoveStep DEF Criticize, PC
<1>3. CASE Approve
  <2> DEFINE items == <<>>
  <2>1. run' = [run EXCEPT !.pc = "approved", !.items = items, !.review = NoReview]
    BY <1>3 DEF Approve
  <2> HIDE DEF items
  <2>2. run' = [pc |-> "approved", previous |-> run.previous, authored |-> run.authored, read |-> run.read,
                failing |-> run.failing, answer |-> run.answer, documents |-> run.documents,
                items |-> items, review |-> NoReview]
    BY <2>1
  <2> QED
    BY <1>3, <2>2, MoveStep DEF Approve, PC
<1>4. CASE Reject
  <2> DEFINE nil == <<>>
  <2>1. run' = [run EXCEPT !.pc = "asking", !.documents = nil, !.items = nil, !.review = NoReview]
    BY <1>4 DEF Reject
  <2>2. nil \in {run.documents, <<>>}
    OBVIOUS
  <2> HIDE DEF nil
  <2>3. run' = [pc |-> "asking", previous |-> run.previous, authored |-> run.authored, read |-> run.read,
                failing |-> run.failing, answer |-> run.answer, documents |-> nil,
                items |-> nil, review |-> NoReview]
    BY <2>1
  <2> QED
    BY <1>4, <2>2, <2>3, MoveStep DEF Reject, PC
<1> QED
  BY <1>1, <1>2, <1>3, <1>4

\* The model answers with a document of its own or an earlier one.
LEMMA AskStep ==
  ASSUME RoundInv, Ask PROVE RoundInv'
<1>1. PICK text \in Texts, path \in Path, markdown \in Drafts \cup {d.text : d \in run.previous} :
        run' = [run EXCEPT !.pc = "answered", !.read = <<>>, !.failing = {},
                           !.answer = [text |-> text, path |-> path, markdown |-> markdown]]
  BY DEF Ask
<1> DEFINE nil == <<>>
           none == {}
           answer == [text |-> text, path |-> path, markdown |-> markdown]
<1>2. answer \in Answer /\ answer.path \in Path
  <2>1. text \in Seq(Token) /\ markdown \in Seq(Line)
    BY DocumentRoundsAssumption DEF RoundInv, RunIsTyped
  <2> QED
    BY <2>1 DEF Answer
<1>3. run' = [run EXCEPT !.pc = "answered", !.read = nil, !.failing = none, !.answer = answer]
  BY <1>1
<1> HIDE DEF nil, none, answer
<1>4. run' = [pc |-> "answered", previous |-> run.previous, authored |-> run.authored, read |-> nil,
              failing |-> none, answer |-> answer, documents |-> run.documents,
              items |-> run.items, review |-> run.review]
  BY <1>3 DEF RoundInv, RunIsTyped, RunHasFields
<1>5. Len(run.documents) < Len(Type) /\ UNCHANGED <<files, own>>
  BY DEF Ask
<1>6. RunIsTyped'
  BY <1>2, <1>4, <1>5 DEF RoundInv, RunIsTyped, RunHasFields
<1>7. OwnIsMarked'
  BY <1>5 DEF RoundInv, OwnIsMarked
<1>8. Returned' /\ SkipsAreHarmless'
  BY <1>4 DEF Returned, SkipsAreHarmless
<1> QED
  BY <1>6, <1>7, <1>8 DEF RoundInv

\* A parsed document is trimmed.
LEMMA ParseStep ==
  ASSUME RoundInv, Parse PROVE RoundInv'
<1> DEFINE type == Type[Len(run.documents) + 1]
           document == ParsedDocument(type, run.answer.path, run.answer.markdown)
           nextpc == IF Len(run.documents) + 1 = Len(Type) THEN "written" ELSE "asking"
<1>1. run' = IF Parses(run.answer.text) /\ Complete(run.answer.markdown)
             THEN [run EXCEPT !.pc = nextpc, !.documents = Append(run.documents, document),
                              !.answer = NoAnswer]
             ELSE [run EXCEPT !.pc = "failed"]
  BY DEF Parse
<1>2. document \in Document /\ Trim(document.markdown) = document.markdown
  <2>1. run.answer.path \in Path /\ run.answer.markdown \in Seq(Line)
    BY DEF RoundInv, RunIsTyped, Answer, Parse
  <2>2. type \in STRING
    <3>1. Len(run.documents) \in Nat /\ Len(Type) \in Nat /\ Len(run.documents) < Len(Type)
      BY DocumentRoundsAssumption DEF RoundInv, RunIsTyped, Parse
    <3>2. Len(run.documents) + 1 \in 1..Len(Type)
      BY <3>1
    <3> QED
      BY <3>2, DocumentRoundsAssumption
  <2> HIDE DEF type
  <2>3. Trim(run.answer.markdown) \in Seq(Line)
        /\ Trim(Trim(run.answer.markdown)) = Trim(run.answer.markdown)
    BY <2>1, TrimmedOnce
  <2> QED
    BY <2>1, <2>2, <2>3 DEF ParsedDocument, Document
<1>3. nextpc \in {"written", "asking"} /\ UNCHANGED <<files, own>>
  BY DEF Parse
<1> DEFINE documents == Append(run.documents, document)
<1>4. /\ documents \in Seq(Document)
      /\ \A i \in 1..Len(documents) : Trim(documents[i].markdown) = documents[i].markdown
  <2> HIDE DEF document
  <2>1. /\ documents \in Seq(Document) /\ Len(documents) = Len(run.documents) + 1
        /\ documents[Len(run.documents) + 1] = document
        /\ \A i \in 1..Len(run.documents) : documents[i] = run.documents[i]
    BY <1>2 DEF RoundInv, RunIsTyped
  <2> HIDE DEF documents
  <2>2. \A i \in 1..Len(documents) : i \in 1..Len(run.documents) \/ i = Len(run.documents) + 1
    <3>1. Len(run.documents) \in Nat
      BY DEF RoundInv, RunIsTyped
    <3> QED
      BY <2>1, <3>1
  <2>3. \A i \in 1..Len(run.documents) : Trim(run.documents[i].markdown) = run.documents[i].markdown
    BY DEF RoundInv, RunIsTyped
  <2> QED
    BY <1>2, <2>1, <2>2, <2>3
<1> HIDE DEF type, document, nextpc, documents
<1>5. CASE Parses(run.answer.text) /\ Complete(run.answer.markdown)
  <2>1. run' = [run EXCEPT !.pc = nextpc, !.documents = documents, !.answer = NoAnswer]
    BY <1>1, <1>5 DEF documents
  <2>2. run' = [pc |-> nextpc, previous |-> run.previous, authored |-> run.authored, read |-> run.read,
                failing |-> run.failing, answer |-> NoAnswer, documents |-> documents,
                items |-> run.items, review |-> run.review]
    BY <2>1 DEF RoundInv, RunIsTyped, RunHasFields
  <2>3. RunIsTyped'
    BY <1>3, <1>4, <2>2, FreshIsTyped DEF RoundInv, RunIsTyped, RunHasFields
  <2>4. OwnIsMarked'
    BY <1>3 DEF RoundInv, OwnIsMarked
  <2>5. Returned' /\ SkipsAreHarmless'
    BY <1>3, <2>2 DEF Returned, SkipsAreHarmless
  <2> QED
    BY <2>3, <2>4, <2>5 DEF RoundInv
<1>6. CASE ~(Parses(run.answer.text) /\ Complete(run.answer.markdown))
  <2>1. run' = [pc |-> "failed", previous |-> run.previous, authored |-> run.authored, read |-> run.read,
                failing |-> run.failing, answer |-> run.answer, documents |-> run.documents,
                items |-> run.items, review |-> run.review]
    BY <1>1, <1>6 DEF RoundInv, RunIsTyped, RunHasFields
  <2> QED
    BY <1>3, <2>1, MoveStep DEF PC
<1> QED
  BY <1>5, <1>6

\* A path that is written has a last document.
LEMMA LastIsThere ==
  ASSUME RoundInv, NEW p \in {run.documents[i].path : i \in 1..Len(run.documents)}
  PROVE  LastFor(p) \in 1..Len(run.documents)
<1> DEFINE S == {i \in 1..Len(run.documents) : run.documents[i].path = p}
<1>1. S \in SUBSET (1..Len(run.documents)) /\ S # {} /\ Len(run.documents) \in Nat
  BY DEF RoundInv, RunIsTyped
<1>2. Max(S) \in S
  <2> HIDE DEF S
  <2> QED
    BY <1>1, FirstAndLast
<1> QED
  BY <1>2 DEF LastFor

\* What is published is marked, and is DocPulse's own.
LEMMA PublishStep ==
  ASSUME RoundInv, Publish PROVE RoundInv'
<1> DEFINE paths == {run.documents[i].path : i \in 1..Len(run.documents)}
           text(p) == run.documents[LastFor(p)].markdown
<1>1. /\ files' = [p \in Path |-> IF p \in paths THEN Written(text(p)) ELSE files[p]]
      /\ own' = [p \in Path |-> IF p \in paths THEN text(p) ELSE own[p]]
      /\ run' = [Fresh EXCEPT !.pc = "pushed"]
  BY DEF Publish
<1>2. ASSUME NEW p \in paths PROVE text(p) \in Seq(Line) /\ Trim(text(p)) = text(p)
  <2>1. LastFor(p) \in 1..Len(run.documents)
    BY LastIsThere
  <2>2. run.documents[LastFor(p)] \in Document
    BY <2>1 DEF RoundInv, RunIsTyped
  <2> QED
    BY <2>1, <2>2 DEF RoundInv, RunIsTyped, Document
<1> HIDE DEF paths, text
<1>3. \A p \in paths : Marked(text(p)) \in Seq(Line)
  BY <1>2, MarkerComesOff
<1>4. files' \in [Path -> Stored] /\ own' \in [Path -> Stored]
  BY <1>1, <1>2, <1>3 DEF RoundInv, OwnIsMarked, Written, Stored
<1>5. \A p \in Path : own'[p] # Absent => files'[p] = Marked(own'[p]) /\ Trim(own'[p]) = own'[p]
  BY <1>1, <1>2 DEF RoundInv, OwnIsMarked, Written
<1>6. OwnIsMarked'
  BY <1>4, <1>5 DEF OwnIsMarked
<1> QED
  BY <1>1, <1>6, FreshRound

\* Every step, and none, keeps the invariant.
LEMMA RoundStep == RoundInv /\ [Next]_vars => RoundInv'
<1> SUFFICES ASSUME RoundInv, [Next]_vars PROVE RoundInv'
  OBVIOUS
<1>1. CASE UNCHANGED vars
  BY <1>1 DEF vars, RoundInv, RunIsTyped, RunHasFields, OwnIsMarked, Returned, Comes, SkipsAreHarmless
<1>2. CASE PushCode \/ Close
  BY <1>2, PushStep
<1>3. ASSUME NEW p \in Path, EditDocument(p) PROVE RoundInv'
  BY <1>3, EditStep
<1>4. CASE EarlySkip \/ EnterFresh
  BY <1>4, EnterStep
<1>5. CASE Locate
  BY <1>5, LocateStep
<1>6. CASE Analyze \/ Criticize \/ Approve \/ Reject
  BY <1>6, JudgeStep
<1>7. CASE Ask
  BY <1>7, AskStep
<1>8. CASE Parse
  BY <1>8, ParseStep
<1>9. CASE Publish
  BY <1>9, PublishStep
<1> QED
  BY <1>1, <1>2, <1>3, <1>4, <1>5, <1>6, <1>7, <1>8, <1>9 DEF Next

\* A run is skipped only over changes that need no new documentation, whatever was pushed,
\* asked for and still known to git.
THEOREM SkippedRunsNeedNothing == Spec => []SkipsAreHarmless
<1>1. Init => RoundInv
  BY RoundInit
<1>2. RoundInv /\ [Next]_vars => RoundInv'
  BY RoundStep
<1>3. RoundInv => SkipsAreHarmless
  BY DEF RoundInv
<1> QED
  BY <1>1, <1>2, <1>3, PTL DEF Spec

\* Only an answer fails a run, and only the critic has documents reviewed.
LEMMA OnlyParseFails ==
  ASSUME RoundInv, Next
  PROVE  (run'.pc = "failed" => Parse) /\ (run'.pc = "reviewed" => Criticize)
<1> USE DEF RoundInv, RunIsTyped, RunHasFields
<1>2. ASSUME PushCode \/ Close \/ Publish \/ \E p \in Path : EditDocument(p)
      PROVE  run'.pc \in {"idle", "pushed"}
  <2>1. run' = Fresh \/ run' = [Fresh EXCEPT !.pc = "pushed"]
    BY <1>2 DEF PushCode, Close, Publish, EditDocument
  <2> QED
    BY <2>1, FreshIsTyped
<1>3. ASSUME EarlySkip \/ EnterFresh PROVE run'.pc \in {"skipped", "entered"}
  <2>1. PICK pc \in {"skipped", "entered"} : run' = [run EXCEPT !.pc = pc]
    BY <1>3 DEF EarlySkip, EnterFresh, Goto
  <2> QED
    BY <2>1
<1>4. ASSUME Locate PROVE run'.pc = "located"
  BY <1>4 DEF Locate
<1>5. ASSUME Analyze \/ Reject PROVE run'.pc = "asking"
  BY <1>5 DEF Analyze, Reject
<1>6. ASSUME Ask PROVE run'.pc = "answered"
  BY <1>6 DEF Ask
<1>7. ASSUME Approve PROVE run'.pc = "approved"
  BY <1>7 DEF Approve
<1>8. ASSUME Parse PROVE run'.pc \in {"written", "asking", "failed"}
  BY <1>8 DEF Parse
<1>9. ASSUME Criticize PROVE run'.pc = "reviewed"
  BY <1>9 DEF Criticize
<1> QED
  BY <1>2, <1>3, <1>4, <1>5, <1>6, <1>7, <1>8, <1>9 DEF Next

\* An answer around one object parses, so the run can only fail over what is in it.
LEMMA AnswerStep ==
  ASSUME RoundInv, AnswersAreUnderstood, [Next]_vars PROVE AnswersAreUnderstood'
<1>1. CASE UNCHANGED vars
  BY <1>1 DEF vars, AnswersAreUnderstood
<1>2. CASE Next
  <2> SUFFICES ASSUME run'.pc = "failed", Around(run'.answer.text)
               PROVE  ~Complete(run'.answer.markdown)
    BY DEF AnswersAreUnderstood
  <2>1. Parse
    BY <1>2, OnlyParseFails
  <2>2. ~(Parses(run.answer.text) /\ Complete(run.answer.markdown)) /\ run' = [run EXCEPT !.pc = "failed"]
    <3>1. CASE Parses(run.answer.text) /\ Complete(run.answer.markdown)
      <4>1. run'.pc \in {"written", "asking"}
        BY <2>1, <3>1 DEF Parse, RoundInv, RunIsTyped, RunHasFields
      <4> QED
        BY <4>1
    <3>2. CASE ~(Parses(run.answer.text) /\ Complete(run.answer.markdown))
      BY <2>1, <3>2 DEF Parse
    <3> QED
      BY <3>1, <3>2
  <2>3. run'.answer = run.answer
    BY <2>2 DEF RoundInv, RunIsTyped, RunHasFields
  <2>4. run.answer.text \in Seq(Token)
    BY DEF RoundInv, RunIsTyped, Answer
  <2>5. Parses(run.answer.text)
    BY <2>3, <2>4, ObjectIsFound
  <2> QED
    BY <2>2, <2>3, <2>5
<1> QED
  BY <1>1, <1>2

\* Whatever a model puts around one complete object, the object is found, for texts of any
\* length.
THEOREM ObjectsAreRecovered == Spec => []AnswersAreUnderstood
<1>1. Init => RoundInv /\ AnswersAreUnderstood
  BY RoundInit, FreshIsTyped DEF Init, AnswersAreUnderstood
<1>2. RoundInv /\ AnswersAreUnderstood /\ [Next]_vars => RoundInv' /\ AnswersAreUnderstood'
  BY RoundStep, AnswerStep
<1> QED
  BY <1>1, <1>2, PTL DEF Spec

-----------------------------------------------------------------------------
(* The verdict. *)

\* The highest score that passes nothing is 0, which is also what an item without one gets.
ThresholdMatters == Threshold > 0

\* Some lines of a document are finitely many.
LEMMA LinesAreFinite ==
  ASSUME NEW m \in Seq(Line), NEW S \in SUBSET (1..Len(m))
  PROVE  IsFiniteSet(S) /\ Cardinality(S) \in Nat
<1>1. IsFiniteSet(1..Len(m))
  BY FS_Interval
<1>2. IsFiniteSet(S)
  BY <1>1, FS_Subset
<1> QED
  BY <1>2, FS_CardinalityType

\* Validation without an error found a heading and closed fences, and warnings only
\* take points away.
LEMMA SoundMarkdown ==
  ASSUME NEW m \in Seq(Line)
  PROVE  LET v == Validate(m) IN
         /\ v.errors \in Nat /\ v.warnings \in Nat
         /\ v.errors = 0 => /\ \E j \in 1..Len(m) : IsHeading(m[j])
                            /\ Cardinality(Fences(m)) % 2 = 0
<1>1. Headings(m) \subseteq 1..Len(m) /\ Fences(m) \subseteq 1..Len(m)
  BY DEF Headings, Fences, Occurrences
<1>2. Duplicated(m) \subseteq 1..Len(m) /\ EmptySections(m) \subseteq 1..Len(m)
  BY <1>1 DEF Duplicated, EmptySections
<1>3. /\ Cardinality(Fences(m)) \in Nat /\ Cardinality(Duplicated(m)) \in Nat
      /\ Cardinality(EmptySections(m)) \in Nat
  BY <1>1, <1>2, LinesAreFinite
<1> DEFINE fences == Cardinality(Fences(m))
           odd == fences % 2
           untitled == IF Headings(m) = {} THEN 1 ELSE 0
           warnings == Cardinality(Duplicated(m)) + Cardinality(EmptySections(m))
<1>4. odd \in Nat /\ untitled \in Nat /\ warnings \in Nat
  <2>1. fences \in Nat
    BY <1>3
  <2> HIDE DEF fences
  <2>2. odd \in Nat
    BY <2>1
  <2> QED
    BY <1>3, <2>2
<1>5. Validate(m) = IF Trim(m) = <<>> THEN [errors |-> 1, warnings |-> 0]
                    ELSE [errors |-> untitled + odd, warnings |-> warnings]
  BY DEF Validate
<1>6. untitled = 0 => \E j \in 1..Len(m) : IsHeading(m[j])
  BY DEF Headings
<1>7. odd = Cardinality(Fences(m)) % 2
  OBVIOUS
<1> HIDE DEF odd, untitled, warnings
<1> QED
  BY <1>4, <1>5, <1>6, <1>7

\* A score that passes is no more than the critic gave, and was given by an item.
LEMMA ApprovedIsJudged ==
  ASSUME ThresholdMatters, NEW items \in Seq([type : STRING, score : Int]), NEW document \in Document,
         Reviewed(document, BatchScores(items)).approved
  PROVE  /\ \E i \in 1..Len(items) : /\ items[i].type = document.type
                                     /\ items[i].score # Unscored /\ items[i].score >= Threshold
         /\ \E j \in 1..Len(document.markdown) : IsHeading(document.markdown[j])
         /\ Cardinality(Fences(document.markdown)) % 2 = 0
<1>0. \A k \in 1..Len(items) : items[k] \in [type : STRING, score : Int]
  <2> DEFINE Item == [type : STRING, score : Int]
  <2>1. items \in Seq(Item)
    OBVIOUS
  <2> HIDE DEF Item
  <2>2. \A k \in 1..Len(items) : items[k] \in Item
    BY <2>1
  <2> QED
    BY <2>2 DEF Item
<1> DEFINE scores == BatchScores(items)
           validation == Validate(document.markdown)
           type == document.type
           at == {i \in 1..Len(items) : items[i].type = type}
<1>1. DOMAIN scores = {items[i].type : i \in 1..Len(items)}
      /\ (type \in DOMAIN scores => scores[type] = RawScore(items[Max(at)]))
  BY DEF BatchScores
<1>2. Len(items) \in Nat /\ document.markdown \in Seq(Line)
  BY DEF Document
<1> HIDE DEF scores
<1>3. type \in DOMAIN scores
  BY DEF Reviewed, scores
<1>4. Evaluate(scores[type], validation).approved
  BY <1>3 DEF Reviewed, scores
<1>5. at # {} /\ at \in SUBSET (1..Len(items))
  BY <1>1, <1>3
<1>6. Max(at) \in at
  <2> HIDE DEF at
  <2> QED
    BY <1>2, <1>5, FirstAndLast
<1> DEFINE m == Max(at)
           score == items[m].score
<1>7. m \in 1..Len(items) /\ items[m].type = type /\ score \in Int
  <2>1. m \in 1..Len(items) /\ items[m].type = type
    BY <1>6
  <2> HIDE DEF m
  <2>2. items[m] \in [type : STRING, score : Int]
    BY <1>0, <2>1
  <2> QED
    BY <2>1, <2>2
<1>8. scores[type] = RawScore(items[m])
  BY <1>1, <1>3
<1>9. validation.errors \in Nat /\ validation.warnings \in Nat
  BY <1>2, SoundMarkdown
<1> HIDE DEF validation, at, m
<1>10. scores[type] \in Int /\ (scores[type] > 0 => score # Unscored /\ scores[type] <= score)
  BY <1>7, <1>8 DEF RawScore, Clamp, Unscored
<1>11. validation.errors = 0
       /\ Clamp(scores[type] - 15 * validation.errors - 2 * validation.warnings) >= Threshold
  BY <1>4 DEF Evaluate
<1>12. scores[type] >= Threshold
  <2>1. Threshold \in Int /\ Threshold > 0 /\ Threshold <= 100
    BY GeneratedTextAssumption DEF ThresholdMatters
  <2>2. Clamp(scores[type] - 2 * validation.warnings) >= Threshold
    BY <1>9, <1>10, <1>11
  <2> QED
    BY <1>9, <1>10, <2>1, <2>2 DEF Clamp
<1>13. score # Unscored /\ score >= Threshold
  BY <1>7, <1>10, <1>12, GeneratedTextAssumption DEF ThresholdMatters
<1>14. /\ \E j \in 1..Len(document.markdown) : IsHeading(document.markdown[j])
       /\ Cardinality(Fences(document.markdown)) % 2 = 0
  BY <1>2, <1>11, SoundMarkdown DEF validation
<1> QED
  BY <1>7, <1>13, <1>14

\* The critic's verdict is on what it was given and on what it answered.
LEMMA VerdictStep ==
  ASSUME ThresholdMatters, RoundInv, PassedMeansJudged, [Next]_vars PROVE PassedMeansJudged'
<1>1. CASE UNCHANGED vars
  BY <1>1 DEF vars, PassedMeansJudged, Judged
<1>2. CASE Next
  <2> SUFFICES ASSUME run'.pc = "reviewed", run'.review.passed, NEW i \in 1..Len(run'.documents)
               PROVE  /\ Judged(run.documents[i])'
                      /\ \E j \in 1..Len(run'.documents[i].markdown) : IsHeading(run'.documents[i].markdown[j])
                      /\ Cardinality(Fences(run'.documents[i].markdown)) % 2 = 0
    BY DEF PassedMeansJudged
  <2>1. Criticize
    BY <1>2, OnlyParseFails
  <2>2. PICK items \in CriticItems :
          run' = [run EXCEPT !.pc = "reviewed", !.items = items,
                             !.review = ReviewDocuments(run.documents, BatchScores(items))]
    BY <2>1 DEF Criticize
  <2> DEFINE review == ReviewDocuments(run.documents, BatchScores(items))
             reviews == [k \in 1..Len(run.documents) |-> Reviewed(run.documents[k], BatchScores(items))]
  <2>3. review.passed => \A k \in 1..Len(reviews) : reviews[k].approved
    BY DEF ReviewDocuments, Aggregate
  <2>4. Len(reviews) = Len(run.documents)
    <3>1. Len(run.documents) \in Nat
      BY DEF RoundInv, RunIsTyped
    <3> QED
      BY <3>1
  <2> HIDE DEF review
  <2>5. run'.items = items /\ run'.review = review /\ run'.documents = run.documents
    BY <2>2 DEF review, RoundInv, RunIsTyped, RunHasFields
  <2>6. Reviewed(run.documents[i], BatchScores(items)).approved
    BY <2>3, <2>4, <2>5
  <2>7. items \in Seq([type : STRING, score : Int]) /\ run.documents[i] \in Document
    BY <2>5, DocumentRoundsAssumption DEF RoundInv, RunIsTyped
  <2>8. /\ \E k \in 1..Len(items) : /\ items[k].type = run.documents[i].type
                                    /\ items[k].score # Unscored /\ items[k].score >= Threshold
        /\ \E j \in 1..Len(run.documents[i].markdown) : IsHeading(run.documents[i].markdown[j])
        /\ Cardinality(Fences(run.documents[i].markdown)) % 2 = 0
    BY <2>6, <2>7, ApprovedIsJudged
  <2> QED
    BY <2>5, <2>8 DEF Judged
<1> QED
  BY <1>1, <1>2

\* With a threshold above 0, the critic passes nothing it did not judge high enough, for
\* any documents and whatever it answers.
THEOREM VerdictsAreEarned == ThresholdMatters => (Spec => []PassedMeansJudged)
<1> SUFFICES ASSUME ThresholdMatters PROVE Spec => []PassedMeansJudged
  OBVIOUS
<1>1. Init => RoundInv /\ PassedMeansJudged
  BY RoundInit, FreshIsTyped DEF Init, PassedMeansJudged
<1>2. RoundInv /\ PassedMeansJudged /\ [Next]_vars => RoundInv' /\ PassedMeansJudged'
  BY RoundStep, VerdictStep
<1> QED
  BY <1>1, <1>2, PTL DEF Spec

-----------------------------------------------------------------------------
(* Markers. *)

Clean(markdown) == \A i \in 1..Len(markdown) : markdown[i] # "marker"

\* Neither developers nor models write the marker themselves.
NobodyForges == \A m \in Drafts \cup Markdowns : Clean(m)

\* There is one marker in a document at most, and it is the first line.
MarkedOnce(file) == file # Absent => Clean(file) \/ (IsGenerated(file) /\ Clean(Tail(file)))

\* No marker gets past the locator.
RunIsClean ==
  /\ \A d \in run.previous : Clean(d.text)
  /\ Clean(run.answer.markdown)
  /\ \A i \in 1..Len(run.documents) : Clean(run.documents[i].markdown)

CleanInv == RunIsClean /\ \A p \in Path : MarkedOnce(files[p])

\* A part of a document without marker has none.
LEMMA TrimmedIsClean ==
  ASSUME NEW m \in Seq(Line), Clean(m) PROVE Clean(Trim(m))
<1>1. \A i \in 1..Len(Trim(m)) : \E j \in 1..Len(m) : Trim(m)[i] = m[j]
  BY TrimmedOnce
<1>2. \A j \in 1..Len(m) : m[j] # "marker"
  BY DEF Clean
<1> QED
  BY <1>1, <1>2 DEF Clean

\* A run that knows nothing knows no marker.
LEMMA FreshIsClean ==
  ASSUME run' = Fresh \/ run' = [Fresh EXCEPT !.pc = "pushed"] PROVE RunIsClean'
<1>1. run'.previous = {} /\ run'.answer = NoAnswer /\ run'.documents = <<>>
  BY FreshIsTyped
<1>2. NoAnswer.markdown = <<>>
  BY DEF NoAnswer
<1>3. \A i \in 1..Len(<<>>) : FALSE
  OBVIOUS
<1> QED
  BY <1>1, <1>2, <1>3 DEF RunIsClean, Clean

\* What is put below a marker has none itself.
LEMMA MarkedIsMarkedOnce ==
  ASSUME NEW m \in Seq(Line), Clean(m) PROVE MarkedOnce(Marked(m))
BY MarkerComesOff DEF MarkedOnce

\* Markers come and go with the files, and the run sees what is below them.
LEMMA CleanStep ==
  ASSUME NobodyForges, RoundInv, CleanInv, [Next]_vars PROVE CleanInv'
<1>1. CASE UNCHANGED vars
  BY <1>1 DEF vars, CleanInv, RunIsClean, MarkedOnce
<1>2. CASE PushCode \/ Close
  <2>1. files' = files /\ RunIsClean'
    BY <1>2, FreshIsClean DEF PushCode, Close
  <2> QED
    BY <2>1 DEF CleanInv, MarkedOnce
<1>3. ASSUME NEW p \in Path, EditDocument(p) PROVE CleanInv'
  <2>1. RunIsClean'
    BY <1>3, FreshIsClean DEF EditDocument
  <2>2. PICK new \in {Absent} \cup Markdowns \cup {Marked(m) : m \in Markdowns} :
          files' = [files EXCEPT ![p] = new]
    BY <1>3 DEF EditDocument
  <2>3. MarkedOnce(new)
    <3>1. CASE new = Absent
      BY <3>1 DEF MarkedOnce
    <3>2. CASE new \in Markdowns
      BY <3>2 DEF MarkedOnce, NobodyForges
    <3>3. CASE new \in {Marked(m) : m \in Markdowns}
      BY <3>3, MarkedIsMarkedOnce, DocumentRoundsAssumption DEF NobodyForges
    <3> QED
      BY <3>1, <3>2, <3>3
  <2>4. files \in [Path -> Stored]
    BY DEF RoundInv, OwnIsMarked
  <2>5. \A q \in Path : files'[q] = IF q = p THEN new ELSE files[q]
    BY <2>2, <2>4
  <2>6. \A q \in Path : MarkedOnce(files'[q])
    BY <2>3, <2>5 DEF CleanInv
  <2> QED
    BY <2>1, <2>6 DEF CleanInv, MarkedOnce
<1>4. CASE EarlySkip \/ EnterFresh \/ Analyze \/ Criticize \/ Approve \/ Reject
  <2>1. files' = files
    BY <1>4 DEF EarlySkip, EnterFresh, Analyze, Criticize, Approve, Reject
  <2>2. run'.previous = run.previous /\ run'.answer = run.answer
        /\ run'.documents \in {run.documents, <<>>}
    <3> USE DEF RoundInv, RunIsTyped, RunHasFields
    <3>1. CASE EarlySkip \/ EnterFresh
      <4>1. PICK pc \in {"skipped", "entered"} : run' = [run EXCEPT !.pc = pc]
        BY <3>1 DEF EarlySkip, EnterFresh, Goto
      <4> QED
        BY <4>1
    <3>2. CASE Analyze
      BY <3>2 DEF Analyze
    <3>3. CASE Criticize
      BY <3>3 DEF Criticize
    <3>4. CASE Approve
      BY <3>4 DEF Approve
    <3>5. CASE Reject
      BY <3>5 DEF Reject
    <3> QED
      BY <1>4, <3>1, <3>2, <3>3, <3>4, <3>5
  <2>3. \A i \in 1..Len(<<>>) : FALSE
    OBVIOUS
  <2> QED
    BY <2>1, <2>2, <2>3 DEF CleanInv, RunIsClean, MarkedOnce
<1>5. CASE Locate
  <2>1. files' = files /\ run'.answer = run.answer /\ run'.documents = run.documents
    BY <1>5 DEF Locate, RoundInv, RunIsTyped, RunHasFields
  <2>2. \A d \in run'.previous :
          \E p \in Path : IsGenerated(files[p]) /\ files[p] # Absent /\ d.text = Content(files[p])
    BY <1>5 DEF Locate, RoundInv, RunIsTyped, RunHasFields
  <2>3. ASSUME NEW p \in Path, IsGenerated(files[p]), files[p] # Absent
        PROVE  Clean(Content(files[p]))
    <3>1. files[p] \in Seq(Line) /\ files[p] # <<>>
      BY <2>3 DEF RoundInv, OwnIsMarked, Stored, IsGenerated
    <3>2. Head(files[p]) = files[p][1] /\ 1 \in 1..Len(files[p]) /\ Tail(files[p]) \in Seq(Line)
      BY <3>1, Ends
    <3>3. ~Clean(files[p])
      BY <2>3, <3>2 DEF IsGenerated, Clean
    <3>4. Clean(Tail(files[p]))
      BY <2>3, <3>3 DEF CleanInv, MarkedOnce
    <3> QED
      BY <3>2, <3>4, TrimmedIsClean DEF Content
  <2>4. \A d \in run'.previous : Clean(d.text)
    BY <2>2, <2>3
  <2> QED
    BY <2>1, <2>4 DEF CleanInv, RunIsClean, MarkedOnce
<1>6. CASE Ask
  <2>1. files' = files /\ run'.previous = run.previous /\ run'.documents = run.documents
    BY <1>6 DEF Ask, RoundInv, RunIsTyped, RunHasFields
  <2>2. run'.answer.markdown \in Drafts \cup {d.text : d \in run.previous}
    BY <1>6 DEF Ask, RoundInv, RunIsTyped, RunHasFields
  <2>3. Clean(run'.answer.markdown)
    BY <2>2 DEF NobodyForges, CleanInv, RunIsClean
  <2> QED
    BY <2>1, <2>3 DEF CleanInv, RunIsClean, MarkedOnce
<1>7. CASE Parse
  <2>1. files' = files /\ run'.previous = run.previous
    BY <1>7 DEF Parse, RoundInv, RunIsTyped, RunHasFields
  <2> DEFINE document == ParsedDocument(Type[Len(run.documents) + 1], run.answer.path, run.answer.markdown)
             documents == Append(run.documents, document)
  <2>2. \/ run'.answer = run.answer /\ run'.documents = run.documents
        \/ run'.answer = NoAnswer /\ run'.documents = documents
    BY <1>7 DEF Parse, RoundInv, RunIsTyped, RunHasFields
  <2>3. Clean(NoAnswer.markdown)
    <3>1. \A i \in 1..Len(<<>>) : FALSE
      OBVIOUS
    <3> QED
      BY <3>1 DEF NoAnswer, Clean
  <2>4. Clean(document.markdown)
    <3>1. run.answer.markdown \in Seq(Line) /\ Clean(run.answer.markdown)
      BY DEF RoundInv, RunIsTyped, Answer, CleanInv, RunIsClean
    <3> QED
      BY <3>1, TrimmedIsClean DEF ParsedDocument
  <2> HIDE DEF document
  <2>5. ASSUME NEW i \in 1..Len(documents) PROVE Clean(documents[i].markdown)
    <3>1. run.documents \in Seq(Document) /\ Len(run.documents) \in Nat
      BY DEF RoundInv, RunIsTyped
    <3>2. \/ i \in 1..Len(run.documents) /\ documents[i] = run.documents[i]
          \/ documents[i] = document
      BY <3>1
    <3> QED
      BY <2>4, <3>2 DEF CleanInv, RunIsClean
  <2> HIDE DEF documents
  <2>6. RunIsClean'
    BY <2>1, <2>2, <2>3, <2>5 DEF CleanInv, RunIsClean
  <2> QED
    BY <2>1, <2>6 DEF CleanInv, MarkedOnce
<1>8. CASE Publish
  <2>1. RunIsClean'
    BY <1>8, FreshIsClean DEF Publish
  <2> DEFINE paths == {run.documents[i].path : i \in 1..Len(run.documents)}
             text(p) == run.documents[LastFor(p)].markdown
  <2>2. files' = [p \in Path |-> IF p \in paths THEN Marked(text(p)) ELSE files[p]]
    BY <1>8 DEF Publish, Written
  <2>3. ASSUME NEW p \in paths PROVE text(p) \in Seq(Line) /\ Clean(text(p))
    <3>1. LastFor(p) \in 1..Len(run.documents)
      BY LastIsThere
    <3>2. run.documents[LastFor(p)] \in Document
      BY <3>1 DEF RoundInv, RunIsTyped
    <3> QED
      BY <3>1, <3>2 DEF Document, CleanInv, RunIsClean
  <2> HIDE DEF paths, text
  <2>4. \A p \in paths : MarkedOnce(Marked(text(p)))
    BY <2>3, MarkedIsMarkedOnce
  <2>5. \A p \in Path : MarkedOnce(files'[p])
    BY <2>2, <2>4 DEF CleanInv
  <2> QED
    BY <2>1, <2>5 DEF CleanInv, MarkedOnce
<1> QED
  BY <1>1, <1>2, <1>3, <1>4, <1>5, <1>6, <1>7, <1>8 DEF Next

\* As long as nobody else writes the marker, what DocPulse published comes back in the next
\* run as its own, word for word and without the marker, after any number of rounds.
THEOREM DocumentsComeBack == NobodyForges => (Spec => []OwnDocumentsComeBack)
<1> SUFFICES ASSUME NobodyForges PROVE Spec => []OwnDocumentsComeBack
  OBVIOUS
<1>1. Init => RoundInv /\ CleanInv
  <2> SUFFICES ASSUME Init PROVE CleanInv
    BY RoundInit
  <2>1. \A i \in 1..Len(<<>>) : FALSE
    OBVIOUS
  <2>2. run.previous = {} /\ run.answer.markdown = <<>> /\ run.documents = <<>>
    BY FreshIsTyped DEF Init, NoAnswer
  <2>3. RunIsClean
    BY <2>1, <2>2 DEF RunIsClean, Clean
  <2>4. \A p \in Path : files[p] = Absent \/ files[p] \in Markdowns
    BY DEF Init
  <2> QED
    BY <2>3, <2>4 DEF CleanInv, MarkedOnce, NobodyForges
<1>2. RoundInv /\ CleanInv /\ [Next]_vars => RoundInv' /\ CleanInv'
  BY RoundStep, CleanStep
<1>3. RoundInv /\ CleanInv => OwnDocumentsComeBack
  BY DEF RoundInv, Returned, CleanInv, RunIsClean, Clean, OwnDocumentsComeBack
<1> QED
  BY <1>1, <1>2, <1>3, PTL DEF Spec

-----------------------------------------------------------------------------
(* Folds, as the community modules define them: over the indices, the last one first. *)

\* What holds at the start and is handed on from each index to the next holds at all.
LEMMA HandedOn ==
  ASSUME NEW n \in Nat, NEW T, 0 \in T, \A i \in 1..n : i - 1 \in T => i \in T
  PROVE  0..n \subseteq T
<1> DEFINE S == {i \in 1..n : i \notin T}
<1>1. CASE S = {}
  BY <1>1
<1>2. CASE S # {}
  <2> DEFINE m == Min(S)
  <2>1. m \in S /\ \A y \in S : m <= y
    BY <1>2, FirstAndLast
  <2>2. m \in 1..n /\ m \notin T
    BY <2>1
  <2> HIDE DEF m
  <2>3. m - 1 \in 0..n /\ m - 1 < m
    BY <2>2
  <2>4. m - 1 = 0 \/ m - 1 \in 1..n
    BY <2>2
  <2>5. m - 1 \in T
    BY <2>1, <2>3, <2>4
  <2> QED
    BY <2>2, <2>5
<1> QED
  BY <1>1, <1>2

\* The last index of a set, taken away, leaves a smaller set of indices.
LEMMA LastIndex ==
  ASSUME NEW n \in Nat, NEW s \in SUBSET (1..n), s # {}
  PROVE  Max(s) \in 1..n /\ Max(s) \in s /\ s \ {Max(s)} \in SUBSET (1..n)
BY FirstAndLast

\* Of the first i indices the last one is i.
LEMMA FirstIndices ==
  ASSUME NEW n \in Nat, NEW i \in 1..n
  PROVE  1..i \in SUBSET (1..n) /\ 1..i # {} /\ Max(1..i) = i /\ (1..i) \ {i} = 1..(i - 1)
<1>1. 1..i \in SUBSET (1..n) /\ i \in 1..i
  OBVIOUS
<1>2. Max(1..i) \in 1..i /\ \A y \in 1..i : y <= Max(1..i)
  BY <1>1, FirstAndLast
<1>3. Max(1..i) = i
  BY <1>1, <1>2
<1> QED
  BY <1>1, <1>3

\* f[s] is what the indices in s make of base, with a step G[i] for each index.
Solves(f, base, n, G) ==
  \A s \in SUBSET (1..n) : f[s] = IF s = {} THEN base ELSE G[Max(s)][f[s \ {Max(s)}]]
\* The same of a solution of which only what stays in the type A is known.
SolvesWithin(f, A, base, n, G) ==
  /\ f[{}] = base
  /\ \A s \in SUBSET (1..n) :
       s # {} /\ f[s \ {Max(s)}] \in A => f[s] = G[Max(s)][f[s \ {Max(s)}]]
\* h[i] is what the first i indices make of base, total what all of them do.
Steps(h, base, n, G, total) == h[0] = base /\ h[n] = total /\ \A i \in 1..n : h[i] = G[i][h[i - 1]]

\* The recursion a fold is defined by has a solution, if each step stays in the type A.
LEMMA FoldExists ==
  ASSUME NEW A, NEW base \in A, NEW n \in Nat, NEW G \in [1..n -> [A -> A]]
  PROVE  \E f \in [SUBSET (1..n) -> A] : Solves(f, base, n, G)
<1> DEFINE At(f, s) == f[s] = IF s = {} THEN base ELSE G[Max(s)][f[s \ {Max(s)}]]
           T == {k \in 0..n : \E f \in [SUBSET (1..k) -> A] : \A s \in SUBSET (1..k) : At(f, s)}
<1>0. \A i \in 1..n, a \in A : G[i][a] \in A
  OBVIOUS
<1>1. 0 \in T
  <2> DEFINE f == [s \in SUBSET (1..0) |-> base]
  <2>1. f \in [SUBSET (1..0) -> A]
    OBVIOUS
  <2>2. \A s \in SUBSET (1..0) : s = {}
    OBVIOUS
  <2>3. \A s \in SUBSET (1..0) : At(f, s)
    BY <2>2
  <2>4. 0 \in 0..n
    OBVIOUS
  <2> HIDE DEF f, At
  <2> QED
    BY <2>1, <2>3, <2>4
<1>2. ASSUME NEW k \in 1..n, k - 1 \in T
      PROVE  k \in T
  <2>1. PICK f \in [SUBSET (1..k - 1) -> A] : \A s \in SUBSET (1..k - 1) : At(f, s)
    BY <1>2
  <2> DEFINE g == [s \in SUBSET (1..k) |-> IF k \in s THEN G[k][f[s \ {k}]] ELSE f[s]]
  <2>2. ASSUME NEW s \in SUBSET (1..k)
        PROVE  g[s] \in A /\ At(g, s)
    <3>1. CASE k \in s
      <4>1. k \in Nat /\ s \ {k} \in SUBSET (1..k - 1) /\ s \ {k} \in SUBSET (1..k)
        OBVIOUS
      <4>2. Max(s) = k
        <5>1. Max(s) \in s /\ \A y \in s : y <= Max(s)
          BY <3>1, <4>1, FirstAndLast
        <5>2. Max(s) \in 1..k /\ k <= Max(s)
          BY <3>1, <5>1
        <5> QED
          BY <5>2
      <4>3. g[s \ {k}] = f[s \ {k}] /\ f[s \ {k}] \in A
        BY <2>1, <4>1
      <4>4. g[s] = G[k][f[s \ {k}]]
        BY <3>1
      <4> HIDE DEF g
      <4> QED
        BY <1>0, <3>1, <4>2, <4>3, <4>4
    <3>2. CASE k \notin s
      <4>1. s \in SUBSET (1..k - 1) /\ k - 1 \in Nat
        BY <3>2
      <4>2. g[s] = f[s] /\ f[s] \in A /\ At(f, s)
        BY <2>1, <3>2, <4>1
      <4>3. CASE s = {}
        BY <4>2, <4>3
      <4>4. CASE s # {}
        <5> DEFINE r == s \ {Max(s)}
        <5>1. r \in SUBSET (1..k - 1)
          BY <4>1
        <5>2. r \in SUBSET (1..k) /\ k \notin r
          BY <5>1
        <5>3. g[r] = f[r]
          BY <5>2
        <5> HIDE DEF g
        <5> QED
          BY <4>2, <4>4, <5>3
      <4> QED
        BY <4>3, <4>4
    <3> QED
      BY <3>1, <3>2
  <2>3. g \in [SUBSET (1..k) -> A]
    <3>1. \A s \in SUBSET (1..k) : g[s] \in A
      BY <2>2
    <3> QED
      BY <3>1
  <2>4. \A s \in SUBSET (1..k) : At(g, s)
    BY <2>2
  <2> HIDE DEF g, At
  <2> QED
    BY <2>3, <2>4
<1> HIDE DEF At
<1>3. n \in T
  <2> HIDE DEF T
  <2>1. 0..n \subseteq T
    BY <1>1, <1>2, HandedOn
  <2>2. n \in 0..n
    OBVIOUS
  <2> QED
    BY <2>1, <2>2
<1>4. \E f \in [SUBSET (1..n) -> A] : \A s \in SUBSET (1..n) : At(f, s)
  BY <1>3
<1> QED
  BY <1>4 DEF Solves, At

\* What a fold computes, index by index.
LEMMA FoldValues ==
  ASSUME NEW A, NEW base \in A, NEW n \in Nat, NEW G \in [1..n -> [A -> A]],
         NEW iter, SolvesWithin(iter, A, base, n, G)
  PROVE  \E h \in [0..n -> A] : Steps(h, base, n, G, iter[1..n])
<1> DEFINE h == [i \in 0..n |-> iter[1..i]]
           T == {i \in 0..n : h[i] \in A}
<1>1. 1..0 = {} /\ h[0] = base
  BY DEF SolvesWithin
<1>0. \A i \in 1..n, a \in A : G[i][a] \in A
  OBVIOUS
<1>2. ASSUME NEW i \in 1..n, i - 1 \in T
      PROVE  i \in T /\ h[i] = G[i][h[i - 1]]
  <2>1. i \in 0..n /\ i - 1 \in 0..n
    OBVIOUS
  <2>2. h[i - 1] = iter[1..(i - 1)] /\ h[i] = iter[1..i] /\ h[i - 1] \in A
    BY <1>2, <2>1
  <2>3. 1..i \in SUBSET (1..n) /\ 1..i # {} /\ Max(1..i) = i /\ (1..i) \ {i} = 1..(i - 1)
    BY FirstIndices
  <2> HIDE DEF h
  <2>4. iter[1..i] = G[i][iter[1..(i - 1)]]
    BY <2>2, <2>3 DEF SolvesWithin
  <2> QED
    BY <1>0, <2>1, <2>2, <2>4
<1>3. 0 \in T
  BY <1>1
<1>4. 0..n \subseteq T
  <2> HIDE DEF T
  <2> QED
    BY <1>2, <1>3, HandedOn
<1>5. h \in [0..n -> A]
  <2>1. \A i \in 0..n : h[i] \in A
    BY <1>4
  <2> QED
    BY <2>1
<1>6. \A i \in 1..n : h[i] = G[i][h[i - 1]]
  <2> TAKE i \in 1..n
  <2>1. i - 1 \in T
    BY <1>4
  <2> QED
    BY <1>2, <2>1
<1>7. h[n] = iter[1..n]
  OBVIOUS
<1> HIDE DEF h
<1> QED
  BY <1>1, <1>5, <1>6, <1>7 DEF Steps

\* Joining lists, list by list.
LEMMA JoinedSteps ==
  ASSUME NEW X, NEW lists \in Seq(Seq(X))
  PROVE  \E h \in [0..Len(lists) -> Seq(X)] :
           /\ h[0] = <<>> /\ h[Len(lists)] = Joined(lists)
           /\ \A i \in 1..Len(lists) : h[i] = h[i - 1] \o lists[i]
<1> DEFINE base == <<>>
           n == Len(lists)
           A == Seq(X)
           G == [i \in 1..n |-> [a \in A |-> a \o lists[i]]]
           Is(f) == f = [s \in SUBSET (DOMAIN lists) |->
                           IF s = {} THEN base ELSE f[s \ {Max(s)}] \o lists[Max(s)]]
           iter == CHOOSE f : Is(f)
<1>1. n \in Nat /\ DOMAIN lists = 1..n /\ base \in A /\ \A i \in 1..n : lists[i] \in Seq(X)
  OBVIOUS
<1>2. Joined(lists) = iter[1..n]
  BY <1>1 DEF Joined, FoldLeft, MapThenFoldSet
<1>3. G \in [1..n -> [A -> A]] /\ \A i \in 1..n, a \in A : G[i][a] = a \o lists[i]
  BY <1>1
<1> HIDE DEF base, n, A, G
<1>4. \E f : Is(f)
  <2>1. PICK f \in [SUBSET (1..n) -> A] : Solves(f, base, n, G)
    BY <1>1, <1>3, FoldExists
  <2>2. ASSUME NEW s \in SUBSET (1..n)
        PROVE  f[s] = IF s = {} THEN base ELSE f[s \ {Max(s)}] \o lists[Max(s)]
    <3>1. s # {} => f[s \ {Max(s)}] \in A /\ Max(s) \in 1..n
      BY <1>1, <2>1, LastIndex
    <3> QED
      BY <1>3, <2>1, <3>1 DEF Solves
  <2>3. f = [s \in SUBSET (1..n) |-> IF s = {} THEN base ELSE f[s \ {Max(s)}] \o lists[Max(s)]]
    BY <2>2
  <2> QED
    BY <1>1, <2>3
<1>5. Is(iter)
  BY <1>4
<1> HIDE DEF iter
<1>6. SolvesWithin(iter, A, base, n, G)
  <2>1. iter[{}] = base /\ \A s \in SUBSET (1..n) : s # {} => iter[s] = iter[s \ {Max(s)}] \o lists[Max(s)]
    BY <1>1, <1>5
  <2>2. \A s \in SUBSET (1..n) : s # {} => Max(s) \in 1..n
    BY <1>1, LastIndex
  <2> QED
    BY <1>3, <2>1, <2>2 DEF SolvesWithin
<1>7. PICK h \in [0..n -> A] : Steps(h, base, n, G, iter[1..n])
  BY <1>1, <1>3, <1>6, FoldValues
<1>8. ASSUME NEW i \in 1..n PROVE h[i] = h[i - 1] \o lists[i]
  <2>1. i - 1 \in 0..n
    BY <1>1
  <2> QED
    BY <1>3, <1>7, <2>1 DEF Steps
<1> QED
  BY <1>2, <1>7, <1>8 DEF Steps, base, n, A

\* Dropping repetitions, element by element.
LEMMA DistinctSteps ==
  ASSUME NEW X, NEW list \in Seq(X)
  PROVE  \E h \in [0..Len(list) -> Seq(X)] :
           /\ h[0] = <<>> /\ h[Len(list)] = Distinct(list)
           /\ \A i \in 1..Len(list) : h[i] = IF Listed(h[i - 1], list[i]) THEN h[i - 1] ELSE Append(h[i - 1], list[i])
<1> DEFINE base == <<>>
           n == Len(list)
           A == Seq(X)
           G == [i \in 1..n |-> [a \in A |-> IF Listed(a, list[i]) THEN a ELSE Append(a, list[i])]]
           Is(f) == f = [s \in SUBSET (DOMAIN list) |->
                           IF s = {} THEN base ELSE IF Listed(f[s \ {Max(s)}], list[Max(s)]) THEN f[s \ {Max(s)}] ELSE Append(f[s \ {Max(s)}], list[Max(s)])]
           iter == CHOOSE f : Is(f)
<1>1. n \in Nat /\ DOMAIN list = 1..n /\ base \in A /\ \A i \in 1..n : list[i] \in X
  OBVIOUS
<1>2. Distinct(list) = iter[1..n]
  BY <1>1 DEF Distinct, FoldLeft, MapThenFoldSet
<1>3. G \in [1..n -> [A -> A]] /\ \A i \in 1..n, a \in A : G[i][a] = IF Listed(a, list[i]) THEN a ELSE Append(a, list[i])
  BY <1>1
<1> HIDE DEF base, n, A, G
<1>4. \E f : Is(f)
  <2>1. PICK f \in [SUBSET (1..n) -> A] : Solves(f, base, n, G)
    BY <1>1, <1>3, FoldExists
  <2>2. ASSUME NEW s \in SUBSET (1..n)
        PROVE  f[s] = IF s = {} THEN base ELSE IF Listed(f[s \ {Max(s)}], list[Max(s)]) THEN f[s \ {Max(s)}] ELSE Append(f[s \ {Max(s)}], list[Max(s)])
    <3>1. s # {} => f[s \ {Max(s)}] \in A /\ Max(s) \in 1..n
      BY <1>1, <2>1, LastIndex
    <3> QED
      BY <1>3, <2>1, <3>1 DEF Solves
  <2>3. f = [s \in SUBSET (1..n) |-> IF s = {} THEN base ELSE IF Listed(f[s \ {Max(s)}], list[Max(s)]) THEN f[s \ {Max(s)}] ELSE Append(f[s \ {Max(s)}], list[Max(s)])]
    BY <2>2
  <2> QED
    BY <1>1, <2>3
<1>5. Is(iter)
  BY <1>4
<1> HIDE DEF iter
<1>6. SolvesWithin(iter, A, base, n, G)
  <2>1. iter[{}] = base /\ \A s \in SUBSET (1..n) : s # {} => iter[s] = IF Listed(iter[s \ {Max(s)}], list[Max(s)]) THEN iter[s \ {Max(s)}] ELSE Append(iter[s \ {Max(s)}], list[Max(s)])
    BY <1>1, <1>5
  <2>2. \A s \in SUBSET (1..n) : s # {} => Max(s) \in 1..n
    BY <1>1, LastIndex
  <2> QED
    BY <1>3, <2>1, <2>2 DEF SolvesWithin
<1>7. PICK h \in [0..n -> A] : Steps(h, base, n, G, iter[1..n])
  BY <1>1, <1>3, <1>6, FoldValues
<1>8. ASSUME NEW i \in 1..n PROVE h[i] = IF Listed(h[i - 1], list[i]) THEN h[i - 1] ELSE Append(h[i - 1], list[i])
  <2>1. i - 1 \in 0..n
    BY <1>1
  <2> QED
    BY <1>3, <1>7, <2>1 DEF Steps
<1> QED
  BY <1>2, <1>7, <1>8 DEF Steps, base, n, A

\* Pushing elements while there is room, one by one.
LEMMA PushAllSteps ==
  ASSUME NEW X, NEW base \in Seq(X), NEW found \in Seq(X)
  PROVE  \E h \in [0..Len(found) -> Seq(X)] :
           /\ h[0] = base /\ h[Len(found)] = PushAll(base, found)
           /\ \A i \in 1..Len(found) : h[i] = PushTo(h[i - 1], found[i])
<1> DEFINE n == Len(found)
           A == Seq(X)
           G == [i \in 1..n |-> [a \in A |-> PushTo(a, found[i])]]
           Is(f) == f = [s \in SUBSET (DOMAIN found) |->
                           IF s = {} THEN base ELSE PushTo(f[s \ {Max(s)}], found[Max(s)])]
           iter == CHOOSE f : Is(f)
<1>1. n \in Nat /\ DOMAIN found = 1..n /\ base \in A /\ \A i \in 1..n : found[i] \in X
  OBVIOUS
<1>2. PushAll(base, found) = iter[1..n]
  BY <1>1 DEF PushAll, FoldLeft, MapThenFoldSet
<1>3. G \in [1..n -> [A -> A]] /\ \A i \in 1..n, a \in A : G[i][a] = PushTo(a, found[i])
  BY <1>1 DEF PushTo
<1> HIDE DEF n, A, G
<1>4. \E f : Is(f)
  <2>1. PICK f \in [SUBSET (1..n) -> A] : Solves(f, base, n, G)
    BY <1>1, <1>3, FoldExists
  <2>2. ASSUME NEW s \in SUBSET (1..n)
        PROVE  f[s] = IF s = {} THEN base ELSE PushTo(f[s \ {Max(s)}], found[Max(s)])
    <3>1. s # {} => f[s \ {Max(s)}] \in A /\ Max(s) \in 1..n
      BY <1>1, <2>1, LastIndex
    <3> QED
      BY <1>3, <2>1, <3>1 DEF Solves
  <2>3. f = [s \in SUBSET (1..n) |-> IF s = {} THEN base ELSE PushTo(f[s \ {Max(s)}], found[Max(s)])]
    BY <2>2
  <2> QED
    BY <1>1, <2>3
<1>5. Is(iter)
  BY <1>4
<1> HIDE DEF iter
<1>6. SolvesWithin(iter, A, base, n, G)
  <2>1. iter[{}] = base /\ \A s \in SUBSET (1..n) : s # {} => iter[s] = PushTo(iter[s \ {Max(s)}], found[Max(s)])
    BY <1>1, <1>5
  <2>2. \A s \in SUBSET (1..n) : s # {} => Max(s) \in 1..n
    BY <1>1, LastIndex
  <2> QED
    BY <1>3, <2>1, <2>2 DEF SolvesWithin
<1>7. PICK h \in [0..n -> A] : Steps(h, base, n, G, iter[1..n])
  BY <1>1, <1>3, <1>6, FoldValues
<1>8. ASSUME NEW i \in 1..n PROVE h[i] = PushTo(h[i - 1], found[i])
  <2>1. i - 1 \in 0..n
    BY <1>1
  <2> QED
    BY <1>3, <1>7, <2>1 DEF Steps
<1> QED
  BY <1>2, <1>7, <1>8 DEF Steps, n, A

\* Pushing those that are new, one by one.
LEMMA PushAllNewSteps ==
  ASSUME NEW X, NEW base \in Seq(X), NEW found \in Seq(X)
  PROVE  \E h \in [0..Len(found) -> Seq(X)] :
           /\ h[0] = base /\ h[Len(found)] = PushAllNew(base, found)
           /\ \A i \in 1..Len(found) : h[i] = PushNew(h[i - 1], found[i])
<1> DEFINE n == Len(found)
           A == Seq(X)
           G == [i \in 1..n |-> [a \in A |-> PushNew(a, found[i])]]
           Is(f) == f = [s \in SUBSET (DOMAIN found) |->
                           IF s = {} THEN base ELSE PushNew(f[s \ {Max(s)}], found[Max(s)])]
           iter == CHOOSE f : Is(f)
<1>1. n \in Nat /\ DOMAIN found = 1..n /\ base \in A /\ \A i \in 1..n : found[i] \in X
  OBVIOUS
<1>2. PushAllNew(base, found) = iter[1..n]
  BY <1>1 DEF PushAllNew, FoldLeft, MapThenFoldSet
<1>3. G \in [1..n -> [A -> A]] /\ \A i \in 1..n, a \in A : G[i][a] = PushNew(a, found[i])
  BY <1>1 DEF PushNew, PushTo
<1> HIDE DEF n, A, G
<1>4. \E f : Is(f)
  <2>1. PICK f \in [SUBSET (1..n) -> A] : Solves(f, base, n, G)
    BY <1>1, <1>3, FoldExists
  <2>2. ASSUME NEW s \in SUBSET (1..n)
        PROVE  f[s] = IF s = {} THEN base ELSE PushNew(f[s \ {Max(s)}], found[Max(s)])
    <3>1. s # {} => f[s \ {Max(s)}] \in A /\ Max(s) \in 1..n
      BY <1>1, <2>1, LastIndex
    <3> QED
      BY <1>3, <2>1, <3>1 DEF Solves
  <2>3. f = [s \in SUBSET (1..n) |-> IF s = {} THEN base ELSE PushNew(f[s \ {Max(s)}], found[Max(s)])]
    BY <2>2
  <2> QED
    BY <1>1, <2>3
<1>5. Is(iter)
  BY <1>4
<1> HIDE DEF iter
<1>6. SolvesWithin(iter, A, base, n, G)
  <2>1. iter[{}] = base /\ \A s \in SUBSET (1..n) : s # {} => iter[s] = PushNew(iter[s \ {Max(s)}], found[Max(s)])
    BY <1>1, <1>5
  <2>2. \A s \in SUBSET (1..n) : s # {} => Max(s) \in 1..n
    BY <1>1, LastIndex
  <2> QED
    BY <1>3, <2>1, <2>2 DEF SolvesWithin
<1>7. PICK h \in [0..n -> A] : Steps(h, base, n, G, iter[1..n])
  BY <1>1, <1>3, <1>6, FoldValues
<1>8. ASSUME NEW i \in 1..n PROVE h[i] = PushNew(h[i - 1], found[i])
  <2>1. i - 1 \in 0..n
    BY <1>1
  <2> QED
    BY <1>3, <1>7, <2>1 DEF Steps
<1> QED
  BY <1>2, <1>7, <1>8 DEF Steps, n, A

-----------------------------------------------------------------------------
(* What the helpers on lists return. *)

NoRepeats(list) == \A i, j \in 1..Len(list) : list[i] = list[j] => i = j

\* Cutting a list.
LEMMA CutList ==
  ASSUME NEW X, NEW list \in Seq(X)
  PROVE  Cut(list) \in Seq(X) /\ Len(Cut(list)) <= Limit /\ (Len(list) <= Limit => Cut(list) = list)
<1> DEFINE n == IF Len(list) < Limit THEN Len(list) ELSE Limit
<1>1. Limit \in Nat \ {0} /\ Len(list) \in Nat
  BY CodebaseAnalysisAssumption
<1>2. n \in 0..Len(list) /\ n <= Limit /\ Cut(list) = SubSeq(list, 1, n) /\ (Len(list) <= Limit => n = Len(list))
  BY <1>1 DEF Cut
<1> HIDE DEF n
<1>3. /\ SubSeq(list, 1, n) \in Seq(X) /\ Len(SubSeq(list, 1, n)) = n
      /\ \A i \in 1..n : SubSeq(list, 1, n)[i] = list[i]
  BY <1>1, <1>2
<1>4. ASSUME n = Len(list)
      PROVE  SubSeq(list, 1, n) = list
  BY <1>1, <1>3, <1>4
<1> QED
  BY <1>2, <1>3, <1>4

\* What is in a list with one element more.
LEMMA InAppended ==
  ASSUME NEW X, NEW list \in Seq(X), NEW y \in X
  PROVE  Append(list, y) \in Seq(X) /\ \A x : Listed(Append(list, y), x) <=> Listed(list, x) \/ x = y
<1> DEFINE longer == Append(list, y)
<1>1. /\ Len(list) \in Nat /\ longer \in Seq(X) /\ Len(longer) = Len(list) + 1
      /\ longer[Len(list) + 1] = y /\ \A i \in 1..Len(list) : longer[i] = list[i]
  OBVIOUS
<1> HIDE DEF longer
<1>2. 1..Len(longer) = (1..Len(list)) \cup {Len(list) + 1}
  BY <1>1
<1>3. \A x : Listed(longer, x) <=> Listed(list, x) \/ x = y
  BY <1>1, <1>2 DEF Listed
<1> QED
  BY <1>1, <1>3 DEF longer

\* What is in two lists joined.
LEMMA InBoth ==
  ASSUME NEW X, NEW a \in Seq(X), NEW b \in Seq(X)
  PROVE  a \o b \in Seq(X) /\ \A x : Listed(a \o b, x) <=> Listed(a, x) \/ Listed(b, x)
<1> DEFINE joined == a \o b
<1>1. /\ Len(a) \in Nat /\ Len(b) \in Nat /\ joined \in Seq(X) /\ Len(joined) = Len(a) + Len(b)
      /\ \A i \in 1..Len(a) : joined[i] = a[i]
      /\ \A i \in 1..Len(b) : joined[Len(a) + i] = b[i]
  OBVIOUS
<1> HIDE DEF joined
<1>2. ASSUME NEW x
      PROVE  Listed(joined, x) <=> Listed(a, x) \/ Listed(b, x)
  <2>1. ASSUME Listed(joined, x)
        PROVE  Listed(a, x) \/ Listed(b, x)
    <3>1. PICK i \in 1..Len(joined) : joined[i] = x
      BY <2>1 DEF Listed
    <3>2. CASE i \in 1..Len(a)
      BY <1>1, <3>1, <3>2 DEF Listed
    <3>3. CASE i \notin 1..Len(a)
      <4>1. i - Len(a) \in 1..Len(b) /\ Len(a) + (i - Len(a)) = i
        BY <1>1, <3>3
      <4>2. b[i - Len(a)] = x
        BY <1>1, <3>1, <4>1
      <4> QED
        BY <4>1, <4>2 DEF Listed
    <3> QED
      BY <3>2, <3>3
  <2>2. ASSUME Listed(a, x)
        PROVE  Listed(joined, x)
    <3>1. PICK i \in 1..Len(a) : a[i] = x
      BY <2>2 DEF Listed
    <3>2. i \in 1..Len(joined) /\ joined[i] = x
      BY <1>1, <3>1
    <3> QED
      BY <3>2 DEF Listed
  <2>3. ASSUME Listed(b, x)
        PROVE  Listed(joined, x)
    <3>1. PICK i \in 1..Len(b) : b[i] = x
      BY <2>3 DEF Listed
    <3>2. Len(a) + i \in 1..Len(joined) /\ joined[Len(a) + i] = x
      BY <1>1, <3>1
    <3> QED
      BY <3>2 DEF Listed
  <2> QED
    BY <2>1, <2>2, <2>3
<1> QED
  BY <1>1, <1>2 DEF joined

\* Joined lists have the elements of all of them.
LEMMA InJoined ==
  ASSUME NEW X, NEW lists \in Seq(Seq(X))
  PROVE  /\ Joined(lists) \in Seq(X)
         /\ \A x : Listed(Joined(lists), x) => \E i \in 1..Len(lists) : Listed(lists[i], x)
         /\ \A i \in 1..Len(lists) : \A x \in X : Listed(lists[i], x) => Listed(Joined(lists), x)
<1> DEFINE n == Len(lists)
<1>1. n \in Nat /\ \A i \in 1..n : lists[i] \in Seq(X)
  OBVIOUS
<1>2. PICK h \in [0..n -> Seq(X)] : /\ h[0] = <<>> /\ h[n] = Joined(lists)
                                    /\ \A i \in 1..n : h[i] = h[i - 1] \o lists[i]
  BY JoinedSteps
<1> HIDE DEF n
<1>3. \A x : ~Listed(<<>>, x)
  BY DEF Listed
<1>4. ASSUME NEW i \in 1..n
      PROVE  i - 1 \in 0..n /\ \A x : Listed(h[i], x) <=> Listed(h[i - 1], x) \/ Listed(lists[i], x)
  <2>1. i - 1 \in 0..n
    BY <1>1
  <2>2. h[i - 1] \in Seq(X) /\ lists[i] \in Seq(X) /\ h[i] = h[i - 1] \o lists[i]
    BY <1>1, <1>2, <2>1
  <2> QED
    BY <2>1, <2>2, InBoth
<1>5. ASSUME NEW x
      PROVE  /\ Listed(h[n], x) => \E i \in 1..n : Listed(lists[i], x)
             /\ \A i \in 1..n : Listed(lists[i], x) => Listed(h[n], x)
  <2> DEFINE T == {k \in 0..n : /\ Listed(h[k], x) => \E i \in 1..k : Listed(lists[i], x)
                                /\ \A i \in 1..k : Listed(lists[i], x) => Listed(h[k], x)}
  <2>1. 0 \in T
    BY <1>1, <1>2, <1>3
  <2>2. ASSUME NEW k \in 1..n, k - 1 \in T
        PROVE  k \in T
    <3>1. k \in 0..n /\ 1..k = (1..k - 1) \cup {k}
      BY <1>1
    <3>2. Listed(h[k], x) <=> Listed(h[k - 1], x) \/ Listed(lists[k], x)
      BY <1>4
    <3>3. /\ Listed(h[k - 1], x) => \E i \in 1..k - 1 : Listed(lists[i], x)
          /\ \A i \in 1..k - 1 : Listed(lists[i], x) => Listed(h[k - 1], x)
      BY <2>2
    <3> QED
      BY <3>1, <3>2, <3>3
  <2>3. n \in 0..n
    BY <1>1
  <2>4. 0..n \subseteq T
    <3> HIDE DEF T
    <3> QED
      BY <1>1, <2>1, <2>2, HandedOn
  <2> QED
    BY <2>3, <2>4
<1>6. n \in 0..n
  BY <1>1
<1> QED
  BY <1>2, <1>5, <1>6 DEF n

\* A selection has the elements selected, and all of them.
LEMMA InSelection ==
  ASSUME NEW X, NEW list \in Seq(X), NEW kept
  PROVE  /\ Among(list, kept) \in Seq(X)
         /\ \A x : Listed(Among(list, kept), x) => Listed(list, x) /\ x \in kept
         /\ \A x \in kept : Listed(list, x) => Listed(Among(list, kept), x)
<1> DEFINE one == [i \in 1..Len(list) |-> IF list[i] \in kept THEN <<list[i]>> ELSE <<>>]
<1>1. Len(list) \in Nat /\ \A i \in 1..Len(list) : list[i] \in X
  OBVIOUS
<1>2. ASSUME NEW i \in 1..Len(list)
      PROVE  /\ one[i] \in Seq(X)
             /\ \A x : Listed(one[i], x) <=> x = list[i] /\ x \in kept
  <2>1. CASE list[i] \in kept
    <3>1. one[i] = <<list[i]>>
      BY <2>1
    <3>2. <<list[i]>> \in Seq(X) /\ Len(<<list[i]>>) = 1 /\ <<list[i]>>[1] = list[i] /\ 1..1 = {1}
      BY <1>1
    <3> HIDE DEF one
    <3> QED
      BY <2>1, <3>1, <3>2 DEF Listed
  <2>2. CASE list[i] \notin kept
    <3>1. one[i] = <<>>
      BY <2>2
    <3> HIDE DEF one
    <3> QED
      BY <2>2, <3>1 DEF Listed
  <2> QED
    BY <2>1, <2>2
<1>3. one \in Seq(Seq(X)) /\ Len(one) = Len(list) /\ Among(list, kept) = Joined(one)
  BY <1>1, <1>2 DEF Among
<1> HIDE DEF one
<1>4. ASSUME NEW x, Listed(Among(list, kept), x)
      PROVE  Listed(list, x) /\ x \in kept
  <2>1. PICK i \in 1..Len(list) : Listed(one[i], x)
    BY <1>3, <1>4, InJoined
  <2> QED
    BY <1>2, <2>1 DEF Listed
<1>5. ASSUME NEW x \in kept, Listed(list, x)
      PROVE  Listed(Among(list, kept), x)
  <2>1. PICK i \in 1..Len(list) : list[i] = x
    BY <1>5 DEF Listed
  <2>2. Listed(one[i], x) /\ x \in X
    BY <1>1, <1>2, <2>1
  <2> QED
    BY <1>3, <2>2, InJoined
<1>6. Among(list, kept) \in Seq(X)
  BY <1>3, InJoined
<1> QED
  BY <1>4, <1>5, <1>6

\* Dropping repetitions gives a list, and the same one if there are none.
LEMMA DistinctList ==
  ASSUME NEW X, NEW list \in Seq(X)
  PROVE  Distinct(list) \in Seq(X) /\ (NoRepeats(list) => Distinct(list) = list)
<1> DEFINE n == Len(list)
<1>1. n \in Nat /\ n \in 0..n /\ \A i \in 1..n : list[i] \in X
  OBVIOUS
<1>2. PICK h \in [0..n -> Seq(X)] :
        /\ h[0] = <<>> /\ h[n] = Distinct(list)
        /\ \A i \in 1..n : h[i] = IF Listed(h[i - 1], list[i]) THEN h[i - 1] ELSE Append(h[i - 1], list[i])
  BY DistinctSteps
<1>3. ASSUME NoRepeats(list)
      PROVE  Distinct(list) = list
  <2> DEFINE T == {k \in 0..n : Len(h[k]) = k /\ \A i \in 1..k : h[k][i] = list[i]}
  <2>1. 0 \in T
    BY <1>1, <1>2
  <2>2. ASSUME NEW k \in 1..n, k - 1 \in T
        PROVE  k \in T
    <3> DEFINE g == h[k - 1]
               y == list[k]
    <3>1. k \in 0..n /\ k - 1 \in 0..n /\ 1..k = (1..k - 1) \cup {k} /\ k \notin 1..k - 1
      BY <1>1
    <3>2. g \in Seq(X) /\ y \in X /\ Len(g) = k - 1 /\ \A i \in 1..k - 1 : g[i] = list[i]
      BY <1>1, <1>2, <2>2, <3>1
    <3>3. h[k] = IF Listed(g, y) THEN g ELSE Append(g, y)
      BY <1>2
    <3> HIDE DEF g
    <3>4. ~Listed(g, y)
      <4>1. \A i \in 1..k - 1 : i \in 1..n /\ i # k
        BY <1>1
      <4> QED
        BY <1>3, <3>2, <4>1 DEF Listed, NoRepeats
    <3> HIDE DEF y
    <3>5. Len(h[k]) = k /\ h[k][k] = y /\ \A i \in 1..k - 1 : h[k][i] = g[i]
      BY <3>1, <3>2, <3>3, <3>4
    <3> QED
      BY <3>1, <3>2, <3>5 DEF y
  <2>3. n \in T
    <3> HIDE DEF T
    <3>1. 0..n \subseteq T
      BY <1>1, <2>1, <2>2, HandedOn
    <3> QED
      BY <1>1, <3>1
  <2>4. h[n] \in Seq(X) /\ Len(h[n]) = n /\ \A i \in 1..n : h[n][i] = list[i]
    BY <1>1, <1>2, <2>3
  <2> QED
    BY <1>2, <2>4
<1> QED
  BY <1>1, <1>2, <1>3

\* Pushing elements gives a list.
LEMMA PushedList ==
  ASSUME NEW X, NEW base \in Seq(X), NEW found \in Seq(X)
  PROVE  PushAll(base, found) \in Seq(X) /\ PushAllNew(base, found) \in Seq(X)
<1>1. Len(found) \in 0..Len(found)
  OBVIOUS
<1>2. PICK h \in [0..Len(found) -> Seq(X)] : h[Len(found)] = PushAll(base, found)
  BY PushAllSteps
<1>3. PICK g \in [0..Len(found) -> Seq(X)] : g[Len(found)] = PushAllNew(base, found)
  BY PushAllNewSteps
<1>4. h[Len(found)] \in Seq(X) /\ g[Len(found)] \in Seq(X)
  BY <1>1
<1> QED
  BY <1>2, <1>3, <1>4

\* New elements pushed to nothing: none twice, no more than there is room for, and all of
\* them unless the list is full.
LEMMA PushedNew ==
  ASSUME NEW X, NEW found \in Seq(X)
  PROVE  LET list == PushAllNew(<<>>, found)
         IN /\ list \in Seq(X) /\ NoRepeats(list) /\ Len(list) <= Limit
            /\ Len(list) = Limit \/ \A i \in 1..Len(found) : Listed(list, found[i])
<1> DEFINE n == Len(found)
           Full(list, k) == Len(list) = Limit \/ \A i \in 1..k : Listed(list, found[i])
<1>1. n \in Nat /\ n \in 0..n /\ Limit \in Nat \ {0} /\ <<>> \in Seq(X) /\ \A i \in 1..n : found[i] \in X
  BY CodebaseAnalysisAssumption
<1>2. PICK h \in [0..n -> Seq(X)] : /\ h[0] = <<>> /\ h[n] = PushAllNew(<<>>, found)
                                    /\ \A i \in 1..n : h[i] = PushNew(h[i - 1], found[i])
  BY <1>1, PushAllNewSteps
<1> DEFINE T == {k \in 0..n : NoRepeats(h[k]) /\ Len(h[k]) <= Limit /\ Full(h[k], k)}
<1>3. 0 \in T
  <2>1. 0 \in 0..n /\ Len(h[0]) = 0 /\ 1..0 = {}
    BY <1>1, <1>2
  <2> QED
    BY <1>1, <2>1 DEF NoRepeats
<1>4. ASSUME NEW k \in 1..n, k - 1 \in T
      PROVE  k \in T
  <2> DEFINE g == h[k - 1]
             y == found[k]
  <2>1. k \in 0..n /\ k - 1 \in 0..n /\ 1..k = (1..k - 1) \cup {k}
    BY <1>1
  <2>2. g \in Seq(X) /\ Len(g) \in Nat /\ y \in X /\ NoRepeats(g) /\ Len(g) <= Limit /\ Full(g, k - 1)
    BY <1>1, <1>2, <1>4, <2>1
  <2>3. h[k] = PushNew(g, y)
    BY <1>2
  <2> HIDE DEF g
  <2>4. CASE Listed(g, y)
    <3>1. h[k] = g
      BY <2>3, <2>4 DEF PushNew
    <3>2. Full(g, k)
      BY <2>1, <2>2, <2>4
    <3> HIDE DEF Full
    <3> QED
      BY <2>1, <2>2, <3>1, <3>2
  <2>5. CASE ~Listed(g, y) /\ Len(g) < Limit
    <3> DEFINE longer == Append(g, y)
    <3>1. h[k] = longer
      BY <2>3, <2>5 DEF PushNew, PushTo
    <3> HIDE DEF y
    <3>2. /\ longer \in Seq(X) /\ Len(longer) = Len(g) + 1 /\ longer[Len(g) + 1] = y
          /\ \A i \in 1..Len(g) : longer[i] = g[i]
      BY <2>2
    <3>3. \A x : Listed(longer, x) <=> Listed(g, x) \/ x = y
      BY <2>2, InAppended
    <3> HIDE DEF longer
    <3>4. NoRepeats(longer)
      <4>1. \A i \in 1..Len(longer) : i \in 1..Len(g) \/ i = Len(g) + 1
        BY <2>2, <3>2
      <4>2. \A i \in 1..Len(g) : longer[i] # y
        BY <2>5, <3>2 DEF Listed
      <4> QED
        BY <2>2, <3>2, <4>1, <4>2 DEF NoRepeats
    <3>5. Len(longer) <= Limit
      BY <1>1, <2>2, <2>5, <3>2
    <3>6. Full(longer, k)
      BY <2>1, <2>2, <2>5, <3>3 DEF y
    <3> HIDE DEF Full
    <3> QED
      BY <2>1, <3>1, <3>4, <3>5, <3>6
  <2>6. CASE ~Listed(g, y) /\ ~(Len(g) < Limit)
    <3>1. h[k] = g
      BY <2>3, <2>6 DEF PushNew, PushTo
    <3>2. Len(g) = Limit
      BY <1>1, <2>2, <2>6
    <3> QED
      BY <2>1, <2>2, <3>1, <3>2
  <2> QED
    BY <2>4, <2>5, <2>6
<1>5. n \in T
  <2> HIDE DEF T
  <2>1. 0..n \subseteq T
    BY <1>1, <1>3, <1>4, HandedOn
  <2> QED
    BY <1>1, <2>1
<1> QED
  BY <1>1, <1>2, <1>5

\* What is collected from lists is a list.
LEMMA CollectedList ==
  ASSUME NEW X, NEW found \in Seq(Seq(X))
  PROVE  Collect(found) \in Seq(X) /\ CollectNew(found) \in Seq(X)
<1>1. Joined(found) \in Seq(X) /\ <<>> \in Seq(X)
  BY InJoined
<1> QED
  BY <1>1, PushedList DEF Collect, CollectNew

\* Collecting routes, file by file.
LEMMA RoutesSteps ==
  ASSUME NEW found \in Seq(IndexedFile)
  PROVE  \E h \in [0..Len(found) -> Seq(STRING)] :
           /\ h[0] = <<>> /\ h[Len(found)] = FoldLeft(PushRoutes, <<>>, found)
           /\ \A i \in 1..Len(found) : h[i] = PushRoutes(h[i - 1], found[i])
<1> DEFINE base == <<>>
           n == Len(found)
           A == Seq(STRING)
           G == [i \in 1..n |-> [a \in A |-> PushRoutes(a, found[i])]]
           Is(f) == f = [s \in SUBSET (DOMAIN found) |->
                           IF s = {} THEN base ELSE PushRoutes(f[s \ {Max(s)}], found[Max(s)])]
           iter == CHOOSE f : Is(f)
<1>1. n \in Nat /\ DOMAIN found = 1..n /\ base \in A /\ \A i \in 1..n : found[i] \in IndexedFile
  OBVIOUS
<1>2. FoldLeft(PushRoutes, <<>>, found) = iter[1..n]
  BY <1>1 DEF FoldLeft, MapThenFoldSet
<1>3. G \in [1..n -> [A -> A]] /\ \A i \in 1..n, a \in A : G[i][a] = PushRoutes(a, found[i])
  <2>1. ASSUME NEW i \in 1..n, NEW a \in A
        PROVE  PushRoutes(a, found[i]) \in A
    <3> DEFINE file == found[i]
    <3>1. file \in IndexedFile
      BY <1>1
    <3>2. file.routes \in Seq(STRING) /\ file.express \in Seq(STRING)
      BY <3>1 DEF IndexedFile
    <3> HIDE DEF file
    <3>3. PushAllNew(PushAll(a, file.routes), file.express) \in A
      BY <3>2, PushedList
    <3> QED
      BY <3>3 DEF PushRoutes, file
  <2> QED
    BY <2>1
<1> HIDE DEF base, n, A, G
<1>4. \E f : Is(f)
  <2>1. PICK f \in [SUBSET (1..n) -> A] : Solves(f, base, n, G)
    BY <1>1, <1>3, FoldExists
  <2>2. ASSUME NEW s \in SUBSET (1..n)
        PROVE  f[s] = IF s = {} THEN base ELSE PushRoutes(f[s \ {Max(s)}], found[Max(s)])
    <3>1. s # {} => f[s \ {Max(s)}] \in A /\ Max(s) \in 1..n
      BY <1>1, <2>1, LastIndex
    <3> QED
      BY <1>3, <2>1, <3>1 DEF Solves
  <2>3. f = [s \in SUBSET (1..n) |-> IF s = {} THEN base ELSE PushRoutes(f[s \ {Max(s)}], found[Max(s)])]
    BY <2>2
  <2> QED
    BY <1>1, <2>3
<1>5. Is(iter)
  BY <1>4
<1> HIDE DEF iter
<1>6. SolvesWithin(iter, A, base, n, G)
  <2>1. iter[{}] = base /\ \A s \in SUBSET (1..n) : s # {} => iter[s] = PushRoutes(iter[s \ {Max(s)}], found[Max(s)])
    BY <1>1, <1>5
  <2>2. \A s \in SUBSET (1..n) : s # {} => Max(s) \in 1..n
    BY <1>1, LastIndex
  <2> QED
    BY <1>3, <2>1, <2>2 DEF SolvesWithin
<1>7. PICK h \in [0..n -> A] : Steps(h, base, n, G, iter[1..n])
  BY <1>1, <1>3, <1>6, FoldValues
<1>8. ASSUME NEW i \in 1..n PROVE h[i] = PushRoutes(h[i - 1], found[i])
  <2>1. i - 1 \in 0..n
    BY <1>1
  <2> QED
    BY <1>3, <1>7, <2>1 DEF Steps
<1> QED
  BY <1>2, <1>7, <1>8 DEF Steps, base, n, A

\* The endpoints of some files are a list.
LEMMA RoutesList ==
  ASSUME NEW found \in Seq(IndexedFile)
  PROVE  FoldLeft(PushRoutes, <<>>, found) \in Seq(STRING)
<1>1. Len(found) \in 0..Len(found)
  OBVIOUS
<1>2. PICK h \in [0..Len(found) -> Seq(STRING)] : h[Len(found)] = FoldLeft(PushRoutes, <<>>, found)
  BY RoutesSteps
<1>3. h[Len(found)] \in Seq(STRING)
  BY <1>1
<1> QED
  BY <1>2, <1>3

-----------------------------------------------------------------------------
(* What each analyzer delivers. *)

TypeScriptFields == {"entryPoints", "apiEndpoints", "services", "totalSourceFiles", "serviceCount"}
DependencyFields ==
  {"production", "development", "frameworks", "databases", "database", "technologies"}
ArchitectureFields ==
  {"importantDirectories", "configurationFiles", "importantFiles", "modules", "moduleStructure", "style"}

\* A file of an index.
LEMMA FileFields ==
  ASSUME NEW file \in IndexedFile
  PROVE  /\ file.path \in STRING /\ file.directories \in Seq(STRING) /\ file.services \in Seq(STRING)
         /\ file.routes \in Seq(STRING) /\ file.express \in Seq(STRING) /\ file.peer \in Seq(STRING)
         /\ file.production \in Seq(STRING) /\ file.development \in Seq(STRING)
BY DEF IndexedFile

\* Lists of no and of one element.
LEMMA SmallLists ==
  ASSUME NEW X
  PROVE  <<>> \in Seq(X) /\ \A x \in X : <<x>> \in Seq(X)
OBVIOUS

\* A list given by its elements.
LEMMA ListOf ==
  ASSUME NEW X, NEW n \in Nat, NEW f \in [1..n -> X]
  PROVE  f \in Seq(X)
OBVIOUS

\* The TypeScript analyzer.
LEMMA TypeScriptDelivers ==
  ASSUME NEW index \in Seq(IndexedFile)
  PROVE  LET partial == TypeScriptAnalysis(index)
         IN /\ DOMAIN partial = TypeScriptFields
            /\ \A field \in TypeScriptFields \cap Lists : partial[field] \in Seq(STRING)
<1> DEFINE found == Sources(index)
           Entry == [i \in DOMAIN found |-> IF found[i].entry THEN <<found[i].path>> ELSE <<>>]
           Service == [i \in DOMAIN found |-> IF found[i].read THEN found[i].services ELSE <<>>]
           services == Collect(Service)
<1>1. found \in Seq(IndexedFile)
  BY InSelection DEF Sources
<1> HIDE DEF found
<1>2. Len(found) \in Nat /\ DOMAIN found = 1..Len(found) /\ \A i \in 1..Len(found) : found[i] \in IndexedFile
  BY <1>1
<1>3. \A i \in 1..Len(found) : found[i].path \in STRING /\ found[i].services \in Seq(STRING)
  BY <1>2, FileFields
<1>4. Entry \in Seq(Seq(STRING)) /\ Service \in Seq(Seq(STRING))
  <2>1. ASSUME NEW i \in 1..Len(found)
        PROVE  Entry[i] \in Seq(STRING) /\ Service[i] \in Seq(STRING)
    <3>1. <<>> \in Seq(STRING) /\ <<found[i].path>> \in Seq(STRING) /\ found[i].services \in Seq(STRING)
      BY <1>3, SmallLists
    <3>2. /\ Entry[i] = IF found[i].entry THEN <<found[i].path>> ELSE <<>>
          /\ Service[i] = IF found[i].read THEN found[i].services ELSE <<>>
      BY <1>2
    <3> HIDE DEF Entry, Service
    <3> QED
      BY <3>1, <3>2
  <2>2. DOMAIN Entry = 1..Len(found) /\ DOMAIN Service = 1..Len(found)
    BY <1>2
  <2>3. Entry = [i \in 1..Len(found) |-> Entry[i]] /\ Service = [i \in 1..Len(found) |-> Service[i]]
    BY <1>2
  <2> HIDE DEF Entry, Service
  <2>4. Entry \in [1..Len(found) -> Seq(STRING)] /\ Service \in [1..Len(found) -> Seq(STRING)]
    BY <2>1, <2>3
  <2> QED
    BY <1>2, <2>4, ListOf
<1>5. TypeScriptAnalysis(index) =
        [entryPoints |-> Collect(Entry), apiEndpoints |-> FoldLeft(PushRoutes, <<>>, found),
         services |-> services, totalSourceFiles |-> Len(found), serviceCount |-> Len(services)]
  BY DEF TypeScriptAnalysis, found
<1> DEFINE routes == FoldLeft(PushRoutes, <<>>, found)
<1>6. Collect(Entry) \in Seq(STRING) /\ services \in Seq(STRING) /\ routes \in Seq(STRING)
  <2> HIDE DEF Entry, Service
  <2> QED
    BY <1>1, <1>4, CollectedList, RoutesList
<1> DEFINE entries == Collect(Entry)
           counted == Len(found)
           served == Len(services)
<1> HIDE DEF entries, services, routes, counted, served
<1>7. TypeScriptAnalysis(index) =
        [entryPoints |-> entries, apiEndpoints |-> routes,
         services |-> services, totalSourceFiles |-> counted, serviceCount |-> served]
  BY <1>5 DEF entries, services, routes, counted, served
<1>8. entries \in Seq(STRING) /\ services \in Seq(STRING) /\ routes \in Seq(STRING)
  BY <1>6 DEF entries
<1> QED
  BY <1>7, <1>8 DEF TypeScriptFields, Lists

\* The package.json of a repository that has one.
LEMMA PackageIsIndexed ==
  ASSUME NEW index \in Seq(IndexedFile), \E i \in 1..Len(index) : index[i].path = "package.json"
  PROVE  Package(index) \in IndexedFile /\ Package(index).path = "package.json"
         /\ \E i \in 1..Len(index) : index[i] = Package(index)
<1>1. DOMAIN index = 1..Len(index) /\ \A i \in 1..Len(index) : index[i] \in IndexedFile
  OBVIOUS
<1>2. \E file \in ToSet(index) : file.path = "package.json"
  BY <1>1 DEF ToSet
<1>3. Package(index) \in ToSet(index) /\ Package(index).path = "package.json"
  BY <1>2 DEF Package
<1> QED
  BY <1>1, <1>3 DEF ToSet

\* The dependency analyzer.
LEMMA DependencyDelivers ==
  ASSUME NEW index \in Seq(IndexedFile), \E i \in 1..Len(index) : index[i].path = "package.json"
  PROVE  LET partial == DependencyAnalysis(index)
         IN /\ DOMAIN partial = DependencyFields
            /\ \A field \in DependencyFields \cap Lists : partial[field] \in Seq(STRING)
<1> DEFINE production == IF Package(index).read THEN Package(index).production ELSE <<>>
           development == IF Package(index).read THEN Package(index).development ELSE <<>>
           all == production \o development
           p == PushAll(<<>>, production)
           d == PushAll(<<>>, development)
           frameworks == PushAllNew(<<>>, Among(all, Framework))
           databases == PushAllNew(<<>>, Among(all, Database))
           technologies == Cut(Distinct(Among(all, Framework \cup Database)))
<1>1. production \in Seq(STRING) /\ development \in Seq(STRING)
  <2>1. Package(index).production \in Seq(STRING) /\ Package(index).development \in Seq(STRING)
    BY PackageIsIndexed, FileFields
  <2> QED
    BY <2>1, SmallLists
<1>2. DependencyAnalysis(index) =
        [production |-> p, development |-> d, frameworks |-> frameworks, databases |-> databases,
         database |-> databases, technologies |-> technologies]
  BY DEF DependencyAnalysis
<1> HIDE DEF production, development
<1>3. all \in Seq(STRING) /\ <<>> \in Seq(STRING)
  BY <1>1
<1> HIDE DEF all
<1>4. \A kept : Among(all, kept) \in Seq(STRING)
  BY <1>3, InSelection
<1>5. p \in Seq(STRING) /\ d \in Seq(STRING) /\ frameworks \in Seq(STRING) /\ databases \in Seq(STRING)
  BY <1>1, <1>3, <1>4, PushedList
<1>6. technologies \in Seq(STRING)
  BY <1>4, DistinctList, CutList
<1> HIDE DEF p, d, frameworks, databases, technologies
<1> QED
  BY <1>2, <1>5, <1>6 DEF DependencyFields, Lists

\* The architecture analyzer.
LEMMA ArchitectureDelivers ==
  ASSUME NEW index \in Seq(IndexedFile)
  PROVE  LET partial == ArchitectureAnalysis(index)
         IN /\ DOMAIN partial = ArchitectureFields
            /\ \A field \in ArchitectureFields \cap Lists : partial[field] \in Seq(STRING)
<1> DEFINE holding == [i \in DOMAIN index |-> index[i].directories]
           directories == Cut(Distinct(Joined(holding)))
           Configuration(file) == IF file.configuration THEN <<file.path>> ELSE <<>>
           Important(file) == IF file.configuration \/ file.entry THEN <<file.path>> ELSE <<>>
           configuring == [i \in DOMAIN index |-> Configuration(index[i])]
           mattering == [i \in DOMAIN index |-> Important(index[i])]
           modules == Among(directories, ModuleDirectory)
           structure == Among(directories, ModuleDirectory \cup TopDirectory)
           configurations == Collect(configuring)
           important == CollectNew(mattering)
           shown == Cut(modules)
           style == IF modules # <<>> THEN "modular" ELSE "standard"
<1>1. Len(index) \in Nat /\ DOMAIN index = 1..Len(index) /\ \A i \in 1..Len(index) : index[i] \in IndexedFile
  OBVIOUS
<1>2. \A i \in 1..Len(index) : index[i].path \in STRING /\ index[i].directories \in Seq(STRING)
  BY <1>1, FileFields
<1>3. /\ holding \in [1..Len(index) -> Seq(STRING)] /\ configuring \in [1..Len(index) -> Seq(STRING)]
      /\ mattering \in [1..Len(index) -> Seq(STRING)]
  <2>1. \A i \in 1..Len(index) : /\ index[i].directories \in Seq(STRING)
                                 /\ Configuration(index[i]) \in Seq(STRING)
                                 /\ Important(index[i]) \in Seq(STRING)
    <3> TAKE i \in 1..Len(index)
    <3>1. <<>> \in Seq(STRING) /\ <<index[i].path>> \in Seq(STRING)
      BY <1>2, SmallLists
    <3> QED
      BY <1>2, <3>1
  <2> HIDE DEF Configuration, Important
  <2> QED
    BY <1>1, <2>1
<1>4. ArchitectureAnalysis(index) =
        [importantDirectories |-> directories, configurationFiles |-> configurations,
         importantFiles |-> important, modules |-> shown, moduleStructure |-> structure, style |-> style]
  BY DEF ArchitectureAnalysis
<1> HIDE DEF holding, configuring, mattering
<1>5. holding \in Seq(Seq(STRING)) /\ configuring \in Seq(Seq(STRING)) /\ mattering \in Seq(Seq(STRING))
  BY <1>1, <1>3, ListOf
<1>6. directories \in Seq(STRING)
  BY <1>5, InJoined, DistinctList, CutList
<1> HIDE DEF directories
<1>7. configurations \in Seq(STRING) /\ important \in Seq(STRING)
  BY <1>5, CollectedList
<1>8. modules \in Seq(STRING) /\ structure \in Seq(STRING)
  BY <1>6, InSelection
<1>9. shown \in Seq(STRING)
  <2> HIDE DEF modules
  <2> QED
    BY <1>8, CutList
<1> HIDE DEF configurations, important, structure, shown, style
<1> QED
  BY <1>4, <1>6, <1>7, <1>8, <1>9 DEF ArchitectureFields, Lists

-----------------------------------------------------------------------------
(* What the analyzers that do not fail make of a repository. *)

Fields(analyzer) ==
  CASE analyzer = "typescript" -> TypeScriptFields
    [] analyzer = "dependency" -> DependencyFields
    [] OTHER -> ArchitectureFields

\* What a merge makes of a field that is not there yet.
Contribution(partial, field) ==
  CASE field \in Lists -> Distinct(<<>> \o partial[field])
    [] field \in Counts -> Max({0, partial[field]})
    [] OTHER -> partial[field]

Works(analyzer, index, failing) == Supports(analyzer, index) /\ analyzer \notin failing

\* merged holds the contributions of those among done that work, and nothing else.
HoldsWork(merged, done, index, failing) ==
  /\ \A analyzer \in done : Works(analyzer, index, failing) =>
       \A field \in Fields(analyzer) :
         field \in DOMAIN merged /\ merged[field] = Contribution(Partial(analyzer, index), field)
  /\ \A field \in DOMAIN merged : \E analyzer \in done :
       Works(analyzer, index, failing) /\ field \in Fields(analyzer)

\* No list is a count.
LEMMA ListsAndCounts == Lists \cap Counts = {}
BY DEF Lists, Counts

\* There are three analyzers, and no two of them deliver the same field.
LEMMA ThreeAnalyzers ==
  /\ Analyzer = {"typescript", "dependency", "architecture"}
  /\ AnalyzerOrder[1] = "typescript" /\ AnalyzerOrder[2] = "dependency" /\ AnalyzerOrder[3] = "architecture"
<1>1. Len(AnalyzerOrder) = 3 /\ 1..3 = {1, 2, 3}
  BY DEF AnalyzerOrder
<1>2. AnalyzerOrder[1] = "typescript" /\ AnalyzerOrder[2] = "dependency" /\ AnalyzerOrder[3] = "architecture"
  BY DEF AnalyzerOrder
<1> QED
  BY <1>1, <1>2 DEF Analyzer

\* What one analyzer delivers.
LEMMA Delivered ==
  ASSUME NEW index \in Seq(IndexedFile), NEW analyzer \in Analyzer, Supports(analyzer, index)
  PROVE  /\ DOMAIN Partial(analyzer, index) = Fields(analyzer)
         /\ \A field \in Fields(analyzer) \cap Lists : Partial(analyzer, index)[field] \in Seq(STRING)
<1>1. CASE analyzer = "typescript"
  BY <1>1, TypeScriptDelivers DEF Partial, Fields
<1>2. CASE analyzer = "dependency"
  <2>1. \E i \in 1..Len(index) : index[i].path = "package.json"
    BY <1>2 DEF Supports
  <2> QED
    BY <1>2, <2>1, DependencyDelivers DEF Partial, Fields
<1>3. CASE analyzer = "architecture"
  BY <1>3, ArchitectureDelivers DEF Partial, Fields
<1> QED
  BY <1>1, <1>2, <1>3, ThreeAnalyzers

\* Merging what has no field in common.
LEMMA MergedApart ==
  ASSUME NEW target, NEW source, DOMAIN target \cap DOMAIN source = {}
  PROVE  LET merged == MergePartialAnalysis(target, source)
         IN /\ DOMAIN merged = DOMAIN target \cup DOMAIN source
            /\ \A field \in DOMAIN target : merged[field] = target[field]
            /\ \A field \in DOMAIN source : merged[field] = Contribution(source, field)
<1> DEFINE merged == MergePartialAnalysis(target, source)
<1>1. DOMAIN merged = DOMAIN target \cup DOMAIN source
  BY DEF MergePartialAnalysis
<1>2. ASSUME NEW field \in DOMAIN target
      PROVE  merged[field] = target[field]
  BY <1>2 DEF MergePartialAnalysis
<1>3. ASSUME NEW field \in DOMAIN source
      PROVE  merged[field] = Contribution(source, field)
  <2>1. Of(target, field, <<>>) = <<>> /\ Of(target, field, 0) = 0
    BY <1>3 DEF Of
  <2>2. merged[field] =
          CASE field \in Lists -> Distinct(Of(target, field, <<>>) \o source[field])
            [] field \in Counts -> Max({Of(target, field, 0), source[field]})
            [] OTHER -> source[field]
    BY <1>3, ListsAndCounts DEF MergePartialAnalysis
  <2> QED
    BY <2>1, <2>2 DEF Contribution
<1> QED
  BY <1>1, <1>2, <1>3

\* One analyzer more.
LEMMA OneMore ==
  ASSUME NEW index \in Seq(IndexedFile), NEW failing, NEW target, NEW done \in SUBSET Analyzer,
         NEW analyzer \in Analyzer, analyzer \notin done, HoldsWork(target, done, index, failing)
  PROVE  HoldsWork(IF Works(analyzer, index, failing)
                     THEN MergePartialAnalysis(target, Partial(analyzer, index)) ELSE target,
                   done \cup {analyzer}, index, failing)
<1>1. CASE ~Works(analyzer, index, failing)
  BY <1>1 DEF HoldsWork
<1>2. CASE Works(analyzer, index, failing)
  <2> DEFINE source == Partial(analyzer, index)
             merged == MergePartialAnalysis(target, source)
  <2>1. DOMAIN source = Fields(analyzer)
    BY <1>2, Delivered DEF Works
  <2>2. \A other \in done : Fields(other) \cap Fields(analyzer) = {}
    BY ThreeAnalyzers DEF Fields, TypeScriptFields, DependencyFields, ArchitectureFields
  <2>3. DOMAIN target \cap DOMAIN source = {}
    BY <2>1, <2>2 DEF HoldsWork
  <2>4. /\ DOMAIN merged = DOMAIN target \cup Fields(analyzer)
        /\ \A field \in DOMAIN target : merged[field] = target[field]
        /\ \A field \in Fields(analyzer) : merged[field] = Contribution(source, field)
    <3> HIDE DEF source
    <3>1. /\ DOMAIN merged = DOMAIN target \cup DOMAIN source
          /\ \A field \in DOMAIN target : merged[field] = target[field]
          /\ \A field \in DOMAIN source : merged[field] = Contribution(source, field)
      BY <2>3, MergedApart
    <3> HIDE DEF merged
    <3> QED
      BY <2>1, <3>1
  <2> HIDE DEF merged
  <2>5. HoldsWork(merged, done \cup {analyzer}, index, failing)
    BY <1>2, <2>4 DEF HoldsWork
  <2> QED
    BY <1>2, <2>5 DEF merged
<1> QED
  BY <1>1, <1>2

\* What is merged in the end.
LEMMA WorkIsMerged ==
  ASSUME NEW index \in Seq(IndexedFile), NEW failing
  PROVE  \E merged : /\ AnalyzeRepository(index, failing) = FinalizeAndEnforceLimits(merged, index)
                     /\ HoldsWork(merged, Analyzer, index, failing)
<1> DEFINE Step(merged, analyzer) ==
             IF Works(analyzer, index, failing)
               THEN MergePartialAnalysis(merged, Partial(analyzer, index)) ELSE merged
           one == Step(Nothing, "typescript")
           two == Step(one, "dependency")
           three == Step(two, "architecture")
<1>1. AnalyzeRepository(index, failing) = FinalizeAndEnforceLimits(three, index)
  <2> DEFINE contributing == {analyzer \in Analyzer : Supports(analyzer, index) /\ analyzer \notin failing}
  <2>1. AnalyzeRepository(index, failing) =
          FinalizeAndEnforceLimits(MergedFrom(index, contributing), index)
    BY DEF AnalyzeRepository
  <2>2. \A analyzer \in Analyzer : analyzer \in contributing <=> Works(analyzer, index, failing)
    BY DEF Works
  <2> HIDE DEF contributing
  <2>3. MergedFrom(index, contributing) = three
    BY <2>2, ThreeAnalyzers DEF MergedFrom
  <2> QED
    BY <2>1, <2>3
<1>2. HoldsWork(Nothing, {}, index, failing)
  BY DEF HoldsWork, Nothing
<1>3. HoldsWork(one, {"typescript"}, index, failing)
  <2>1. HoldsWork(one, {} \cup {"typescript"}, index, failing)
    BY <1>2, OneMore, ThreeAnalyzers
  <2> QED
    BY <2>1
<1> HIDE DEF one
<1>4. HoldsWork(two, {"typescript", "dependency"}, index, failing)
  <2>1. HoldsWork(two, {"typescript"} \cup {"dependency"}, index, failing)
    BY <1>3, OneMore, ThreeAnalyzers
  <2>2. {"typescript"} \cup {"dependency"} = {"typescript", "dependency"}
    OBVIOUS
  <2> HIDE DEF two
  <2> QED
    BY <2>1, <2>2
<1> HIDE DEF two
<1>5. HoldsWork(three, Analyzer, index, failing)
  <2>1. HoldsWork(three, {"typescript", "dependency"} \cup {"architecture"}, index, failing)
    BY <1>4, OneMore, ThreeAnalyzers
  <2>2. {"typescript", "dependency"} \cup {"architecture"} = Analyzer
    BY ThreeAnalyzers
  <2> HIDE DEF three
  <2> QED
    BY <2>1, <2>2
<1> QED
  BY <1>1, <1>5

\* What an analyzer that works contributes is in the result.
LEMMA ResultOf ==
  ASSUME NEW index \in Seq(IndexedFile), NEW failing, NEW analyzer \in Analyzer,
         Works(analyzer, index, failing), NEW field \in Fields(analyzer)
  PROVE  AnalyzeRepository(index, failing)[field] =
           IF field \in Lists THEN Cut(Contribution(Partial(analyzer, index), field))
                              ELSE Contribution(Partial(analyzer, index), field)
<1>1. PICK merged : /\ AnalyzeRepository(index, failing) = FinalizeAndEnforceLimits(merged, index)
                    /\ HoldsWork(merged, Analyzer, index, failing)
  BY WorkIsMerged
<1>2. field \in DOMAIN merged /\ merged[field] = Contribution(Partial(analyzer, index), field)
  BY <1>1 DEF HoldsWork
<1>3. \A default : Of(merged, field, default) = Contribution(Partial(analyzer, index), field)
  BY <1>2 DEF Of
<1>4. field \in Lists \cup {"totalSourceFiles", "serviceCount", "style"}
  BY ThreeAnalyzers DEF Fields, TypeScriptFields, DependencyFields, ArchitectureFields, Lists
<1>5. CASE field \in Lists
  <2>1. field \notin {"totalSourceFiles", "serviceCount", "moduleCount"}
    BY <1>5 DEF Lists
  <2> QED
    BY <1>1, <1>3, <1>5, <2>1 DEF FinalizeAndEnforceLimits
<1>6. CASE field \in {"totalSourceFiles", "serviceCount", "style"}
  <2>1. field \notin Lists /\ field \in Lists \cup Counts \cup {"moduleCount", "style"} /\ field # "moduleCount"
    BY <1>6 DEF Lists, Counts
  <2> QED
    BY <1>1, <1>3, <1>6, <2>1 DEF FinalizeAndEnforceLimits
<1> QED
  BY <1>4, <1>5, <1>6

\* No list is longer than the limit.
LEMMA ListsAreLimited ==
  ASSUME NEW index \in Seq(IndexedFile), NEW failing, NEW field \in Lists
  PROVE  Len(AnalyzeRepository(index, failing)[field]) <= Limit
<1>1. PICK merged : /\ AnalyzeRepository(index, failing) = FinalizeAndEnforceLimits(merged, index)
                    /\ HoldsWork(merged, Analyzer, index, failing)
  BY WorkIsMerged
<1>2. AnalyzeRepository(index, failing)[field] = Cut(Of(merged, field, <<>>))
  <2>1. field \notin {"totalSourceFiles", "serviceCount", "moduleCount"}
    BY DEF Lists
  <2> QED
    BY <1>1, <2>1 DEF FinalizeAndEnforceLimits
<1>3. Of(merged, field, <<>>) \in Seq(STRING)
  <2>1. CASE field \notin DOMAIN merged
    BY <2>1, SmallLists DEF Of
  <2>2. CASE field \in DOMAIN merged
    <3>1. PICK analyzer \in Analyzer : Works(analyzer, index, failing) /\ field \in Fields(analyzer)
      BY <1>1, <2>2 DEF HoldsWork
    <3> DEFINE partial == Partial(analyzer, index)
    <3>2. partial[field] \in Seq(STRING)
      BY <3>1, Delivered DEF Works
    <3>3. Of(merged, field, <<>>) = Contribution(partial, field)
      BY <1>1, <2>2, <3>1 DEF HoldsWork, Of
    <3> HIDE DEF partial
    <3>4. Contribution(partial, field) = Distinct(<<>> \o partial[field])
      BY ListsAndCounts DEF Contribution
    <3>5. <<>> \o partial[field] \in Seq(STRING)
      BY <3>2
    <3> QED
      BY <3>3, <3>4, <3>5, DistinctList
  <2> QED
    BY <2>1, <2>2
<1> QED
  BY <1>2, <1>3, CutList

\* The frameworks of the dependency analyzer reach the result as they are: all that
\* package.json names, unless the list is full.
LEMMA FrameworksAreKnown ==
  ASSUME NEW index \in Seq(IndexedFile), NEW failing, Works("dependency", index, failing),
         NEW name \in Framework, Package(index).read,
         Listed(Package(index).production, name) \/ Listed(Package(index).development, name)
  PROVE  KnownTo(AnalyzeRepository(index, failing), name)
<1> DEFINE production == Package(index).production
           development == Package(index).development
           all == production \o development
           named == Among(all, Framework)
           list == PushAllNew(<<>>, named)
           partial == Partial("dependency", index)
           result == AnalyzeRepository(index, failing)
<1>1. "dependency" \in Analyzer /\ "frameworks" \in Fields("dependency") /\ "frameworks" \in Lists
  BY ThreeAnalyzers DEF Fields, DependencyFields, Lists
<1>2. production \in Seq(STRING) /\ development \in Seq(STRING)
  <2>1. \E i \in 1..Len(index) : index[i].path = "package.json"
    BY DEF Works, Supports
  <2> QED
    BY <2>1, PackageIsIndexed, FileFields
<1>3. partial["frameworks"] = list
  BY DEF Partial, DependencyAnalysis
<1>4. result["frameworks"] = Cut(Distinct(<<>> \o partial["frameworks"]))
  <2>1. result["frameworks"] = Cut(Contribution(partial, "frameworks"))
    BY <1>1, ResultOf
  <2> QED
    BY <1>1, <2>1, ListsAndCounts DEF Contribution
<1> HIDE DEF production, development, partial, result
<1>5. all \in Seq(STRING) /\ Listed(all, name)
  BY <1>2, InBoth DEF production, development
<1> HIDE DEF all
<1>6. named \in Seq(STRING) /\ Listed(named, name)
  BY <1>5, InSelection
<1> HIDE DEF named
<1>7. /\ list \in Seq(STRING) /\ NoRepeats(list) /\ Len(list) <= Limit
      /\ Len(list) = Limit \/ Listed(list, name)
  <2>1. PICK i \in 1..Len(named) : named[i] = name
    BY <1>6 DEF Listed
  <2> QED
    BY <1>6, <2>1, PushedNew
<1> HIDE DEF list
<1>8. <<>> \o list = list
  BY <1>7
<1>9. Distinct(list) = list /\ Cut(list) = list
  BY <1>7, DistinctList, CutList
<1>10. result["frameworks"] = list
  BY <1>3, <1>4, <1>8, <1>9
<1> QED
  BY <1>7, <1>10 DEF KnownTo, result

\* What the summary calls a framework, package.json names.
LEMMA SummaryReadsPackage ==
  ASSUME NEW index \in Seq(IndexedFile), IsInjective([i \in DOMAIN index |-> index[i].path]),
         NEW k \in 1..Len(RepositorySummary(index, "workspace").frameworks)
  PROVE  LET name == RepositorySummary(index, "workspace").frameworks[k]
             package == Package(index)
         IN /\ name \in Framework /\ package.read
            /\ \E i \in 1..Len(index) : index[i].path = "package.json"
            /\ \/ Listed(package.production, name) \/ Listed(package.development, name)
               \/ Listed(package.peer, name)
<1> DEFINE package == Package(index)
           dependencies == ParsePackageJson(index).dependencies
           kept == {known \in ToSet(FRAMEWORKS) : known.packages \cap ToSet(dependencies) # {}}
           found == Among(FRAMEWORKS, kept)
           name == RepositorySummary(index, "workspace").frameworks[k]
<1>1. RepositorySummary(index, "workspace").frameworks = [i \in 1..Len(found) |-> found[i].name]
  BY DEF RepositorySummary, DetectFrameworks
<1>2. FRAMEWORKS \in Seq(ToSet(FRAMEWORKS))
  <2>1. Len(FRAMEWORKS) = 3 /\ DOMAIN FRAMEWORKS = 1..3
    BY DEF FRAMEWORKS
  <2>2. FRAMEWORKS = [i \in 1..3 |-> FRAMEWORKS[i]]
    BY DEF FRAMEWORKS
  <2>3. FRAMEWORKS \in [1..3 -> ToSet(FRAMEWORKS)]
    BY <2>1, <2>2 DEF ToSet
  <2> QED
    BY <2>3, ListOf
<1>3. found \in Seq(ToSet(FRAMEWORKS)) /\ \A x : Listed(found, x) => x \in kept
  BY <1>2, InSelection
<1> HIDE DEF found
<1>4. k \in 1..Len(found) /\ name = found[k].name /\ found[k] \in kept
  <2>1. k \in 1..Len(found) /\ name = found[k].name
    BY <1>1, <1>3
  <2>2. Listed(found, found[k])
    BY <2>1 DEF Listed
  <2> QED
    BY <1>3, <2>1, <2>2
<1>5. found[k] \in ToSet(FRAMEWORKS) /\ found[k].packages \cap ToSet(dependencies) # {}
  BY <1>4
<1> HIDE DEF kept, dependencies, name
<1>6. name \in Framework /\ name \in ToSet(dependencies)
  <2>1. \A known \in ToSet(FRAMEWORKS) : \/ known.packages = {}
                                         \/ known.name \in Framework /\ known.packages = {known.name}
    <3>1. DOMAIN FRAMEWORKS = {1, 2, 3}
      BY DEF FRAMEWORKS
    <3>2. /\ FRAMEWORKS[1] = [name |-> "nestjs", packages |-> {"nestjs"}]
          /\ FRAMEWORKS[2] = [name |-> "react", packages |-> {"react"}]
          /\ FRAMEWORKS[3] = [name |-> "django", packages |-> {}]
      BY DEF FRAMEWORKS
    <3> QED
      BY <3>1, <3>2 DEF ToSet, Framework
  <2> QED
    BY <1>4, <1>5, <2>1
<1>7. PICK j \in 1..Len(index) : index[j].path = "package.json" /\ index[j].read
  <2>1. CASE \E i \in 1..Len(index) : index[i].path = "package.json" /\ index[i].read
    BY <2>1
  <2>2. CASE ~\E i \in 1..Len(index) : index[i].path = "package.json" /\ index[i].read
    <3>1. dependencies = <<>>
      BY <2>2 DEF dependencies, ParsePackageJson, NoPackage
    <3>2. ToSet(dependencies) = {}
      BY <3>1 DEF ToSet
    <3> QED
      BY <1>6, <3>2
  <2> QED
    BY <2>1, <2>2
<1>8. package \in IndexedFile /\ package.read
  <2>1. PICK i \in 1..Len(index) : index[i] = package /\ package.path = "package.json"
    BY <1>7, PackageIsIndexed
  <2>2. DOMAIN index = 1..Len(index)
    OBVIOUS
  <2>3. i = j
    BY <1>7, <2>1, <2>2 DEF IsInjective
  <2> QED
    BY <1>7, <2>1, <2>3, PackageIsIndexed
<1>9. dependencies = package.production \o package.development \o package.peer
  BY <1>7 DEF dependencies, ParsePackageJson
<1> HIDE DEF package
<1>10. Listed(dependencies, name)
  <2>1. package.production \in Seq(STRING) /\ package.development \in Seq(STRING) /\ package.peer \in Seq(STRING)
    BY <1>8, FileFields
  <2>2. dependencies \in Seq(STRING)
    BY <1>9, <2>1
  <2>3. DOMAIN dependencies = 1..Len(dependencies)
    BY <2>2
  <2> QED
    BY <1>6, <2>3 DEF ToSet, Listed
<1>11. Listed(package.production, name) \/ Listed(package.development, name) \/ Listed(package.peer, name)
  <2> DEFINE p == package.production
             d == package.development
             q == package.peer
  <2>1. p \in Seq(STRING) /\ d \in Seq(STRING) /\ q \in Seq(STRING)
    BY <1>8, FileFields
  <2> HIDE DEF p, d, q
  <2>2. p \o d \in Seq(STRING) /\ \A x : Listed(p \o d, x) <=> Listed(p, x) \/ Listed(d, x)
    BY <2>1, InBoth
  <2>3. \A x : Listed((p \o d) \o q, x) <=> Listed(p \o d, x) \/ Listed(q, x)
    BY <2>1, <2>2, InBoth
  <2>4. Listed((p \o d) \o q, name)
    BY <1>9, <1>10 DEF p, d, q
  <2> QED
    BY <2>2, <2>3, <2>4 DEF p, d, q
<1> QED
  BY <1>6, <1>7, <1>8, <1>11 DEF package, name

\* What is analyzed is a repository.
ReadInv == run.read # <<>> => run.read \in Repositories

\* No step reads anything but a repository, and a run that starts has read nothing.
LEMMA ReadStep == RoundInv /\ ReadInv /\ [Next]_vars => ReadInv'
<1> SUFFICES ASSUME RoundInv, ReadInv, [Next]_vars PROVE ReadInv'
  OBVIOUS
<1>1. ASSUME run' = Fresh \/ run' = [Fresh EXCEPT !.pc = "pushed"] PROVE ReadInv'
  <2>1. run'.read = <<>>
    BY <1>1, FreshIsTyped
  <2> QED
    BY <2>1 DEF ReadInv
<1>2. CASE PushCode \/ (\E p \in Path : EditDocument(p)) \/ Publish \/ Close
  BY <1>1, <1>2 DEF PushCode, EditDocument, Publish, Close
<1>3. CASE EarlySkip \/ EnterFresh \/ Locate \/ Criticize \/ Approve \/ Reject
  <2>1. RunHasFields
    BY DEF RoundInv, RunIsTyped
  <2>2. CASE EarlySkip \/ EnterFresh
    BY <2>1, <2>2 DEF ReadInv, EarlySkip, EnterFresh, Goto, RunHasFields
  <2>3. CASE Locate
    BY <2>1, <2>3 DEF ReadInv, Locate, RunHasFields
  <2>4. CASE Criticize
    BY <2>1, <2>4 DEF ReadInv, Criticize, RunHasFields
  <2>5. CASE Approve \/ Reject
    BY <2>1, <2>5 DEF ReadInv, Approve, Reject, RunHasFields
  <2> QED
    BY <1>3, <2>2, <2>3, <2>4, <2>5
<1>4. CASE Analyze
  BY <1>4 DEF ReadInv, Analyze
<1>5. CASE Ask
  BY <1>5 DEF ReadInv, Ask
<1>6. CASE Parse
  BY <1>6 DEF ReadInv, Parse
<1>7. CASE UNCHANGED vars
  BY <1>7 DEF ReadInv, vars
<1> QED
  BY <1>2, <1>3, <1>4, <1>5, <1>6, <1>7 DEF Next

(* An analyzer that throws takes away what it would have found and nothing else
   (source-code-analysis.service.ts), no list outgrows its limit, and the two analyses
   agree on frameworks. *)
THEOREM AnalysesSurviveFailures == Spec => []AnalysisSurvivesFailures
<1>1. Init => RoundInv /\ ReadInv
  BY RoundInit, FreshIsTyped DEF Init, ReadInv
<1>2. ReadInv => AnalysisSurvivesFailures
  <2> SUFFICES ASSUME ReadInv, run.read # <<>>
               PROVE  LET partly == AnalyzeRepository(run.read, run.failing)
                          wholly == AnalyzeRepository(run.read, {})
                          frameworks == RepositorySummary(run.read, "workspace").frameworks
                      IN /\ \A list \in Lists : Len(partly[list]) <= Limit
                         /\ \A analyzer \in Analyzer \ run.failing :
                              Supports(analyzer, run.read) =>
                                \A field \in Delivers(analyzer, run.read) : partly[field] = wholly[field]
                         /\ \A i \in 1..Len(frameworks) :
                              \/ "dependency" \in run.failing \/ KnownTo(partly, frameworks[i])
                              \/ Listed(Package(run.read).peer, frameworks[i])
    BY DEF AnalysisSurvivesFailures
  <2> DEFINE index == run.read
             failing == run.failing
  <2>1. index \in Seq(IndexedFile) /\ IsInjective([i \in DOMAIN index |-> index[i].path])
    BY DocumentRoundsAssumption DEF ReadInv
  <2> HIDE DEF index, failing
  <2>2. \A list \in Lists : Len(AnalyzeRepository(index, failing)[list]) <= Limit
    BY <2>1, ListsAreLimited
  <2>3. ASSUME NEW analyzer \in Analyzer \ failing, Supports(analyzer, index),
               NEW field \in Delivers(analyzer, index)
        PROVE  AnalyzeRepository(index, failing)[field] = AnalyzeRepository(index, {})[field]
    <3>1. field \in Fields(analyzer)
      BY <2>1, <2>3, Delivered DEF Delivers
    <3>2. Works(analyzer, index, failing) /\ Works(analyzer, index, {})
      BY <2>3 DEF Works
    <3> QED
      BY <2>1, <3>1, <3>2, ResultOf
  <2>4. ASSUME NEW i \in 1..Len(RepositorySummary(index, "workspace").frameworks)
        PROVE  LET name == RepositorySummary(index, "workspace").frameworks[i]
               IN \/ "dependency" \in failing \/ KnownTo(AnalyzeRepository(index, failing), name)
                  \/ Listed(Package(index).peer, name)
    <3> DEFINE name == RepositorySummary(index, "workspace").frameworks[i]
    <3>1. /\ name \in Framework /\ Package(index).read
          /\ \E j \in 1..Len(index) : index[j].path = "package.json"
          /\ \/ Listed(Package(index).production, name) \/ Listed(Package(index).development, name)
             \/ Listed(Package(index).peer, name)
      BY <2>1, SummaryReadsPackage
    <3>2. Supports("dependency", index)
      BY <3>1 DEF Supports
    <3> HIDE DEF name
    <3>3. CASE "dependency" \notin failing /\ ~Listed(Package(index).peer, name)
      <4>1. Works("dependency", index, failing)
        BY <3>2, <3>3 DEF Works
      <4>2. Listed(Package(index).production, name) \/ Listed(Package(index).development, name)
        BY <3>1, <3>3
      <4>3. KnownTo(AnalyzeRepository(index, failing), name)
        BY <2>1, <3>1, <4>1, <4>2, FrameworksAreKnown
      <4> QED
        BY <4>3 DEF name
    <3> QED
      BY <3>3 DEF name
  <2> QED
    BY <2>2, <2>3, <2>4 DEF index, failing
<1> QED
  BY <1>1, <1>2, RoundStep, ReadStep, PTL DEF Spec
=============================================================================
