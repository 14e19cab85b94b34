---------------------------- MODULE TextMetrics -----------------------------
(***************************************************************************)
(* The metrics of QualityEvaluator (src/src/evaluators/quality_metrics.py) *)
(* for one prediction and one reference, and what they promise for every   *)
(* pair of texts.                                                          *)
(*                                                                         *)
(* token_f1 and _rouge_l see normalised tokens, _edit_similarity the       *)
(* characters; both are model values here.  A behaviour writes the two     *)
(* texts a token at a time, and then fills the tables of _lcs_length and   *)
(* _levenshtein.  These two share nothing and have the same loops, so one  *)
(* step is one round of the inner loop of each.  A score is a ratio        *)
(* <<n, d>>.                                                               *)
(*                                                                         *)
(* For normalize_answer a text is a sequence of pieces: an article, "t"    *)
(* and "he", which together are one, any other word or part of one, "_",   *)
(* which is punctuation to Python and a letter to \b, other punctuation,   *)
(* white space, and symbols that are none of these.                        *)
(***************************************************************************)
EXTENDS Counting, Sequences, SequencesExt

CONSTANTS Tokens, MaxTokens,    \* MaxTokens bounds the length of a text
          MaxPieces             \* bound: pieces of an answer

ASSUME TextAssumption == {MaxTokens, MaxPieces} \subseteq Nat

VARIABLES prediction, reference,
          scan,                 \* the loops' variables, NoScan before they begin
          answer                \* a text to normalise

textVars == <<prediction, reference, scan>>

NoScan == [row |-> 0]
Zeroes == [k \in 1..Len(reference) + 1 |-> 0]

TextInit == prediction = <<>> /\ reference = <<>> /\ scan = NoScan

WriteTo(text, t) == Len(text) < MaxTokens /\ text' = Append(text, t)

WriteToken == /\ scan = NoScan /\ UNCHANGED scan
              /\ \E t \in Tokens :
                   \/ WriteTo(prediction, t) /\ UNCHANGED reference
                   \/ WriteTo(reference, t) /\ UNCHANGED prediction

\* Both metrics have returned before when a text is empty.  Entry k + 1 of a row is for
\* the first k elements of the reference.
BeginScan ==
  /\ scan = NoScan /\ prediction # <<>> /\ reference # <<>>
  /\ scan' = [row |-> 1, column |-> 0, prev |-> Zeroes, curr |-> Zeroes,
              dp |-> [k \in 1..Len(reference) + 1 |-> k - 1], corner |-> 0]
  /\ UNCHANGED <<prediction, reference>>

InLoop == scan # NoScan /\ scan.row <= Len(prediction) /\ UNCHANGED <<prediction, reference>>

\* "prev = dp[0]; dp[0] = i": corner is the prev of _levenshtein
BeginRow ==
  /\ InLoop /\ scan.column = 0
  /\ scan' = [scan EXCEPT !.column = 1, !.corner = scan.dp[1], !.dp[1] = scan.row]

Faulty_LcsEntry(x, y, diagonal, left, above) ==
  IF x = y THEN left + 1 ELSE Max({left, above})
LcsEntry(x, y, diagonal, left, above) ==
  IF x = y THEN diagonal + 1 ELSE Max({left, above})

EditEntry(x, y, diagonal, left, above) ==
  IF x = y THEN diagonal ELSE 1 + Min({diagonal, above, left})

\* One row of two is read and the other written; dp is read where it is written.
FillEntry ==
  LET j == scan.column
      x == prediction[scan.row]
      y == reference[j]
  IN /\ InLoop /\ j \in 1..Len(reference)
     /\ scan' = [scan EXCEPT
          !.column = j + 1,
          !.curr[j + 1] = LcsEntry(x, y, scan.prev[j], scan.curr[j], scan.prev[j + 1]),
          !.dp[j + 1] = EditEntry(x, y, scan.corner, scan.dp[j], scan.dp[j + 1]),
          !.corner = scan.dp[j + 1]]

\* "prev, curr = curr, [0] * (n + 1)"
EndRow ==
  /\ InLoop /\ scan.column = Len(reference) + 1
  /\ scan' = [scan EXCEPT !.row = scan.row + 1, !.column = 0, !.prev = scan.curr, !.curr = Zeroes]

TextNext == WriteToken \/ BeginScan \/ BeginRow \/ FillEntry \/ EndRow

TextSpec == TextInit /\ [][TextNext]_textVars

\* What the two return.
Scanned == scan # NoScan /\ scan.row = Len(prediction) + 1
LcsLength == scan.prev[Len(reference) + 1]
Levenshtein == scan.dp[Len(reference) + 1]

-----------------------------------------------------------------------------
CountOf(s, t) == Cardinality({k \in DOMAIN s : s[k] = t})

\* A Counter, its tokens numbered; & of two is what both have.
Counter(s) == UNION {{t} \X (1..CountOf(s, t)) : t \in ToSet(s)}
Common(a, b) == Cardinality(Counter(a) \intersect Counter(b))

\* The harmonic mean of matched / Len(a) and matched / Len(b).
HarmonicMean(matched, a, b) == IF matched = 0 THEN <<0, 1>> ELSE <<2 * matched, Len(a) + Len(b)>>

TokenF1(a, b) ==
  IF a = <<>> /\ b = <<>> THEN <<1, 1>>
  ELSE IF a = <<>> \/ b = <<>> THEN <<0, 1>> ELSE HarmonicMean(Common(a, b), a, b)

RougeL(a, b, lcs_len) ==
  IF a = <<>> \/ b = <<>> THEN <<0, 1>> ELSE HarmonicMean(lcs_len, a, b)

EditSimilarity(a, b, dist) ==
  IF a = <<>> /\ b = <<>> THEN <<1, 1>>
  ELSE IF a = <<>> \/ b = <<>> THEN <<0, 1>>
  ELSE LET longer == Max({Len(a), Len(b)}) IN <<longer - dist, longer>>

-----------------------------------------------------------------------------
\* normalize_answer
Pieces == {"article", "t", "he", "word", "_", ".", " ", "symbol"}
WordPieces == {"article", "t", "he", "word", "_"}

AnswerInit == answer = <<>>
WritePiece(piece) == Len(answer) < MaxPieces /\ answer' = Append(answer, piece)
AnswerNext == \E piece \in Pieces : WritePiece(piece)
AnswerSpec == AnswerInit /\ [][AnswerNext]_answer

IsPart(text, k) == k \in DOMAIN text /\ text[k] \in WordPieces

\* \b(a|an|the)\b: the pieces from k to l are an article, with \b on both sides
IsArticle(text, k, l) ==
  /\ ~IsPart(text, k - 1) /\ ~IsPart(text, l + 1)
  /\ \/ k = l /\ text[k] = "article"
     \/ l = k + 1 /\ text[k] = "t" /\ text[l] = "he"

InArticle(text, j) == \E k, l \in DOMAIN text : j \in k..l /\ IsArticle(text, k, l)

\* What stands at some of the places of a text, in order.
Picked(text, places) ==
  [k \in 1..Cardinality(places) |-> text[CHOOSE p \in places : Place(p, places) = k - 1]]

WithoutArticles(text) ==
  [j \in DOMAIN text |-> IF InArticle(text, j) THEN " " ELSE text[j]]
WithoutPunctuation(text) == Picked(text, {k \in DOMAIN text : text[k] \notin {"_", "."}})

\* join and split: a space stays when it follows a word and another word comes
Collapsed(text) ==
  Picked(text, {k \in DOMAIN text :
                  \/ text[k] # " "
                  \/ /\ k > 1 /\ text[k - 1] # " "
                     /\ \E j \in k + 1..Len(text) : text[j] # " "})

NormalizeAnswer(text) == Collapsed(WithoutPunctuation(WithoutArticles(text)))

-----------------------------------------------------------------------------
\* The ways to lay one text beside the other: some places of the first are put opposite
\* places of the second, in the same order.
Alignments(m, n) ==
  {f \in UNION {[S -> 1..n] : S \in SUBSET (1..m)} :
     \A i, j \in DOMAIN f : i < j => f[i] < f[j]}

Equals(f, a, b) == {i \in DOMAIN f : a[i] = b[f[i]]}

\* The length of a longest common subsequence, and the least number of elements that are
\* deleted, inserted or replaced to get from one text to the other.
Longest(a, b) == Max({Cardinality(Equals(f, a, b)) : f \in Alignments(Len(a), Len(b))})

Edits(f, a, b) == (Len(a) - Cardinality(DOMAIN f)) + (Len(b) - Cardinality(DOMAIN f))
                    + Cardinality(DOMAIN f \ Equals(f, a, b))
FewestEdits(a, b) == Min({Edits(f, a, b) : f \in Alignments(Len(a), Len(b))})

\* The two rolling rows, and the single row updated in place, compute what the two
\* functions are named for.
LcsIsLongest == Scanned => LcsLength = Longest(prediction, reference)
EditIsDistance == Scanned => Levenshtein = FewestEdits(prediction, reference)

Leq(f, g) == f[1] * g[2] <= g[1] * f[2]
SameScore(f, g) == Leq(f, g) /\ Leq(g, f)
FullScore == <<1, 1>>

\* Scores lie in [0, 1] and do not tell prediction from reference, ROUGE-L is at most
\* F1, and only a text with the same tokens has all of F1, only the same text all of
\* ROUGE-L or of the edit similarity.
ScoresConsistent ==
  LET a == prediction
      b == reference
      rouge == RougeL(a, b, LcsLength)
      edit == EditSimilarity(a, b, Levenshtein)
  IN (Scanned \/ a = <<>> \/ b = <<>>) =>
       /\ \A f \in {TokenF1(a, b), rouge, edit} : f[2] > 0 /\ f[1] \in 0..f[2]
       /\ SameScore(TokenF1(a, b), TokenF1(b, a)) /\ SameScore(rouge, RougeL(b, a, Longest(b, a)))
       /\ SameScore(edit, EditSimilarity(b, a, FewestEdits(b, a)))
       /\ Leq(rouge, TokenF1(a, b))
       /\ SameScore(TokenF1(a, b), FullScore) <=> \A t \in Tokens : CountOf(a, t) = CountOf(b, t)
       /\ SameScore(rouge, FullScore) <=> a = b /\ a # <<>>
       /\ SameScore(edit, FullScore) <=> a = b

\* No "_", and parts of words that do not touch have more than punctuation between them.
NothingInWords(text) ==
  /\ \A k \in DOMAIN text : text[k] # "_"
  /\ \A i, j \in DOMAIN text :
       i + 1 < j /\ IsPart(text, i) /\ IsPart(text, j) => \E k \in i + 1..j - 1 : text[k] # "."

\* An answer without punctuation inside its words is normalised in one go, any other in
\* two: what it makes of "t.he" is an article.
NormalisedIsStable ==
  LET once == NormalizeAnswer(answer)
      twice == NormalizeAnswer(once)
  IN (NothingInWords(answer) => twice = once) /\ NormalizeAnswer(twice) = twice

\* The two dynamic programs compute what they are named for, the scores made of them
\* agree with each other, and an answer is normalised in one go, or in two.
TextScoresTrue == LcsIsLongest /\ EditIsDistance /\ ScoresConsistent /\ NormalisedIsStable

\* "Lower-case, strip punctuation, articles, and extra whitespace": no word of a
\* normalised text is an article.
ArticlesStripped ==
  LET text == NormalizeAnswer(answer)
  IN ~\E k, l \in DOMAIN text : IsArticle(text, k, l)
=============================================================================
