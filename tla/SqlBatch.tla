------------------------------ MODULE SqlBatch ------------------------------
(***************************************************************************)
(* The statements of what a tab sends: splitSqlStatements and normalizeSql *)
(* (query/query-guard.util.ts), which executeQuery follows statement by    *)
(* statement, against what the lexemes of SQL say.  A text is what has     *)
(* been typed so far; other characters and other white space add nothing,  *)
(* and the backslash, on which the databases differ, is left out.          *)
(***************************************************************************)
EXTENDS Naturals, Sequences

CONSTANTS MaxLength, \* bounds: the length of a text,
          MaxQuoted  \* and of one with quotes

Quotes == {"'", "\""}
Characters == Quotes \cup {";", "-", "/", "*", "newline"}

ASSUME TextAssumption == MaxLength \in Nat /\ MaxQuoted \in Nat

VARIABLE text

TextInit == text = <<>>
Type(ch) ==
  /\ Len(text) < IF ch \in Quotes \/ \E i \in DOMAIN text : text[i] \in Quotes THEN MaxQuoted ELSE MaxLength
  /\ text' = Append(text, ch)
TextNext == \E ch \in Characters : Type(ch)
TextSpec == TextInit /\ [][TextNext]_text

Has(s, i, ch) == i \in 1 .. Len(s) /\ s[i] = ch
Pair(s, i, a, b) == Has(s, i, a) /\ Has(s, i + 1, b)
First(positions) == CHOOSE i \in positions : \A j \in positions : i <= j

\* Where the character stands, and where a comment between slashes may end, from i on.
Occurrences(s, i, ch) == {j \in i .. Len(s) : s[j] = ch}
Closings(s, i) == {j \in i .. Len(s) : Pair(s, j, "*", "/")}

-----------------------------------------------------------------------------
(* The code *)

\* What the loop is inside of, and whether it takes the next character too.
Inside(what, skip) == [inside |-> what, skip |-> skip]

\* Mutant: the two characters that open a comment are not taken together.
OpeningByOne(what) == Inside(what, FALSE)

\* A comment is opened.
Opening(what) == Inside(what, TRUE)

\* One turn of the loop; inside of a literal is the quote that ends it.
Step(s, i, inside) ==
  IF inside = "line" THEN Inside(IF s[i] = "newline" THEN "none" ELSE "line", FALSE)
  ELSE IF inside = "block" THEN IF Pair(s, i, "*", "/") THEN Inside("none", TRUE) ELSE Inside("block", FALSE)
  ELSE IF inside = "none" /\ Pair(s, i, "-", "-") THEN Opening("line")
  ELSE IF inside = "none" /\ Pair(s, i, "/", "*") THEN Opening("block")
  ELSE IF s[i] \in Quotes /\ inside = s[i]
       THEN IF Has(s, i + 1, s[i]) THEN Inside(inside, TRUE) ELSE Inside("none", FALSE)
  ELSE Inside(IF s[i] \in Quotes /\ inside = "none" THEN s[i] ELSE inside, FALSE)

Turn(s, i, at) == IF at.skip THEN Inside(at.inside, FALSE) ELSE Step(s, i, at.inside)

\* The state of the loop behind each character.
Loop(s) ==
  LET at[i \in 0 .. Len(s)] == IF i = 0 THEN Inside("none", FALSE) ELSE Turn(s, i, at[i - 1])
  IN at

\* The semicolons that end a statement: the loop meets them outside of everything.
Cuts(s) ==
  LET at == Loop(s)
  IN {i \in 1 .. Len(s) : s[i] = ";" /\ at[i - 1] = Inside("none", FALSE)}

\* A comment between slashes is replaced unless it begins in one that is.
Replace(s, i, till) ==
  IF till < i /\ Pair(s, i, "/", "*") /\ Closings(s, i + 2) # {} THEN First(Closings(s, i + 2)) + 1 ELSE till

\* How far the comments reach that normalizeSql has found up to each character.
Replaced(s) ==
  LET till[i \in 0 .. Len(s)] == IF i = 0 THEN 0 ELSE Replace(s, i, till[i - 1])
  IN till

\* normalizeSql leaves nothing: the comments between slashes are replaced first,
\* then what follows two dashes on a line, whatever either stands in.
Blank(s) ==
  LET till == Replaced(s)
      left == {i \in 1 .. Len(s) : till[i] < i}
      dashes(i) == {i, i + 1} \subseteq left /\ Pair(s, i, "-", "-")
      ends == {i \in left : s[i] = "newline"}
  IN \A i \in left \ ends : \E j \in 1 .. i : dashes(j) /\ ends \cap (j .. i) = {}

\* The stretches between cuts, without the semicolons.
Pieces(cuts) ==
  LET marks == {0, Len(text) + 1} \cup cuts IN
  {<<m[1] + 1, m[2] - 1>> : m \in {n \in marks \X marks : n[1] < n[2] /\ \A c \in cuts : c <= n[1] \/ c >= n[2]}}

\* What appendSqlStatement keeps.
Statements == {p \in Pieces(Cuts(text)) : ~Blank(SubSeq(text, p[1], p[2]))}

-----------------------------------------------------------------------------
(* The language *)

\* To the first of the ends and n further, or to the end of the text.
UpTo(s, ends, n) == IF ends = {} THEN Len(s) ELSE First(ends) + n

\* The last position of the lexeme that begins at i: a comment, a literal, a character.
LexemeEnd(s, i) ==
  IF Pair(s, i, "-", "-") THEN UpTo(s, Occurrences(s, i + 2, "newline"), 0)
  ELSE IF Pair(s, i, "/", "*") THEN UpTo(s, Closings(s, i + 2), 1)
  ELSE IF s[i] \in Quotes THEN UpTo(s, Occurrences(s, i + 1, s[i]), 0)
  ELSE i

\* Each lexeme begins behind the one before.
Follow(s, i, next) == IF i < next THEN next ELSE LexemeEnd(s, i) + 1

\* Where the lexeme begins that follows the one each character is of.
Following(s) ==
  LET next[i \in 0 .. Len(s)] == IF i = 0 THEN 1 ELSE Follow(s, i, next[i - 1])
  IN next

\* Where the lexemes begin.
Lexemes(s) == LET next == Following(s) IN {i \in 1 .. Len(s) : next[i - 1] <= i}

Closed(s, i) == LexemeEnd(s, i) >= i + 3 /\ Pair(s, LexemeEnd(s, i) - 1, "*", "/")

\* Nothing to execute: white space and comments that are closed.
Silent(s, i) == s[i] = "newline" \/ Pair(s, i, "-", "-") \/ (Pair(s, i, "/", "*") /\ Closed(s, i))
SaysNothing(s) == \A i \in Lexemes(s) : Silent(s, i)

\* A comment to the end of a line speaks of the other kind of comment.
Misleads(s) == \E i \in Lexemes(s) : Pair(s, i, "-", "-") /\ \E j \in i + 2 .. LexemeEnd(s, i) : Pair(s, j, "/", "*")

\* A text is cut at the semicolons that stand on their own in it, not in literals or
\* comments, and every stretch between them that says something is executed, no other,
\* unless the opening of a block comment stands in a comment to the end of a line.
SplitAtStatements ==
  LET ends == {i \in Lexemes(text) : text[i] = ";"}
      executed == Statements
  IN /\ Cuts(text) = ends
     /\ \A p \in Pieces(ends) :
          LET s == SubSeq(text, p[1], p[2]) IN
          (p \in executed <=> ~SaysNothing(s)) \/ Misleads(s)
=============================================================================
