------------------------------- MODULE Matcher -------------------------------
(***************************************************************************)
(* Pattern folding and matching of the branch_control package.            *)
(*                                                                         *)
(* A string is a sequence of one-character strings.  The two wildcards    *)
(* are "%" (zero or more characters) and "_" (exactly one character).      *)
(* The matcher itself (matching.go, expressions.go) is not part of the     *)
(* sources at hand: FoldExpression, ParseExpression and the matcher are    *)
(* written from the specification (sections 4.1 and 4.2).  ToLower is     *)
(* Go's strings.ToLower as the table editor applies it to branch and host  *)
(* expressions.                                                            *)
(***************************************************************************)
EXTENDS Naturals, Sequences

\* The collations of the three columns: branch and host compare accent- and
\* case-insensitively, user compares bytes.
Collation_ai_ci == "utf8mb4_0900_ai_ci"
Collation_bin   == "utf8mb4_0900_bin"

AnyMatch    == "%"
SingleMatch == "_"
Wildcards   == {AnyMatch, SingleMatch}

\* The upper-case letters the models use, and their lower-case forms.
LowerCase == [c \in {"A", "B", "H", "U"} |->
                CASE c = "A" -> "a" [] c = "B" -> "b"
                  [] c = "H" -> "h" [] c = "U" -> "u"]

LowerChar(c) == IF c \in DOMAIN LowerCase THEN LowerCase[c] ELSE c

\* strings.ToLower
ToLower(s) == [i \in DOMAIN s |-> LowerChar(s[i])]

\* FoldExpression: runs of "%" collapse to one "%" (the alphabet of the
\* models has no control characters to strip).
RECURSIVE FoldExpression(_)
FoldExpression(s) ==
    IF Len(s) < 2 THEN s
    ELSE IF s[1] = AnyMatch /\ s[2] = AnyMatch
         THEN FoldExpression(Tail(s))
         ELSE <<s[1]>> \o FoldExpression(Tail(s))

\* The collation weight of one character: the ai_ci collation gives a letter
\* and its upper-case form the same weight, the binary collation does not.
Weight(c, collation) ==
    IF collation = Collation_ai_ci THEN LowerChar(c) ELSE c

\* ParseExpression: the sort orders of a folded expression; the wildcards
\* keep their own reserved values.
ParseExpression(s, collation) ==
    [i \in DOMAIN s |-> IF s[i] \in Wildcards THEN s[i] ELSE Weight(s[i], collation)]

\* Whether the sort orders so match the candidate string str: LIKE over
\* collation weights.  A "%" or "_" in str is an ordinary character.
RECURSIVE Like(_, _, _)
Like(so, str, collation) ==
    IF so = <<>> THEN str = <<>>
    ELSE IF Head(so) = AnyMatch
         THEN \/ Like(Tail(so), str, collation)
              \/ str # <<>> /\ Like(so, Tail(str), collation)
         ELSE /\ str # <<>>
              /\ Head(so) = SingleMatch \/ Head(so) = Weight(Head(str), collation)
              /\ Like(Tail(so), Tail(str), collation)

=============================================================================
