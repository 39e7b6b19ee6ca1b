------------------------------- MODULE MCDoltLog ------------------------------
(***************************************************************************)
(* Checks what dolt_log lists for every argument list of up to three      *)
(* arguments against git's reading of the same revision arguments, over a *)
(* four-commit history with a merge.                                      *)
(***************************************************************************)
EXTENDS DoltLog

\* c1 <- c2 (branch a), c1 <- c3 (branch b), and the merge c4 of c2 and c3
\* (branch m), which is also the session head.
MCCommits     == {"c1", "c2", "c3", "c4"}
MCParents     == [c \in MCCommits |-> CASE c = "c1" -> {}
                                        [] c = "c4" -> {"c2", "c3"}
                                        [] OTHER    -> {"c1"}]
MCRefCommit   == [r \in {"a", "b", "m"} |-> CASE r = "a" -> "c2"
                                             [] r = "b" -> "c3"
                                             [] OTHER   -> "c4"]
MCSessionHead == "c4"

Names == {"a", "b", "m"}

\* Revision arguments: a name, "^name", "x..y" and "x.." (x..HEAD).
RevisionTokens ==
    {<<n>> : n \in Names} \cup {Caret \o <<n>> : n \in Names}
      \cup {<<x>> \o DotDot \o <<y>> : x, y \in {"a", "b"}} \cup {<<"a">> \o DotDot}

\* The option arguments: --not, which takes the next argument as its value,
\* and the flags that take none.
Flag(w) == Dashes \o <<w>>
NotTokens    == {Flag("not")}
OptionTokens == {Flag("parents"), Flag("merges")}

\* The arguments each run draws from.
RangeArgTokens == RevisionTokens \cup NotTokens
AllArgTokens   == RevisionTokens \cup NotTokens \cup OptionTokens

CONSTANT Tokens

MaxArgs == 3

VARIABLE args

Init == args \in SeqOf(Tokens, MaxArgs)

Next == UNCHANGED args

Spec == Init /\ [][Next]_args

\* What git log lists for the same positional arguments: the commits
\* reachable from the included revisions (HEAD if none) and not from the
\* excluded ones ("^x", the x of "x..y", the value of --not), with at least
\* the asked number of parents.  An empty side of ".." is HEAD.
GitRange(a) ==
    LET apr  == ParseLogArgs(a)
        ends(s) == IF StrContains(s, DotDot) THEN Split(s, DotDot) ELSE <<>>
        side(s) == IF s = <<>> THEN {SessionHead} ELSE {Resolve(s)}
        incl == UNION {IF ends(s) # <<>> THEN side(ends(s)[2])
                       ELSE IF IsPrefix(Caret, s) THEN {} ELSE {Resolve(s)}
                       : s \in ToSet(apr.positional)}
        excl == UNION {IF ends(s) # <<>> THEN side(ends(s)[1])
                       ELSE IF IsPrefix(Caret, s) THEN {Resolve(TrimPrefix(s, Caret))} ELSE {}
                       : s \in ToSet(apr.positional)}
                \cup (IF "not" \in apr.present THEN {Resolve(apr.value["not"])} ELSE {})
        tips == IF incl = {} THEN {SessionHead} ELSE incl
        minP == IF "merges" \in apr.present THEN 2 ELSE 0
    IN {c \in UNION {History(t) : t \in tips} \ UNION {History(x) : x \in excl} :
          Cardinality(Parents[c]) >= minP}

\* Every dolt_log call the table function accepts lists exactly the
\* commits git log lists for the same revision arguments: "x..y", "y ^x",
\* "^x y" and "y --not x" all mean y excluding x, and an argument the
\* option parser leaves as a revision is never dropped.
LogMatchesGitRange ==
    LET r == DoltLog(args) IN r.err = NoError => r.commits = GitRange(args)

\* The argument lists whose revisions and --not value are all revision
\* arguments over refs of the database (no flag taken as a value).
NamesOnlyRevisions(a) ==
    LET apr == ParseLogArgs(a) IN
    /\ ToSet(apr.positional) \subseteq RevisionTokens
    /\ "not" \in apr.present => apr.value["not"] \in RevisionTokens

\* WithExpressions accepts only calls RowIter can run: for arguments that
\* name refs of the database, validateRevisionExpressions refuses every
\* combination that evaluateArguments would turn into a revision or an
\* excluded revision that does not resolve, such as a range given as the
\* second argument, where ".." is not split.
AcceptedCallsResolve ==
    LET w == WithExpressions(args) IN
    NamesOnlyRevisions(args) /\ w.err = NoError => RowIter(w.ltf).err = NoError

\* Every argument list ends in a table function or in an error the caller
\* can read: validateRevisionExpressions only returns errors, it never
\* panics, whatever arguments it was given.
ArgumentsNeverPanic ==
    DoltLog(args).err # Panic

=============================================================================
