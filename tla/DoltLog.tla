------------------------------- MODULE DoltLog -------------------------------
(***************************************************************************)
(* The dolt_log table function (LogTableFunction, src/unnamed/part_003):   *)
(* how its SQL arguments become options and revisions (WithExpressions,   *)
(* addOptions, validateRevisionExpressions), how the revisions are read   *)
(* (evaluateArguments, getRevisionsFromExpr), and which commits RowIter   *)
(* then lists.                                                             *)
(*                                                                         *)
(* A string is a sequence of symbols: "." and "^" and "-" are single      *)
(* characters, and a ref name or a flag word ("not", "parents") is one    *)
(* symbol, since no check looks inside them.  The arguments are text      *)
(* literals, so getDoltArgs passes their values through and an            *)
(* expression's String() contains exactly what its value contains.        *)
(***************************************************************************)
EXTENDS Naturals, Sequences, SequencesExt, FiniteSets

LOCAL Gr == INSTANCE Graphs

CONSTANTS
    Commits,      \* commit hashes of the database (model values)
    Parents,      \* Parents[c]: the parent commits of c
    RefCommit,    \* RefCommit[r]: the commit ref name r resolves to
    SessionHead   \* the session's head commit, logged when no revision is given

\* The absence of an expression (a nil sql.Expression).
NoExpr == "nil"

\* The outcomes that are not a table function.
NoError == "none"
Panic   == "panic"

DotDot == <<".", ".">>
Caret  == <<"^">>
Dashes == <<"-", "-">>

\* strings.Contains.
StrContains(s, sub) == sub \in SubSeqs(s)

\* strings.TrimPrefix.
TrimPrefix(s, p) == IF IsPrefix(p, s) THEN SubSeq(s, Len(p) + 1, Len(s)) ELSE s

\* strings.Split for a non-empty separator: the pieces between its
\* left-most, non-overlapping occurrences.
RECURSIVE Split(_, _)
Split(s, sep) ==
    IF ~StrContains(s, sep) THEN <<s>>
    ELSE LET i == IndexFirstSubSeq(sep, s) IN
         <<SubSeq(s, 1, i - 1)>> \o Split(SubSeq(s, i + Len(sep), Len(s)), sep)

-----------------------------------------------------------------------------
(* The log argument parser (cli.CreateLogArgParser, outside src/): "--w"  *)
(* names flag w; a flag that takes a value takes the next argument.       *)

ValueFlags == {"not", "decorate", "min-parents"}
BoolFlags  == {"merges", "parents"}
NoValue    == "novalue"

RECURSIVE ParseFrom(_, _)
ParseFrom(args, acc) ==
    IF args = <<>> THEN acc
    ELSE LET a == Head(args) IN
         IF ~IsPrefix(Dashes, a) THEN
             ParseFrom(Tail(args), [acc EXCEPT !.positional = Append(@, a)])
         ELSE LET w == TrimPrefix(a, Dashes) IN
         IF Len(w) = 1 /\ w[1] \in BoolFlags THEN
             ParseFrom(Tail(args), [acc EXCEPT !.present = @ \cup {w[1]}])
         ELSE IF Len(w) = 1 /\ w[1] \in ValueFlags /\ Len(args) > 1 THEN
             ParseFrom(Tail(Tail(args)),
                       [acc EXCEPT !.present = @ \cup {w[1]},
                                   !.value = [@ EXCEPT ![w[1]] = args[2]]])
         ELSE [acc EXCEPT !.err = TRUE]

ParseLogArgs(args) ==
    ParseFrom(args, [err |-> FALSE, positional |-> <<>>, present |-> {},
                     value |-> [w \in ValueFlags |-> NoValue]])

-----------------------------------------------------------------------------
(* LogTableFunction                                                        *)

\* apr.GetIntOrDefault for a one-symbol numeral.
IntOrDefault(v, default) ==
    IF v \in {<<"0">>, <<"1">>, <<"2">>} THEN CHOOSE n \in 0 .. 2 : <<ToString(n)>> = v ELSE default

\* The fields of a LogTableFunction NewInstance starts from.
FreshLtf == [notRevision |-> <<>>, minParents |-> 0, showParents |-> FALSE, decoration |-> <<>>,
             revisionExpr |-> NoExpr, secondRevisionExpr |-> NoExpr]

\* addOptions, on the receiver ltf: the options it sets, or the error that
\* ends WithExpressions.  --not is assigned only when given; the other
\* options are always assigned.
addOptions(ltf, args) ==
    LET apr == ParseLogArgs(args)
        dec == IF "decorate" \in apr.present THEN apr.value["decorate"] ELSE <<"auto">>
    IN IF apr.err \/ dec \notin {<<"short">>, <<"full">>, <<"auto">>, <<"no">>}
       THEN [err |-> "ErrInvalidArgumentDetails"]
       ELSE [err |-> NoError,
             ltf |-> [ltf EXCEPT
                        !.notRevision = IF "not" \in apr.present THEN apr.value["not"] ELSE @,
                        !.minParents  = IF "merges" \in apr.present THEN 2
                                        ELSE IF "min-parents" \in apr.present
                                             THEN IntOrDefault(apr.value["min-parents"], 0) ELSE 0,
                        !.showParents = "parents" \in apr.present,
                        !.decoration  = dec]]

\* WithExpressions' filter: the arguments taken as revisions, dropping every
\* argument that contains "--" and every argument right after one.
FilterRevisions(exprs) ==
    LET kept == SelectSeq([i \in DOMAIN exprs |-> i],
                          LAMBDA i : /\ ~StrContains(exprs[i], Dashes)
                                     /\ ~(i > 1 /\ StrContains(exprs[i - 1], Dashes)))
    IN [k \in DOMAIN kept |-> exprs[kept[k]]]

Has(e) == e # NoExpr
Holds(e, sub) == Has(e) /\ StrContains(e, sub)

\* Mutant of RevisionChecks: a range in the second argument not refused.
RevisionChecksNoSecondRange(ltf) ==
    LET r1 == ltf.revisionExpr
        r2 == ltf.secondRevisionExpr
        nr == ltf.notRevision
    IN << <<~Has(r2) /\ Holds(r1, Caret), r1>>,
          <<Holds(r1, DotDot) /\ Holds(r1, Caret), r1>>,
          <<Has(r2) /\ Holds(r1, DotDot), r1>>,
          <<Has(r1) /\ Has(r2) /\ Holds(r1, Caret) /\ Holds(r2, Caret), r1>>,
          <<Has(r1) /\ Has(r2) /\ ~Holds(r1, Caret) /\ ~Holds(r2, Caret), r1>>,
          <<Len(nr) > 0 /\ ~Has(r1) /\ ~Has(r2), r1>>,
          <<Len(nr) > 0 /\ (Holds(r1, DotDot) \/ Holds(r1, Caret)), r1>>,
          <<Len(nr) > 0 /\ Holds(r2, Caret), r2>>,
          <<Len(nr) > 0 /\ StrContains(nr, DotDot), nr>>,
          <<Len(nr) > 0 /\ StrContains(nr, Caret), nr>> >>

\* validateRevisionExpressions: its checks in code order, each a condition
\* and the argument its error names; the first that holds is returned.
\* An error built from a nil revisionExpr calls String() on a nil
\* interface, which panics.
RevisionChecks(ltf) ==
    LET r1 == ltf.revisionExpr
        r2 == ltf.secondRevisionExpr
        nr == ltf.notRevision
    IN << <<~Has(r2) /\ Holds(r1, Caret), r1>>,
          <<Holds(r1, DotDot) /\ Holds(r1, Caret), r1>>,
          <<Holds(r2, DotDot), r2>>,
          <<Has(r2) /\ Holds(r1, DotDot), r1>>,
          <<Has(r1) /\ Has(r2) /\ Holds(r1, Caret) /\ Holds(r2, Caret), r1>>,
          <<Has(r1) /\ Has(r2) /\ ~Holds(r1, Caret) /\ ~Holds(r2, Caret), r1>>,
          <<Len(nr) > 0 /\ ~Has(r1) /\ ~Has(r2), r1>>,
          <<Len(nr) > 0 /\ (Holds(r1, DotDot) \/ Holds(r1, Caret)), r1>>,
          <<Len(nr) > 0 /\ Holds(r2, Caret), r2>>,
          <<Len(nr) > 0 /\ StrContains(nr, DotDot), nr>>,
          <<Len(nr) > 0 /\ StrContains(nr, Caret), nr>> >>

validateRevisionExpressions(ltf) ==
    LET failed == SelectSeq(RevisionChecks(ltf), LAMBDA c : c[1]) IN
    IF failed = <<>> THEN NoError
    ELSE IF failed[1][2] = NoExpr THEN Panic
    ELSE "ErrInvalidArgumentDetails"

\* WithExpressions on the receiver ltf, which it changes in place: the
\* configured table function, or the error.  A revision field is assigned
\* only when the filter kept an argument for it.
WithExpressionsOn(ltf0, exprs) ==
    LET opt  == addOptions(ltf0, exprs)
        revs == FilterRevisions(exprs)
        ltf  == [opt.ltf EXCEPT
                   !.revisionExpr       = IF Len(revs) > 0 THEN revs[1] ELSE @,
                   !.secondRevisionExpr = IF Len(revs) = 2 THEN revs[2] ELSE @]
    IN IF opt.err # NoError THEN [err |-> opt.err]
       ELSE IF Len(revs) > 2 THEN [err |-> "ErrInvalidArgumentNumber"]
       ELSE IF validateRevisionExpressions(ltf) # NoError
       THEN [err |-> validateRevisionExpressions(ltf)]
       ELSE [err |-> NoError, ltf |-> ltf]

\* NewInstance: WithExpressions on a new LogTableFunction.
WithExpressions(exprs) == WithExpressionsOn(FreshLtf, exprs)

\* Mutant of getRevisionsFromExpr: "a..b" read as a excluding b.
getRevisionsFromExprSwapped(s, canDot) ==
    IF canDot /\ StrContains(s, DotDot)
    THEN [rev |-> Split(s, DotDot)[1], excl |-> Split(s, DotDot)[2]]
    ELSE IF StrContains(s, Caret) THEN [rev |-> <<>>, excl |-> TrimPrefix(s, Caret)]
    ELSE [rev |-> s, excl |-> <<>>]

\* getRevisionsFromExpr: the revision and the excluded revision one
\* argument names: "a..b" is b excluding a (only the first two pieces of
\* the split are read), "^a" excludes a, anything else is a revision.
getRevisionsFromExpr(s, canDot) ==
    IF canDot /\ StrContains(s, DotDot)
    THEN [rev |-> Split(s, DotDot)[2], excl |-> Split(s, DotDot)[1]]
    ELSE IF StrContains(s, Caret) THEN [rev |-> <<>>, excl |-> TrimPrefix(s, Caret)]
    ELSE [rev |-> s, excl |-> <<>>]

NoRevisions == [rev |-> <<>>, excl |-> <<>>]

\* evaluateArguments: the second argument's non-empty parts override the
\* first's, and --not overrides the excluded revision.
evaluateArguments(ltf) ==
    LET first  == IF Has(ltf.revisionExpr)
                  THEN getRevisionsFromExpr(ltf.revisionExpr, TRUE) ELSE NoRevisions
        second == IF Has(ltf.secondRevisionExpr)
                  THEN getRevisionsFromExpr(ltf.secondRevisionExpr, FALSE) ELSE NoRevisions
        excl   == IF Len(second.excl) > 0 THEN second.excl ELSE first.excl
    IN [rev  |-> IF Len(second.rev) > 0 THEN second.rev ELSE first.rev,
        excl |-> IF Len(ltf.notRevision) > 0 THEN ltf.notRevision ELSE excl]

\* The commits reachable from c through parents, c included.
CommitGraph == [node |-> Commits, edge |-> {<<c, p>> \in Commits \X Commits : p \in Parents[c]}]
History(c) == {c} \cup Gr!Descendants(CommitGraph, c)

\* doltdb.NewCommitSpec and Resolve, for a ref name.
Resolves(s) == Len(s) = 1 /\ s[1] \in DOMAIN RefCommit
Resolve(s) == RefCommit[s[1]]

\* RowIter: the commits listed, as a set (the topological order of the
\* commit walk is not modelled), or the error.  Without a revision the
\* session head is logged; with an excluded revision the dot-dot walk
\* drops everything reachable from it; matchFunc keeps commits with at
\* least minParents parents.
RowIter(ltf) ==
    LET args == evaluateArguments(ltf)
        tip  == IF Len(args.rev) > 0 THEN Resolve(args.rev) ELSE SessionHead
        gone == IF Len(args.excl) > 0 THEN History(Resolve(args.excl)) ELSE {}
    IN IF (Len(args.rev) > 0 /\ ~Resolves(args.rev)) \/ (Len(args.excl) > 0 /\ ~Resolves(args.excl))
       THEN [err |-> "ErrResolve"]
       ELSE [err |-> NoError,
             commits |-> {c \in History(tip) \ gone : Cardinality(Parents[c]) >= ltf.minParents}]

\* The whole call: dolt_log(exprs) as a query.
DoltLog(exprs) ==
    LET w == WithExpressions(exprs) IN
    IF w.err # NoError THEN w ELSE RowIter(w.ltf)

=============================================================================
