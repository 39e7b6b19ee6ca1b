---------------------------- MODULE BranchControl ----------------------------
(***************************************************************************)
(* The dolt_branch_control rule store (branch_control.Access) and the     *)
(* table editor that mutates it (dtables.BranchControlTable).             *)
(*                                                                         *)
(* Every editor operation runs to completion under the store's write lock *)
(* (Insert, Update, Delete take tbl.RWMutex.Lock and release it with      *)
(* defer), so each is one atomic action.  What is not atomic is an SQL     *)
(* UPDATE statement: the engine first reads the rows (under the read lock, *)
(* PartitionRows) and later hands each read row with its new values to     *)
(* Update.  SelectRow models that read; other sessions may act between.    *)
(* A DELETE statement also hands Delete a row read from PartitionRows; as  *)
(* Delete of a row no longer present is a no-op, its read is folded into   *)
(* the Delete action.                                                      *)
(***************************************************************************)
EXTENDS Naturals, Sequences, FiniteSets, FiniteSetsExt, SequencesExt, Bitwise, Matcher

CONSTANTS
    Sessions,        \* the principals issuing statements: [user, host] records
    SuperUser,       \* Access.SuperUser
    SuperHost,       \* Access.SuperHost
    BranchInputs,    \* raw branch expressions a statement may write
    UserInputs,      \* raw user expressions
    HostInputs,      \* raw host expressions
    PermInputs,      \* permission bit sets a statement may write
    BranchNames,     \* concrete branch names an access check may ask about
    MaxExprLen,      \* math.MaxUint16, the longest folded expression accepted
    MaxRows          \* bound on the number of stored rows (state space only)

VARIABLES
    tbl,        \* the Access struct: Branches, Users, Hosts, Values
    selected    \* per session, the row its UPDATE statement read, or NoRow

vars == <<tbl, selected>>

Permissions_Admin == 1
Permissions_Write == 2

NoRow == [none |-> TRUE]

Super == [user |-> SuperUser, host |-> SuperHost]

\* A row as the SQL layer sees it: (branch, user, host, permissions).
Row(b, u, h, p) == [Branch |-> b, User |-> u, Host |-> h, Permissions |-> p]

\* The rows PartitionRows returns: the synthetic superuser row, then Values.
PartitionRows(t) ==
    {Row(<<AnyMatch>>, SuperUser, SuperHost, Permissions_Admin)}
        \cup {t.Values[i] : i \in DOMAIN t.Values}

-----------------------------------------------------------------------------
(* Access.Match and its helpers (access.go)                                 *)

\* An index out of range in filterHosts, filterBranches or gatherPermissions:
\* Match panics instead of returning (MatchPanic), and the handler that called
\* it ends with the panic (Panic) before changing anything.
MatchPanic == [panicked |-> TRUE]
Panic == "panic"

\* Match(expressions, str, collation): the collection indexes of the
\* expressions that match str.
MatchExprs(exprs, str, collation) ==
    {e.CollectionIndex : e \in {e \in exprs : Like(e.SortOrders, str, collation)}}

\* filterHosts / filterBranches: the expressions at the given indexes of one
\* column; indexes outside the column are reported separately as a panic.
Filter(column, filters) == {column[f + 1] : f \in {f \in filters : f < Len(column)}}

InRange(column, filters) == \A f \in filters : f < Len(column)

\* Mutant of gatherPermissions: each matching row's permissions overwrite
\* the previous ones (perms = ... for perms |= ...), so the last row wins.
gatherPermissionsLast(t, collectionIndexes) ==
    LET inRange == {i \in collectionIndexes : i < Len(t.Values)} IN
    IF inRange = {} THEN 0 ELSE t.Values[Max(inRange) + 1].Permissions

gatherPermissions(t, collectionIndexes) ==
    FoldSet(LAMBDA x, y : x | y, 0,
            {t.Values[i + 1].Permissions : i \in {i \in collectionIndexes : i < Len(t.Values)}})

\* Mutant of AccessMatch: the branch pass filters the Hosts slice, as a
\* copy of filterHosts would.
AccessMatchBranchesFromHosts(t, branch, user, host) ==
    IF SuperUser = user /\ SuperHost = host
    THEN [matched |-> TRUE, perms |-> Permissions_Admin]
    ELSE LET userIdx   == MatchExprs({t.Users[i] : i \in DOMAIN t.Users}, user, Collation_bin)
             hostIdx   == MatchExprs(Filter(t.Hosts, userIdx), host, Collation_ai_ci)
             branchIdx == MatchExprs(Filter(t.Hosts, hostIdx), branch, Collation_ai_ci)
         IN IF InRange(t.Hosts, userIdx) /\ InRange(t.Branches, hostIdx) /\ InRange(t.Values, branchIdx)
            THEN [matched |-> branchIdx # {}, perms |-> gatherPermissions(t, branchIdx)]
            ELSE MatchPanic

\* Access.Match: the superuser short-circuit, then users, hosts of the
\* surviving rows, branches of the surviving rows, and the OR of the
\* permissions of the rows left.
AccessMatch(t, branch, user, host) ==
    IF SuperUser = user /\ SuperHost = host
    THEN [matched |-> TRUE, perms |-> Permissions_Admin]
    ELSE LET userIdx   == MatchExprs({t.Users[i] : i \in DOMAIN t.Users}, user, Collation_bin)
             hostIdx   == MatchExprs(Filter(t.Hosts, userIdx), host, Collation_ai_ci)
             branchIdx == MatchExprs(Filter(t.Branches, hostIdx), branch, Collation_ai_ci)
         IN IF /\ InRange(t.Hosts, userIdx)
               /\ InRange(t.Branches, hostIdx)
               /\ InRange(t.Values, branchIdx)
            THEN [matched |-> branchIdx # {}, perms |-> gatherPermissions(t, branchIdx)]
            ELSE MatchPanic

\* Access.GetIndex: the 0-based position of the folded triple, or -1.
GetIndex(t, b, u, h) ==
    LET hits == {i \in DOMAIN t.Values : /\ t.Values[i].Branch = b
                                         /\ t.Values[i].User = u
                                         /\ t.Values[i].Host = h}
    IN IF hits = {} THEN -1 ELSE Min(hits) - 1

-----------------------------------------------------------------------------
(* BranchControlTable.insert / delete (branch_control_table.go)             *)

MatchExpression(ci, so) == [CollectionIndex |-> ci, SortOrders |-> so]

\* Mutant of insert: the new row's collection index is one past its position.
insertIndexPastEnd(t, b, u, h, p) ==
    LET nextIdx == Len(t.Values) + 1 IN
    [Branches |-> Append(t.Branches, MatchExpression(nextIdx, ParseExpression(b, Collation_ai_ci))),
     Users    |-> Append(t.Users,    MatchExpression(nextIdx, ParseExpression(u, Collation_bin))),
     Hosts    |-> Append(t.Hosts,    MatchExpression(nextIdx, ParseExpression(h, Collation_ai_ci))),
     Values   |-> Append(t.Values,   Row(b, u, h, p))]

\* insert: append the parsed expressions and the value, all with the next
\* collection index.  The caller has ruled out a duplicate triple or gets
\* the duplicate-key error from it (see InsertResult).
insert(t, b, u, h, p) ==
    LET nextIdx == Len(t.Values) IN
    [Branches |-> Append(t.Branches, MatchExpression(nextIdx, ParseExpression(b, Collation_ai_ci))),
     Users    |-> Append(t.Users,    MatchExpression(nextIdx, ParseExpression(u, Collation_bin))),
     Hosts    |-> Append(t.Hosts,    MatchExpression(nextIdx, ParseExpression(h, Collation_ai_ci))),
     Values   |-> Append(t.Values,   Row(b, u, h, p))]

\* Swap position i with the last element, then drop the last element.  The
\* moved expression keeps its CollectionIndex.
SwapRemove(column, i) ==
    SubSeq([column EXCEPT ![i] = column[Len(column)]], 1, Len(column) - 1)

delete(t, b, u, h) ==
    LET tblIndex == GetIndex(t, b, u, h) IN
    IF tblIndex = -1 THEN t
    ELSE [col \in DOMAIN t |-> SwapRemove(t[col], tblIndex + 1)]

\* The folding the editor applies to each column of an incoming row.
FoldBranch(s) == ToLower(FoldExpression(s))
FoldUser(s)   == FoldExpression(s)
FoldHost(s)   == ToLower(FoldExpression(s))

\* The length check on the folded expressions (MaxUint16 in the code).
TooLong(b, u, h) == Len(b) > MaxExprLen \/ Len(u) > MaxExprLen \/ Len(h) > MaxExprLen

\* The outcome of a self-authorization check of session s on branch pattern
\* b: "ok", "denied", or Panic.
AdminCheck(t, b, s) ==
    LET m == AccessMatch(t, b, s.user, s.host) IN
    IF m = MatchPanic THEN Panic
    ELSE IF m.perms & Permissions_Admin = Permissions_Admin THEN "ok" ELSE "denied"

\* The subset check: does the table already grant admin on the triple read
\* as a literal (branch, user, host)?  "ok", "subsumed", or Panic.
SubsetCheck(t, b, u, h) ==
    LET m == AccessMatch(t, b, u, h) IN
    IF m = MatchPanic THEN Panic
    ELSE IF m.perms & Permissions_Admin = Permissions_Admin THEN "subsumed" ELSE "ok"

\* A failed check ends the handler with its error, or with the panic.
Deny(check, err) == IF check = Panic THEN Panic ELSE err

-----------------------------------------------------------------------------
(* The handlers (BranchControlTable.Insert, Update, Delete)                 *)

\* Mutant of InsertResult: no duplicate-key check before insert.
InsertResultNoDuplicateCheck(t, s, b, u, h) ==
    IF TooLong(b, u, h) THEN "ErrExpressionsTooLong"
    ELSE IF AdminCheck(t, b, s) # "ok" THEN Deny(AdminCheck(t, b, s), "ErrInsertingRow")
    ELSE IF SubsetCheck(t, b, u, h) # "ok" THEN Deny(SubsetCheck(t, b, u, h), "ErrUniqueKey")
    ELSE "ok"

\* Insert: the early returns in the order of the code, for folded b, u, h.
InsertResult(t, s, b, u, h) ==
    IF TooLong(b, u, h) THEN "ErrExpressionsTooLong"
    ELSE IF AdminCheck(t, b, s) # "ok" THEN Deny(AdminCheck(t, b, s), "ErrInsertingRow")
    ELSE IF SubsetCheck(t, b, u, h) # "ok" THEN Deny(SubsetCheck(t, b, u, h), "ErrUniqueKey")
    ELSE IF GetIndex(t, b, u, h) # -1 THEN "ErrUniqueKey"
    ELSE "ok"

\* Mutant of UpdateResult: the pre-emptive duplicate check is left out.
UpdateResultNoPrecheck(t, s, old, new) ==
    IF TooLong(new.Branch, new.User, new.Host) THEN "ErrExpressionsTooLong"
    ELSE IF AdminCheck(t, old.Branch, s) # "ok"
         THEN Deny(AdminCheck(t, old.Branch, s), "ErrUpdatingRow")
    ELSE IF AdminCheck(t, new.Branch, s) # "ok"
         THEN Deny(AdminCheck(t, new.Branch, s), "ErrUpdatingToRow")
    ELSE IF SubsetCheck(t, new.Branch, new.User, new.Host) # "ok"
         THEN Deny(SubsetCheck(t, new.Branch, new.User, new.Host), "ErrUniqueKey")
    ELSE "apply"

\* Update up to the delete-then-insert: "apply" when every check passed.
UpdateResult(t, s, old, new) ==
    IF TooLong(new.Branch, new.User, new.Host) THEN "ErrExpressionsTooLong"
    ELSE IF /\ old.Branch # new.Branch \/ old.User # new.User \/ old.Host # new.Host
            /\ GetIndex(t, new.Branch, new.User, new.Host) # -1
         THEN "ErrUniqueKey"
    ELSE IF AdminCheck(t, old.Branch, s) # "ok"
         THEN Deny(AdminCheck(t, old.Branch, s), "ErrUpdatingRow")
    ELSE IF AdminCheck(t, new.Branch, s) # "ok"
         THEN Deny(AdminCheck(t, new.Branch, s), "ErrUpdatingToRow")
    ELSE IF SubsetCheck(t, new.Branch, new.User, new.Host) # "ok"
         THEN Deny(SubsetCheck(t, new.Branch, new.User, new.Host), "ErrUniqueKey")
    ELSE "apply"

FoldRow(r) == Row(FoldBranch(r.Branch), FoldUser(r.User), FoldHost(r.Host), r.Permissions)

InputRows == {Row(b, u, h, p) : b \in BranchInputs, u \in UserInputs,
                                h \in HostInputs, p \in PermInputs}

\* The engine reads a row of the table for an UPDATE statement
\* (PartitionRows, under the read lock).
SelectRow(s, r) ==
    /\ selected[s] = NoRow
    /\ r \in PartitionRows(tbl)
    /\ selected' = [selected EXCEPT ![s] = r]
    /\ UNCHANGED tbl

Insert(s, raw) ==
    LET new == FoldRow(raw)
        res == InsertResult(tbl, s, new.Branch, new.User, new.Host)
    IN /\ selected[s] = NoRow
       /\ res = "ok" => Len(tbl.Values) < MaxRows
       /\ tbl' = IF res = "ok"
                 THEN insert(tbl, new.Branch, new.User, new.Host, new.Permissions)
                 ELSE tbl
       /\ UNCHANGED selected

\* Update after its checks passed: delete the old row if present, then
\* insert the new one, whose own duplicate check may still fail.
UpdateApply(t, old, new) ==
    LET afterDelete == delete(t, old.Branch, old.User, old.Host) IN
    IF GetIndex(afterDelete, new.Branch, new.User, new.Host) # -1
    THEN [tbl |-> afterDelete, result |-> "ErrUniqueKey"]
    ELSE [tbl |-> insert(afterDelete, new.Branch, new.User, new.Host, new.Permissions),
          result |-> "ok"]

\* The table and the result Update leaves, for the folded old and new rows.
UpdateOutcome(t, s, old, new) ==
    LET res == UpdateResult(t, s, old, new) IN
    IF res = "apply" THEN UpdateApply(t, old, new) ELSE [tbl |-> t, result |-> res]

Update(s, raw) ==
    LET out == UpdateOutcome(tbl, s, FoldRow(selected[s]), FoldRow(raw)) IN
    /\ selected[s] # NoRow
    /\ Len(out.tbl.Values) <= MaxRows
    /\ tbl' = out.tbl
    /\ selected' = [selected EXCEPT ![s] = NoRow]

DeleteResult(t, s, old) ==
    LET check == AdminCheck(t, old.Branch, s) IN
    IF check = "ok" THEN "ok" ELSE Deny(check, "ErrDeletingRow")

\* Delete of row r, read from PartitionRows by a DELETE statement.
Delete(s, r) ==
    LET old == FoldRow(r) IN
    /\ selected[s] = NoRow
    /\ r \in PartitionRows(tbl)
    /\ tbl' = IF DeleteResult(tbl, s, old) = "ok"
              THEN delete(tbl, old.Branch, old.User, old.Host)
              ELSE tbl
    /\ UNCHANGED selected

-----------------------------------------------------------------------------
(* The binary codec (Access.Serialize, Access.Deserialize)                  *)

\* A flatbuffers vector is built back to front: StartVector, then one
\* PrependUOffsetT per element, from the last offset down to the first, so
\* the vector ends up in slice order.
BuildVector(offsets) == FoldRight(LAMBDA x, vec : <<x>> \o vec, offsets, <<>>)

\* MatchExpression.Serialize / deserializeMatchExpression (spec 4.4: the
\* collection index and the weights).
SerializeMatchExpression(e) == [collection_index |-> e.CollectionIndex, sort_orders |-> e.SortOrders]
deserializeMatchExpression(f) == MatchExpression(f.collection_index, f.sort_orders)

\* AccessValue.Serialize: the three strings and the permission bits.
SerializeAccessValue(v) ==
    [branch |-> v.Branch, user |-> v.User, host |-> v.Host, permissions |-> v.Permissions]

\* Access.Serialize: the binlog (never written by the editor, so empty),
\* then the four vectors of serialized elements.
Serialize(t) ==
    [binlog   |-> <<>>,
     branches |-> BuildVector([i \in DOMAIN t.Branches |-> SerializeMatchExpression(t.Branches[i])]),
     users    |-> BuildVector([i \in DOMAIN t.Users |-> SerializeMatchExpression(t.Users[i])]),
     hosts    |-> BuildVector([i \in DOMAIN t.Hosts |-> SerializeMatchExpression(t.Hosts[i])]),
     values   |-> BuildVector([i \in DOMAIN t.Values |-> SerializeAccessValue(t.Values[i])])]

\* Access.Deserialize into t: refuse a non-empty table and vectors of
\* differing lengths; otherwise read every vector element by element.
Deserialize(t, fb) ==
    IF Len(t.Values) # 0 THEN [err |-> "ErrNonEmpty", tbl |-> t]
    ELSE IF \/ Len(fb.branches) # Len(fb.users)
            \/ Len(fb.users) # Len(fb.hosts)
            \/ Len(fb.hosts) # Len(fb.values)
         THEN [err |-> "ErrFieldLengths", tbl |-> t]
    ELSE [err |-> "none",
          tbl |-> [Branches |-> [i \in DOMAIN fb.branches |-> deserializeMatchExpression(fb.branches[i])],
                   Users    |-> [i \in DOMAIN fb.users |-> deserializeMatchExpression(fb.users[i])],
                   Hosts    |-> [i \in DOMAIN fb.hosts |-> deserializeMatchExpression(fb.hosts[i])],
                   Values   |-> [i \in DOMAIN fb.values |->
                                   Row(fb.values[i].branch, fb.values[i].user,
                                       fb.values[i].host, fb.values[i].permissions)]]]

\* newAccess: the empty store a restarted server deserializes into.
EmptyAccess == [Branches |-> <<>>, Users |-> <<>>, Hosts |-> <<>>, Values |-> <<>>]

\* A restart of the server.  Close (SaveData) serialized the store after
\* every statement; the new server builds an empty Access and deserializes
\* the saved blob into it.  Sessions, and the UPDATEs they had begun, end.
Restart ==
    LET d == Deserialize(EmptyAccess, Serialize(tbl)) IN
    /\ d.err = "none"
    /\ tbl' = d.tbl
    /\ selected' = [s \in Sessions |-> NoRow]

-----------------------------------------------------------------------------

Init ==
    /\ tbl = EmptyAccess
    /\ selected = [s \in Sessions |-> NoRow]

Next ==
    \/ \E s \in Sessions :
          \/ \E r \in PartitionRows(tbl) : SelectRow(s, r)
          \/ \E raw \in InputRows : Insert(s, raw)
          \/ \E raw \in InputRows : Update(s, raw)
          \/ \E r \in PartitionRows(tbl) : Delete(s, r)
    \/ Restart

Spec == Init /\ [][Next]_vars

-----------------------------------------------------------------------------
(* Properties                                                               *)

\* The four slices are parallel (I1) and hold what insert puts in them.
TypeOK ==
    /\ DOMAIN tbl = {"Branches", "Users", "Hosts", "Values"}
    /\ Len(tbl.Branches) = Len(tbl.Values)
    /\ Len(tbl.Users) = Len(tbl.Values)
    /\ Len(tbl.Hosts) = Len(tbl.Values)
    /\ Len(tbl.Values) <= MaxRows
    /\ \A col \in {"Branches", "Users", "Hosts"} : \A i \in DOMAIN tbl[col] :
         tbl[col][i].CollectionIndex \in 0 .. MaxRows - 1
    /\ \A i \in DOMAIN tbl.Values : tbl.Values[i].Permissions \in PermInputs
    /\ \A s \in Sessions : selected[s] = NoRow
                           \/ selected[s].Permissions \in PermInputs \cup {Permissions_Admin}

\* I2: every match expression at position i carries collection index i, so
\* that the index Match returns names the row the expression belongs to.
\* The specification (section 4.6) requires delete's swap to keep this.
CollectionIndexesConsistent ==
    \A col \in {"Branches", "Users", "Hosts"} : \A i \in DOMAIN tbl[col] :
        tbl[col][i].CollectionIndex = i - 1

\* I3: no two stored rows share the folded (branch, user, host) triple, over
\* any sequence of inserts and of updates built from rows read earlier.
UniqueTriples ==
    \A i, j \in DOMAIN tbl.Values :
        /\ tbl.Values[i].Branch = tbl.Values[j].Branch
        /\ tbl.Values[i].User = tbl.Values[j].User
        /\ tbl.Values[i].Host = tbl.Values[j].Host
        => i = j

\* What the rules of table t say about (branch, user, host): the rows whose
\* three patterns all match, and the OR of their permissions.
RuleMatch(t, branch, user, host) ==
    IF SuperUser = user /\ SuperHost = host
    THEN [matched |-> TRUE, perms |-> Permissions_Admin]
    ELSE LET rows == {i \in DOMAIN t.Values :
                        /\ Like(ParseExpression(t.Values[i].User, Collation_bin), user, Collation_bin)
                        /\ Like(ParseExpression(t.Values[i].Host, Collation_ai_ci), host, Collation_ai_ci)
                        /\ Like(ParseExpression(t.Values[i].Branch, Collation_ai_ci), branch, Collation_ai_ci)}
         IN [matched |-> rows # {},
             perms   |-> FoldSet(LAMBDA x, y : x | y, 0, {t.Values[i].Permissions : i \in rows})]

BranchCandidates == BranchNames \cup {FoldBranch(b) : b \in BranchInputs}
UserCandidates   == {s.user : s \in Sessions} \cup {FoldUser(u) : u \in UserInputs}
HostCandidates   == {s.host : s \in Sessions} \cup {FoldHost(h) : h \in HostInputs}

\* The three-pass pipeline of Access.Match (users, then the hosts of the
\* surviving rows, then their branches, then the OR of Values) answers
\* exactly what the rules say, for every branch, user and host an access
\* check or an editor check can ask about, whenever I2 holds.
PipelineSound ==
    CollectionIndexesConsistent =>
        \A b \in BranchCandidates, u \in UserCandidates, h \in HostCandidates :
            AccessMatch(tbl, b, u, h) = RuleMatch(tbl, b, u, h)

RowSet(t) == {t.Values[i] : i \in DOMAIN t.Values}

SameTriple(r1, r2) == r1.Branch = r2.Branch /\ r1.User = r2.User /\ r1.Host = r2.Host

\* A step of session s that ends its UPDATE statement.
UpdateStep(s) == selected[s] # NoRow /\ selected'[s] = NoRow

\* An Update that returns an error leaves the table as it was; one that
\* succeeds replaces the old row (if it was still there) by exactly one new
\* row.  The delete runs before insert's own duplicate check, so a duplicate
\* that reached insert would lose the old row and still fail.
UpdateAllOrNothing ==
    [][\A s \in Sessions :
         UpdateStep(s) =>
           LET rest == {r \in RowSet(tbl) : ~SameTriple(r, FoldRow(selected[s]))} IN
           \/ tbl' = tbl
           \/ \E r \in RowSet(tbl') \ rest : RowSet(tbl') = rest \cup {r}]_vars

\* The permission bits Match grants; a Match that panics grants nothing.
Grants(t, b, u, h) ==
    LET m == AccessMatch(t, b, u, h) IN IF m = MatchPanic THEN 0 ELSE m.perms

\* A step that only appends a row to the store.
AddsRow == Len(tbl'.Values) = Len(tbl.Values) + 1
           /\ SubSeq(tbl'.Values, 1, Len(tbl.Values)) = tbl.Values

\* Spec section 8: Match is monotone, "adding a row only adds bits".  No
\* Insert, and no Update whose old row was already gone, takes a permission
\* bit from any branch, user and host; this has to hold with the stale
\* collection indexes delete leaves behind.
InsertNeverRevokes ==
    [][AddsRow =>
         \A b \in BranchCandidates, u \in UserCandidates, h \in HostCandidates :
            Grants(tbl, b, u, h) | Grants(tbl', b, u, h) = Grants(tbl', b, u, h)]_vars

\* Match never grants a permission bit that no stored row matching the
\* branch, user and host on all three patterns grants: whatever sequence of
\* inserts, updates and deletes built the store, an access check is never
\* more permissive than the rules.  (PipelineSound says more, but only while
\* I2 holds; this is what a caller of Match relies on unconditionally.)
MatchNeverOverGrants ==
    \A b \in BranchCandidates, u \in UserCandidates, h \in HostCandidates :
        Grants(tbl, b, u, h) | RuleMatch(tbl, b, u, h).perms = RuleMatch(tbl, b, u, h).perms

\* An access check on any branch, user and host returns an answer: the
\* collection indexes one pass of Match yields (Users, then the Hosts of the
\* rows left) are always positions of the slice the next pass indexes, so
\* filterHosts, filterBranches and gatherPermissions never index out of
\* range, inside the write lock of an editor call or in a session's check.
MatchNeverPanics ==
    \A b \in BranchCandidates, u \in UserCandidates, h \in HostCandidates :
        AccessMatch(tbl, b, u, h) # MatchPanic

\* The (branch, user, host) candidates row r's three patterns match.
RowCovers(r) ==
    {c \in BranchCandidates \X UserCandidates \X HostCandidates :
        /\ Like(ParseExpression(r.Branch, Collation_ai_ci), c[1], Collation_ai_ci)
        /\ Like(ParseExpression(r.User, Collation_bin), c[2], Collation_bin)
        /\ Like(ParseExpression(r.Host, Collation_ai_ci), c[3], Collation_ai_ci)}

\* I4 (spec section 3): no stored row is dead, that is, matched wherever it
\* matches by another row that grants admin.  Insert and Update refuse a
\* new row that an existing admin row covers (the subset check); the
\* question is whether every order of inserts keeps it so.
NoDeadRows ==
    \A i, j \in DOMAIN tbl.Values :
        i # j /\ tbl.Values[j].Permissions & Permissions_Admin = Permissions_Admin
          => ~(RowCovers(tbl.Values[i]) \subseteq RowCovers(tbl.Values[j]))

\* The concrete branch names on which session s holds admin by the rules.
AdminBranches(t, s) ==
    {n \in BranchNames : RuleMatch(t, n, s.user, s.host).perms & Permissions_Admin = Permissions_Admin}

\* The concrete branch names a branch pattern covers.
Covers(pattern) == {n \in BranchNames : Like(ParseExpression(pattern, Collation_ai_ci), n, Collation_ai_ci)}

\* Self-authorization (spec 4.6): a session may only write, rewrite or
\* remove rules for branches it already administers.  Every branch pattern
\* a successful Insert, Update or Delete writes or removes covers only
\* branch names on which the caller held admin before the call.
SelfAuthorizationSound ==
    [][\A s \in Sessions :
         /\ \A raw \in InputRows :
              /\ Insert(s, raw) /\ InsertResult(tbl, s, FoldRow(raw).Branch,
                                     FoldRow(raw).User, FoldRow(raw).Host) = "ok"
                   => Covers(FoldRow(raw).Branch) \subseteq AdminBranches(tbl, s)
              /\ Update(s, raw)
                 /\ UpdateOutcome(tbl, s, FoldRow(selected[s]), FoldRow(raw)).result = "ok"
                   => Covers(FoldRow(raw).Branch) \cup Covers(FoldRow(selected[s]).Branch)
                        \subseteq AdminBranches(tbl, s)
         /\ \A r \in PartitionRows(tbl) :
              Delete(s, r) /\ DeleteResult(tbl, s, FoldRow(r)) = "ok"
                => Covers(FoldRow(r).Branch) \subseteq AdminBranches(tbl, s)]_vars

=============================================================================
