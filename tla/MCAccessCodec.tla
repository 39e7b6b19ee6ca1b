---------------------------- MODULE MCAccessCodec ----------------------------
(***************************************************************************)
(* Access.Deserialize applied to saved blobs the editor did not produce:   *)
(* every blob with at most one element per vector, over strings of one and *)
(* two characters, where MaxExprLen (math.MaxUint16 scaled down) is one.   *)
(***************************************************************************)
EXTENDS MCBranchControl

VARIABLE fb    \* the blob handed to Deserialize

Strs == {<<"a">>, <<"a", "a">>}

MatchExprBlobs == [collection_index : {0}, sort_orders : Strs]
ValueBlobs     == [branch : Strs, user : {<<"u">>}, host : {<<"%">>},
                   permissions : {Permissions_Admin}]

\* Vectors of length zero or one.
Vec(S) == {<<>>} \cup {<<x>> : x \in S}

Blobs == [binlog : {<<>>}, branches : Vec(MatchExprBlobs), users : Vec(MatchExprBlobs),
          hosts : Vec(MatchExprBlobs), values : Vec(ValueBlobs)]

CodecInit ==
    /\ tbl = EmptyAccess
    /\ selected = [s \in Sessions |-> NoRow]
    /\ fb \in Blobs

CodecNext == UNCHANGED <<tbl, selected, fb>>

\* I1 and I5 of a blob: parallel vectors, and no expression or value
\* string longer than the editor accepts.
BlobParallel(b) ==
    Len(b.branches) = Len(b.users) /\ Len(b.users) = Len(b.hosts) /\ Len(b.hosts) = Len(b.values)

BlobShortStrings(b) ==
    /\ \A col \in {"branches", "users", "hosts"} : \A i \in DOMAIN b[col] :
         Len(b[col][i].sort_orders) <= MaxExprLen
    /\ \A i \in DOMAIN b.values :
         Len(b.values[i].branch) <= MaxExprLen /\ Len(b.values[i].user) <= MaxExprLen
                                               /\ Len(b.values[i].host) <= MaxExprLen

\* Spec 4.3: Deserialize fails exactly when the input breaks I1 or I5, so a
\* store loaded at startup satisfies the invariants the editor maintains.
DeserializeChecksInvariants ==
    (Deserialize(EmptyAccess, fb).err = "none") <=> (BlobParallel(fb) /\ BlobShortStrings(fb))

=============================================================================
