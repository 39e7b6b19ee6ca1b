--------------------------- MODULE MCBranchControl ---------------------------
(* Finite instance of BranchControl for TLC.                                *)
EXTENDS BranchControl

\* The superuser r@h and one ordinary session u@h.
MCSuperUser == <<"r">>
MCSuperHost == <<"h">>
MCSessions  == {[user |-> MCSuperUser, host |-> MCSuperHost],
                [user |-> <<"u">>, host |-> <<"h">>]}

\* "A" folds to "a"; "%%" folds to "%"; "a%" is longer than MCMaxExprLen.
MCBranchInputs == {<<"A">>, <<"%", "%">>, <<"_">>, <<"a", "%">>}
MCUserInputs   == {<<"u">>, <<"%">>}
MCHostInputs   == {<<"%">>}
MCPermInputs   == {Permissions_Admin, Permissions_Write}

\* Branch names: "a" (matched by "a", "_" and "%"), "aa" (only by "%"),
\* and a name spelled with the wildcard characters.
MCBranchNames == {<<"a">>, <<"a", "a">>, <<"%">>}

MCMaxExprLen == 1
MCMaxRows    == 2

=============================================================================
