------------------------- MODULE MCMultiArchManifest -------------------------
(* The two arch jobs of the script.                                         *)
EXTENDS MultiArchManifest

MCArches == {"amd64", "arm64"}

=============================================================================
