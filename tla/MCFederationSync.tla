--------------------------- MODULE MCFederationSync --------------------------
(* Brains have roles (who writes, signs, verifies): wings and versions may be *)
(* exchanged.                                                                 *)
EXTENDS FederationSync, TLC

WingsAndVersions == Permutations(Wing) \union Permutations(Version)
=============================================================================
