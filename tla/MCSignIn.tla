----------------------------- MODULE MCSignIn -----------------------------
(* Two requests at a time, one integration.                                *)
EXTENDS SignIn, TLC

CONSTANTS c1, c2, i1, i2

TwoCallers == {c1, c2}
SmallIds == {i1, i2}
\* One hazard to a play: devices revoked and days passing; the password changed; an integration
\* uninstalled while it pairs, or while it is given its secret; what a paired device may do.
EachPlay ==
    { {"revoke", "read", "day"}, {"password"}, {"install", "uninstall", "console"},
      {"install", "uninstall", "deposit"}, {"install", "mint"},
      {"install", "disable", "console", "read"} }

Interchangeable == Permutations(TwoCallers) \union Permutations(SmallIds)

=============================================================================
