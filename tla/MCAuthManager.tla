--------------------------- MODULE MCAuthManager ---------------------------
(***************************************************************************)
(* Two tabs, the lifecycle of an earlier visit and two logins.             *)
(***************************************************************************)
EXTENDS AuthManager, TLC

CONSTANTS t1, t2, m, n, o

MCTabs == {t1, t2}
MCIds == {m, n, o}
MCSymmetry == Permutations(MCTabs) \cup Permutations({n, o})
=============================================================================
