---------------------------- MODULE MCEnrichment ----------------------------
(* One product and one item of a user.  Enrichment.cfg: two jobs at once,    *)
(* with a store and a change by users.  EnrichmentRace.cfg: three jobs on    *)
(* two workers, with a change but no store, so that two jobs look for the    *)
(* same rows at once and a third comes after them.                           *)
EXTENDS Enrichment, TLC

CONSTANTS t1, t2, t3, milk, shop, u1

TwoTxns == {t1, t2}
ThreeTxns == {t1, t2, t3}
OneName == {milk}
OneStore == {shop}
OneUserItem == {u1}

TxnSymmetry == Permutations(ThreeTxns)
================================================================================
