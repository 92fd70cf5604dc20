------------------------------ MODULE MCWalLog ------------------------------
(* WalLog with two connections and a database of two pages.                 *)
EXTENDS WalLog, TLC

CONSTANTS c1, c2

MCConn == {c1, c2}
MCPage == {1, 2}

\* One page or both, written in this order.
MCWriteLists == {<<1>>, <<1, 2>>}

\* The connections are alike.
Symmetry == Permutations(MCConn)
=============================================================================
