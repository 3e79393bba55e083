---------------------------- MODULE MCFormation ----------------------------
(***************************************************************************)
(* Three nodes with configuration files that agree or do not.              *)
(***************************************************************************)
EXTENDS FormationProperties

CONSTANTS n1, n2, n3

Lines(election, cluster) == [election_nodes |-> election, cluster_nodes |-> cluster]

\* Two files that differ in their order, one whose endpoints do not pair up, and
\* two that are refused.
Files ==
  {Lines(<<n1, n2, n3>>, <<n1, n2, n3>>),
   Lines(<<n3, n1, n2>>, <<n3, n1, n2>>),
   Lines(<<n1, n2, n3>>, <<n2, n3, n1>>),
   Lines(<<n1, n2, n3>>, <<n1, n2>>),
   Lines(<<n1, n2, n2>>, <<n1, n2, n3>>)}
=============================================================================
