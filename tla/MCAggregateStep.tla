-------------------------- MODULE MCAggregateStep --------------------------
(***************************************************************************)
(* Tables of up to four rows over two keys and None: a group of several    *)
(* rows can come before, between or after others, and each limit is below, *)
(* at and above the number of groups.                                      *)
(***************************************************************************)
EXTENDS AggregateStep

MCKey == {1, 2}
=============================================================================
