---------------------------- MODULE MCPagination ----------------------------
(* Up to three rows, shown one or two to a page.                           *)
EXTENDS Pagination, TLC

Alike == Permutations(Rows)
=============================================================================
