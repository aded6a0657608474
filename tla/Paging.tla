-------------------------------- MODULE Paging --------------------------------
(***************************************************************************)
(* ORDER BY, LIMIT and OFFSET, and the page meta data that the lists of    *)
(* bookings and of salons share.  A list ordered by a column that may tie  *)
(* is the set of lists the database may return.                            *)
(***************************************************************************)
EXTENDS Integers, Sequences, FiniteSets, SequencesExt

(* The lists ORDER BY allows for the rows S: worse(a, b) sorts b first.     *)
Orderings(S, worse(_, _)) ==
  {q \in SetToSeqs(S) : \A i, j \in DOMAIN q : i < j => ~worse(q[i], q[j])}

Limited(lists, n) == {SubSeq(q, 1, IF Len(q) < n THEN Len(q) ELSE n) : q \in lists}

(* LIMIT and OFFSET.                                                        *)
PageOf(list, page, perPage) ==
  SubSeq(list, (page - 1) * perPage + 1,
         IF page * perPage > Len(list) THEN Len(list) ELSE page * perPage)

(* Math.ceil(total / perPage).                                              *)
TotalPages(total, perPage) == (total + perPage - 1) \div perPage

(* Math.round(Number(paise) / 100), half up.                                *)
Rounded(paise) == (paise + 50) \div 100
=============================================================================
