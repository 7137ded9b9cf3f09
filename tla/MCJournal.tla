------------------------------ MODULE MCJournal ------------------------------
(***************************************************************************)
(* The instance of Journal.tla and EventStream.tla for TLC.                *)
(***************************************************************************)
EXTENDS EventStream, SequencesExt

CONSTANTS k1, k2   \* readers

(* The order of list_events is the library's.                              *)
ASSUME AscendingIsSorted == \A S \in SUBSET Seqs : Ascending(S) = SetToSortSeq(S, <)

==============================================================================
