------------------------ MODULE MCSessionPersistence ------------------------
(***************************************************************************)
(* Two contents of the cells, a context of three cells and six host       *)
(* operations: enough to save, generate further, crash in the middle of a *)
(* save and restore from every kind of file.                               *)
(***************************************************************************)
EXTENDS SessionPersistence

CONSTANTS t1, t2

MCTags == {t1, t2}

=============================================================================
