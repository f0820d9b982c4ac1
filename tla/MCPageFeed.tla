----------------------------- MODULE MCPageFeed -----------------------------
(***************************************************************************)
(* The instance of the page: the contents of a loop's sections are counted *)
(* up, and another client shares the broadcasts.                           *)
(***************************************************************************)
EXTENDS PageFeed

CONSTANT MaxContent

MCContents == 1 .. MaxContent
=============================================================================
