----------------------------- MODULE MCJournal -----------------------------
(* A ring that holds two, files of three bytes and records of one or two: *)
(* five records turn the files over more than once.                       *)
EXTENDS Journal
=============================================================================
