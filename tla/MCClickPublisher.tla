--------------------------- MODULE MCClickPublisher ----------------------------
(* ClickPublisher with the values of its constants given by the .cfg files. *)
EXTENDS ClickPublisher, TLC
================================================================================
