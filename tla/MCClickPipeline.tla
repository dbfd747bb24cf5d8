---------------------------- MODULE MCClickPipeline ----------------------------
(* One redirect-service pod and one analytics-service pod for TLC.         *)
EXTENDS ClickPipeline

CONSTANT r1
OneReplica == {r1}
Clicks == 1..MaxClicks
NoClick == {}
================================================================================
