---------------------------- MODULE MCStorySchedule ----------------------------
(***************************************************************************)
(* StorySchedule on small instances.                                       *)
(***************************************************************************)
EXTENDS StorySchedule
================================================================================
