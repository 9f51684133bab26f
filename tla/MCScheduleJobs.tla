--------------------------- MODULE MCScheduleJobs ---------------------------
(* Small instances of ScheduleJobs.                                        *)
EXTENDS ScheduleJobs

CONSTANT MCBadOnce  \* configurations a trigger that fires once does not take

MCBadTriggers == {"once"} \X MCBadOnce

=============================================================================
