---------------------------- MODULE MCIoreqServer ----------------------------
(* Two vCPUs, one kind of access that is served and one that is not, every *)
(* command, and for the commands that have them sizes beyond the limits.   *)
EXTENDS Dispatch

CONSTANT Commands

MCMessages ==
    [version : {1}, command : Commands, fits : {TRUE}]
    \cup [version : {1}, command : Commands \cap {"SET", "NEXT"}, fits : {FALSE}]
    \cup [version : {2}, command : {"GET"}, fits : {TRUE}]
=============================================================================
