---------------------------- MODULE MCAceServer ----------------------------
(* Two processes and two clients; four starts let a process crash, its     *)
(* successor crash or stop, and a third one come up, beside another or not.*)
EXTENDS AceServer

=============================================================================
