----------------------------- MODULE MCWhoUses -----------------------------
(* Three handles, the second of a process that cannot be opened.  A handle    *)
(* may be a file with the name that is looked for, one whose name is 256      *)
(* bytes long, a thread, an event, or of a type that the table of types does  *)
(* not have.  A snapshot that fails ends the program at once, and nothing     *)
(* moves afterwards.                                                          *)
EXTENDS WhoUses

MCNext == pc \notin {"done", "failed", "locked"} /\ Next

MCSpec == Init /\ [][MCNext]_vars /\ WF_vars(Main)
=============================================================================
