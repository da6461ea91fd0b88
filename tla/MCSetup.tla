------------------------------ MODULE MCSetup ------------------------------
(* Three processes and the values of an environment for Setup: "bash" is a    *)
(* console with the core files, "explorer" has the shell extension and can be *)
(* restarted, "service" has both and cannot be opened.  GIT_SSH stands for    *)
(* SVN_SSH too, which is treated alike.                                       *)
(*                                                                            *)
(* The processes and the environment have nothing in common but the phase, so *)
(* a behaviour moves the ones or the other: all of them at once multiplies    *)
(* the states and shows nothing more.                                         *)
EXTENDS Setup

VARIABLE moving  \* "processes" or "environment"

MCText == {CmdDir, BinDir, "home", "plink", "system", "tools", "mine", "ssh"}
MCOther == [v \in Variables |-> IF v = "PATH" THEN <<"system">> ELSE <<>>]
MCUserValues ==
  [v \in Variables |->
    CASE v = "PATH" -> {<<>>, <<"tools">>, <<BinDir, "tools">>}
      [] v = "HOME" -> {<<>>, <<HomeDir>>, <<"mine">>}
      [] OTHER -> {<<>>, <<"plink">>, <<"ssh">>}]

MCInit ==
  /\ Init
  /\ moving \in {"processes", "environment"}
  /\ moving = "processes" => reg = [v \in Variables |-> IF v = "PATH" THEN <<"tools">> ELSE <<>>]
  /\ moving = "environment" => running = {} /\ vista

MCNext ==
  /\ Next
  /\ UNCHANGED moving
  /\ moving = "processes" => UNCHANGED environment
  /\ moving = "environment" => UNCHANGED <<running, file, sessions>>

MCSpec == MCInit /\ [][MCNext]_<<vars, moving>>
=============================================================================
