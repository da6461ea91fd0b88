---------------------------- MODULE Environment ----------------------------
(***************************************************************************)
(* The environment variables that setup changes (install.iss,              *)
(* environment.inc.iss).  A variable is kept in the registry, for all      *)
(* users or for one; setup notes in setup.ini what it has set, so that a   *)
(* later setup, or the removal of the program, can tell its own values     *)
(* from those of the user.                                                 *)
(*                                                                         *)
(* A value is a sequence of texts, as GetEnvStrings() returns it: the      *)
(* directories of PATH, or one text.  A variable that is not set is <<>>.  *)
(***************************************************************************)
EXTENDS Naturals, Sequences

CONSTANTS
  Text,       \* the texts a value is made of
  SshVars,    \* GIT_SSH and SVN_SSH
  Plinks,     \* the paths to plink.exe the user may choose
  HomeDir,    \* {%HOMEDRIVE}{%HOMEPATH}
  Other,      \* the values the process sees where the registry key has none
  UserValues  \* what the user may set each variable to

Managed   == SshVars \cup {"HOME"}
Variables == Managed \cup {"PATH"}
Ini       == "setup.ini"
CmdDir    == "cmd"      \* {app}\cmd
BinDir    == "bin"      \* {app}\bin
PathOptions == {"BashOnly", "Cmd", "CmdTools"}
OpenSSH   == "OpenSSH"

\* No directory of the installation is in the path twice.
AppDir == {CmdDir, BinDir}
AddedOnce(path) ==
  \A i, j \in DOMAIN path : path[i] = path[j] /\ path[i] \in AppDir => i = j

ASSUME EnvironmentAssumption ==
  /\ {"HOME", "PATH", Ini} \cap SshVars = {}
  /\ OpenSSH \notin Plinks
  /\ {CmdDir, BinDir, HomeDir} \cup Plinks \subseteq Text
  /\ Other \in [Variables -> Seq(Text)]
  /\ \A v \in Variables : UserValues[v] \subseteq Seq(Text)
  /\ \A path \in UserValues["PATH"] : AddedOnce(path)

VARIABLES
  reg,      \* the registry key that setup uses
  ini,      \* setup.ini; <<>> for what is not in it
  writer,   \* history: who wrote each managed variable last
  written,  \* history: what setup has ever written
  lost,     \* history: the variables whose change or note has ever failed
  own       \* history: the user's directories in PATH

environment == <<reg, ini, writer, written, lost, own>>

\* The directories outside the installation: Pos(AppDir+'\', ...) <> 1.
Foreign(path) ==
  LET kept[n \in 0..Len(path)] ==
        IF n = 0 THEN <<>>
        ELSE IF path[n] \in AppDir THEN kept[n - 1] ELSE Append(kept[n - 1], path[n])
  IN kept[Len(path)]

EnvInit ==
  /\ reg \in [Variables -> UNION {UserValues[v] : v \in Variables}]
  /\ \A v \in Variables : reg[v] \in UserValues[v]
  /\ ini = [v \in Managed |-> <<>>]
  /\ writer = [v \in Managed |-> IF reg[v] = <<>> THEN "none" ELSE "user"]
  /\ written = {} /\ lost = {}
  /\ own = Foreign(reg["PATH"])

\* GetEnvStrings: the registry, or else what the process has.
GetEnvStrings(v) == IF reg[v] # <<>> THEN reg[v] ELSE Other[v]

\* Variant: whatever value a variable has that setup once set.
SetByUsOnce(v) == ini[v] # <<>>

\* The value is the one that setup has noted.
SetByUs(v) == GetEnvStrings(v) = ini[v]

\* HOME is empty when it is looked at again, after the attempt to delete it.
HomeIsFree(broken) ==
  \/ GetEnvStrings("HOME") = <<>>
  \/ SetByUs("HOME") /\ (reg["HOME"] = <<>> \/ "HOME" \notin broken)

\* What the chosen options want set.
Wanted(path, ssh, broken) ==
  (IF ssh = OpenSSH THEN {} ELSE SshVars) \cup
  (IF path = "CmdTools" /\ HomeIsFree(broken) THEN {"HOME"} ELSE {})

AppDirs(path) ==
  CASE path = "BashOnly" -> <<>> [] path = "Cmd" -> <<CmdDir>> [] path = "CmdTools" -> <<CmdDir, BinDir>>

\* Variant: the directories of an earlier installation stay.
RegAfterAppend(wanted, value, path, broken) ==
  [v \in Variables |->
    IF v \in broken THEN reg[v]
    ELSE IF v = "PATH" THEN GetEnvStrings("PATH") \o AppDirs(path)
    ELSE IF v \in wanted THEN <<value[v]>>
    ELSE IF SetByUs(v) THEN <<>> ELSE reg[v]]

\* The registry after a change that sets `wanted' to `value' and takes back the rest;
\* `broken' are the variables that cannot be written.
RegAfter(wanted, value, path, broken) ==
  [v \in Variables |->
    IF v \in broken THEN reg[v]
    ELSE IF v = "PATH" THEN Foreign(GetEnvStrings("PATH")) \o AppDirs(path)
    ELSE IF v \in wanted THEN <<value[v]>>
    ELSE IF SetByUs(v) THEN <<>> ELSE reg[v]]

WriterAfter(wanted, broken) ==
  [v \in Managed |->
    IF v \in broken THEN writer[v]
    ELSE IF v \in wanted THEN "setup" ELSE IF SetByUs(v) THEN "none" ELSE writer[v]]

\* Variant: HOME is set and not noted.
IniAfterNoHome(wanted, value) ==
  [v \in Managed |-> IF v \in wanted \ {"HOME"} THEN <<value[v]>> ELSE ini[v]]

\* What is in setup.ini afterwards, if it can be written.
IniAfter(wanted, value) == [v \in Managed |-> IF v \in wanted THEN <<value[v]>> ELSE ini[v]]

\* Each write may fail; a failure is reported and the rest goes on.
Failed(broken) == IF Ini \in broken THEN Managed \cup (broken \ {Ini}) ELSE broken

\* "Modify the environment" of CurStepChanged().
SetEnvironment(path, ssh, broken) ==
  LET wanted == Wanted(path, ssh, broken)
      value  == [v \in Managed |-> IF v = "HOME" THEN HomeDir ELSE ssh]
  IN /\ reg' = RegAfter(wanted, value, path, broken)
     /\ ini' = IF Ini \in broken THEN ini ELSE IniAfter(wanted, value)
     /\ writer' = WriterAfter(wanted, broken)
     /\ written' = written \cup {<<v, value[v]>> : v \in wanted}
     /\ lost' = lost \cup Failed(broken)
     /\ UNCHANGED own

\* "Modify the environment" of CurUninstallStepChanged().
ResetEnvironment(broken) ==
  /\ reg' = RegAfter({}, <<>>, "BashOnly", broken)
  /\ ini' = IF Ini \in broken THEN ini ELSE [v \in Managed |-> <<>>]
  /\ writer' = WriterAfter({}, broken)
  /\ lost' = lost \cup Failed(broken)
  /\ UNCHANGED <<written, own>>

\* The user changes a variable.
UserSets(v, value) ==
  /\ value # reg[v]
  /\ reg' = [reg EXCEPT ![v] = value]
  /\ IF v = "PATH" THEN own' = Foreign(value) /\ UNCHANGED writer
     ELSE writer' = [writer EXCEPT ![v] = IF value = <<>> THEN "none" ELSE "user"] /\ UNCHANGED own
  /\ UNCHANGED <<ini, written, lost>>

-----------------------------------------------------------------------------
EnvTypeOK ==
  /\ reg \in [Variables -> Seq(Text)]
  /\ ini \in [Managed -> Seq(Text)]
  /\ writer \in [Managed -> {"none", "user", "setup"}]
  /\ written \subseteq Managed \X Text
  /\ lost \subseteq Variables
  /\ own \in Seq(Text)
=============================================================================
