-------------------------------- MODULE Setup --------------------------------
(***************************************************************************)
(* The installer and the uninstaller (install.iss, modules.inc.iss): the   *)
(* page that lists the processes which use files that are to be replaced,  *)
(* the Restart Manager session behind it, the replacement of a file in     *)
(* use, and the environment (module Environment).                          *)
(*                                                                         *)
(* Processes start and exit at any time; what setup knows of them is as    *)
(* old as the last refresh of the list.                                    *)
(***************************************************************************)
EXTENDS Environment, FiniteSets

CONSTANTS
  Process,     \* the processes that use a file of the installation when they run
  Core,        \* those that use msys-1.0.dll, tcl85.dll or tk85.dll
  Shell,       \* those that use the shell extension
  Registered,  \* those that can be restarted: RM_PROCESS_INFO.bRestartable
  Opaque,      \* those that OpenProcess() is refused
  MaxSessions  \* Restart Manager sessions that can be open, 64 on Windows

ASSUME SetupAssumption ==
  /\ Core \cup Shell = Process
  /\ Registered \subseteq Process /\ Opaque \subseteq Process
  /\ MaxSessions \in Nat

VARIABLES
  vista,      \* Version.Major >= 6
  phase,      \* where setup or the uninstaller is; "idle" when neither runs
  running,    \* the processes that run
  SessionHandle,
  sessions,   \* how many sessions this run of setup has started and not ended
  Processes,  \* the list of the page: processes with the flag Restartable
  enabled,    \* ContinueButton.Enabled
  seen,       \* history: the last refresh read the whole list
  fresh,      \* history: processes that started after the last refresh
  agreed,     \* history: processes in the list when the user agreed to go on
  closed,     \* the processes that this run of setup has shut down and not restarted
  installed,
  cheetah,    \* the shell extension is among the components of this installation
  curFile,    \* the shell extension: "none", "old" or "new"
  newFile,    \* the file with the suffix .new exists
  server,     \* the shell extension is registered
  manual      \* what the message of ReplaceInUseFile() tells the user to do

list  == <<SessionHandle, sessions, Processes, enabled, seen, fresh, agreed>>
rm    == <<running, closed>>
file  == <<cheetah, curFile, newFile, server, manual>>
setup == <<vista, phase, installed, list, rm, file>>
vars  == <<setup, environment>>

Init ==
  /\ EnvInit
  /\ vista \in BOOLEAN /\ phase = "idle" /\ installed = FALSE
  /\ running \in SUBSET Process
  /\ SessionHandle = 0 /\ sessions = 0 /\ Processes = {} /\ enabled = TRUE
  /\ seen = FALSE /\ fresh = {} /\ agreed = {} /\ closed = {}
  /\ cheetah = FALSE /\ curFile = "none" /\ newFile = FALSE /\ server = FALSE /\ manual = {}

-----------------------------------------------------------------------------
(* The list of processes.                                                    *)

Entries(procs, restartable) == {[id |-> p, restartable |-> restartable] : p \in procs}
Listed == {e.id : e \in Processes}

\* Variant: the message is shown, and "Next" works.
ClosingRequiredNever == FALSE

ClosingRequired == \E e \in Processes : ~e.restartable

\* FindProcessesUsingModules_WinVista with the five modules.  Each call starts a session; the
\* handle is any number, of which 0 and 1 differ.  What cannot be opened is not in the list.
FindWinVista(started, handle, got) ==
  LET using == running
      found == started /\ got /\ using # {}
  IN /\ started => sessions < MaxSessions
     /\ sessions' = IF started THEN sessions + 1 ELSE sessions
     /\ SessionHandle' = IF found THEN handle ELSE 0
     /\ Processes' = IF found THEN Entries((using \ Opaque) \cap Registered, TRUE) \cup
                                   Entries((using \ Opaque) \ Registered, FALSE)
                     ELSE {}
     /\ seen' = (started /\ got)

\* Before Vista: twice FindProcessesUsingModules_Win2000 (or _Win95); Restartable says that
\* closing is optional.
FindWin2000(gotCore, gotShell) ==
  /\ SessionHandle' = IF gotCore \/ gotShell THEN 1 ELSE 0
  /\ Processes' = (IF gotCore THEN Entries((running \cap Core) \ Opaque, FALSE) ELSE {}) \cup
                  (IF gotShell THEN Entries((running \cap Shell) \ Opaque, TRUE) ELSE {})
  /\ seen' = (gotCore /\ gotShell)
  /\ UNCHANGED sessions

\* Sender is NIL (`first') or the button "Refresh"; a handle of 0 is taken for a failure then,
\* nothing is shown, and nothing has to be closed.  The wizard has no ContinueButton.
RefreshProcessList(first) ==
  /\ IF vista THEN \E started, got \in BOOLEAN, handle \in {0, 1} : FindWinVista(started, handle, got)
              ELSE \E gotCore, gotShell \in BOOLEAN : FindWin2000(gotCore, gotShell)
  /\ enabled' = \/ phase = "wizard" \/ phase = "page"
                 \/ ~ClosingRequired' \/ (~first /\ SessionHandle' = 0)
  /\ fresh' = {}

-----------------------------------------------------------------------------
(* The wizard.                                                               *)

\* A process of its own: the first pages of the wizard, or the uninstaller.
Start(next) ==
  /\ phase \in {"idle", "aborted"}
  /\ next = "uninstaller" => installed
  /\ phase' = next
  /\ SessionHandle' = 0 /\ sessions' = 0 /\ Processes' = {} /\ enabled' = TRUE /\ seen' = FALSE
  /\ fresh' = {} /\ agreed' = {} /\ closed' = {} /\ cheetah' = FALSE /\ manual' = {}
  /\ curFile' = IF curFile = "none" THEN "none" ELSE "old"
  /\ UNCHANGED <<vista, running, installed, newFile, server, environment>>

\* ShouldSkipPage for the processes page.
ShouldSkipPage ==
  /\ phase = "wizard"
  /\ RefreshProcessList(TRUE)
  /\ phase' = IF Processes' = {} THEN "install" ELSE "page"
  /\ UNCHANGED <<vista, installed, agreed, rm, file, environment>>

\* The button "Refresh", of the wizard and of the uninstaller.
Refresh ==
  /\ phase \in {"page", "form"}
  /\ RefreshProcessList(FALSE)
  /\ UNCHANGED <<vista, phase, installed, agreed, rm, file, environment>>

\* NextButtonClick on the processes page; when a process must be closed, or the user says No,
\* nothing happens.
NextButtonClick ==
  /\ phase = "page" /\ ~ClosingRequired
  /\ phase' = "install" /\ agreed' = Listed
  /\ UNCHANGED <<vista, installed, SessionHandle, sessions, Processes, enabled, seen, fresh, rm, file, environment>>

Cancel ==
  /\ phase \in {"wizard", "page", "form"}
  /\ phase' = "idle"
  /\ UNCHANGED <<vista, installed, list, rm, file, environment>>

-----------------------------------------------------------------------------
(* Installation.                                                             *)

\* Variant: RmForceShutdown, with no regard to what is registered.
ShutdownForce(closing) ==
  /\ phase = "install"
  /\ phase' = "copying"
  /\ IF SessionHandle > 0 /\ vista THEN closing \subseteq running ELSE closing = {}
  /\ running' = running \ closing /\ closed' = closing
  /\ UNCHANGED <<vista, installed, list, file, environment>>

\* Variant: a handle of 0, which FindProcessesUsingModules() returns for a failure, is used.
ShutdownAnyHandle(closing) ==
  /\ phase = "install"
  /\ phase' = "copying"
  /\ IF vista /\ running \subseteq Registered THEN closing \subseteq running ELSE closing = {}
  /\ running' = running \ closing /\ closed' = closing
  /\ UNCHANGED <<vista, installed, list, file, environment>>

\* RmShutdown(..., RmShutdownOnlyRegistered, 0): nothing is closed unless every process that
\* uses the files is registered; one that is told to close may not.  Its result is ignored.
Shutdown(closing) ==
  /\ phase = "install"
  /\ phase' = "copying"
  /\ IF SessionHandle > 0 /\ vista /\ running \subseteq Registered
       THEN closing \subseteq running ELSE closing = {}
  /\ running' = running \ closing /\ closed' = closing
  /\ UNCHANGED <<vista, installed, list, file, environment>>

\* The files are copied; the shell extension, if it is among the components, as a .new file.
\* One that could not be put in place by an earlier setup may still be there.
Copy ==
  /\ phase = "copying"
  /\ phase' = "post" /\ installed' = TRUE
  /\ cheetah' \in BOOLEAN /\ newFile' = (newFile \/ cheetah')
  /\ UNCHANGED <<vista, list, rm, curFile, server, manual, environment>>

\* A file cannot be written and the user gives up: CurStepChanged(ssPostInstall) is never called.
Abort ==
  /\ phase = "copying"
  /\ phase' = "aborted"
  /\ UNCHANGED <<vista, installed, list, rm, file, environment>>

ModifyEnvironment(path, ssh, broken) ==
  /\ phase = "post"
  /\ phase' = "replace"
  /\ SetEnvironment(path, ssh, broken)
  /\ UNCHANGED <<vista, installed, list, rm, file>>

\* Variant: the old file is not mentioned.
AdviceNewOnly(stands, unregistered) == {"rename new", "register"}

\* What the message tells the user to do when the file could not be put in place: `stands' says
\* that CurFile is still there, `unregistered' that it could be unregistered.
Advice(stands, unregistered) ==
  (IF stands /\ ~unregistered THEN {"unregister"} ELSE {}) \cup
  (IF stands THEN {"rename old"} ELSE {}) \cup {"rename new", "register"}

\* ReplaceInUseFile(CurFile, NewFile, TRUE).  A file in use cannot be deleted; the other calls
\* may fail.  The old file under its temporary name is left out.
ReplaceInUseFile(unregistered, deleted, renamed, placed, registered) ==
  LET had    == curFile # "none"
      stands == had /\ ~deleted /\ ~renamed
      done   == placed /\ ~stands
  IN /\ phase = "replace" /\ cheetah /\ newFile
     /\ phase' = "restart"
     /\ deleted => running \cap Shell = {}
     /\ curFile' = IF done THEN "new" ELSE IF stands THEN curFile ELSE "none"
     /\ newFile' = ~done
     /\ server' = IF done THEN registered ELSE server /\ ~(had /\ unregistered)
     /\ manual' = IF done THEN {} ELSE Advice(stands, unregistered)
     /\ UNCHANGED <<vista, installed, cheetah, list, rm, environment>>

NothingToReplace ==
  /\ phase = "replace" /\ ~(cheetah /\ newFile)
  /\ phase' = "restart"
  /\ UNCHANGED <<vista, installed, list, rm, file, environment>>

\* Variant: the session is ended whether or not there is one.
RestartAlways(restarted) ==
  /\ phase = "restart"
  /\ phase' = "idle"
  /\ restarted \subseteq closed
  /\ running' = running \cup restarted /\ closed' = closed \ restarted /\ sessions' = sessions - 1
  /\ UNCHANGED <<vista, installed, SessionHandle, Processes, enabled, seen, fresh, agreed, file, environment>>

\* RmRestart and RmEndSession.  The result of RmRestart is ignored: it may bring back all, some
\* or none of what was shut down, and setup ends all the same.
Restart(restarted) ==
  /\ phase = "restart"
  /\ phase' = "idle"
  /\ IF SessionHandle > 0 /\ vista
       THEN /\ restarted \subseteq closed
            /\ running' = running \cup restarted /\ closed' = closed \ restarted
            /\ sessions' = sessions - 1
       ELSE restarted = {} /\ UNCHANGED <<running, closed, sessions>>
  /\ UNCHANGED <<vista, installed, SessionHandle, Processes, enabled, seen, fresh, agreed, file, environment>>

-----------------------------------------------------------------------------
(* Removal.                                                                  *)

InitializeUninstall ==
  /\ phase = "uninstaller"
  /\ RefreshProcessList(TRUE)
  /\ phase' = IF Processes' = {} THEN "uninstall" ELSE "form"
  /\ UNCHANGED <<vista, installed, agreed, rm, file, environment>>

\* The button "Continue", and the question whether to go on all the same.
Continue ==
  /\ phase = "form" /\ enabled
  /\ phase' = "uninstall" /\ agreed' = Listed
  /\ UNCHANGED <<vista, installed, SessionHandle, sessions, Processes, enabled, seen, fresh, rm, file, environment>>

\* CurUninstallStepChanged, and the files behind it.
Uninstall(broken, unregistered, deleted) ==
  /\ phase = "uninstall"
  /\ phase' = "idle" /\ installed' = FALSE
  /\ ResetEnvironment(broken)
  /\ deleted => running \cap Shell = {}
  /\ curFile' = IF deleted THEN "none" ELSE curFile
  /\ newFile' = FALSE
  /\ server' = (server /\ ~(curFile # "none" /\ unregistered))
  /\ UNCHANGED <<vista, cheetah, list, rm, manual>>

-----------------------------------------------------------------------------
(* The processes and the user.                                               *)

Starts(p) ==
  /\ p \notin running
  /\ running' = running \cup {p} /\ fresh' = fresh \cup {p}
  /\ UNCHANGED <<vista, phase, installed, SessionHandle, sessions, Processes, enabled, seen, agreed, closed, file, environment>>

Exits(p) ==
  /\ p \in running
  /\ running' = running \ {p}
  /\ UNCHANGED <<vista, phase, installed, list, closed, file, environment>>

\* Only what a variable is when setup reads it matters, so it is changed between two runs.
UserChanges(v, value) ==
  /\ phase = "idle"
  /\ UserSets(v, value)
  /\ UNCHANGED setup

Installing ==
  \/ \E closing \in SUBSET Process : Shutdown(closing)
  \/ Copy \/ Abort
  \/ \E path \in PathOptions, ssh \in Plinks \cup {OpenSSH}, broken \in SUBSET (Variables \cup {Ini}) :
       ModifyEnvironment(path, ssh, broken)
  \/ \E unregistered, deleted, renamed, placed, registered \in BOOLEAN :
       ReplaceInUseFile(unregistered, deleted, renamed, placed, registered)
  \/ NothingToReplace
  \/ \E restarted \in SUBSET Process : Restart(restarted)

Uninstalling ==
  \E broken \in SUBSET (Variables \cup {Ini}), unregistered, deleted \in BOOLEAN :
    Uninstall(broken, unregistered, deleted)

Next ==
  \/ \E next \in {"wizard", "uninstaller"} : Start(next)
  \/ ShouldSkipPage \/ Refresh \/ NextButtonClick \/ Cancel
  \/ Installing
  \/ InitializeUninstall \/ Continue \/ Uninstalling
  \/ \E p \in Process : Starts(p) \/ Exits(p)
  \/ \E v \in Variables : \E value \in UserValues[v] : UserChanges(v, value)

Spec == Init /\ [][Next]_vars
-----------------------------------------------------------------------------
(* Properties.                                                               *)

Phases == {"idle", "wizard", "page", "install", "copying", "post", "replace", "restart", "aborted",
           "uninstaller", "form", "uninstall"}

\* The types, and the limit on sessions.
TypeOK ==
  /\ EnvTypeOK
  /\ vista \in BOOLEAN /\ phase \in Phases /\ installed \in BOOLEAN /\ cheetah \in BOOLEAN
  /\ running \subseteq Process /\ closed \subseteq Process
  /\ SessionHandle \in {0, 1} /\ sessions \in 0..MaxSessions
  /\ Processes \subseteq [id : Process, restartable : BOOLEAN]
  /\ enabled \in BOOLEAN /\ seen \in BOOLEAN /\ fresh \subseteq Process /\ agreed \subseteq Process
  /\ curFile \in {"none", "old", "new"} /\ newFile \in BOOLEAN /\ server \in BOOLEAN
  /\ manual \subseteq {"unregister", "rename old", "rename new", "register"}

\* While files are replaced or removed, a process that uses one of the core files is one that
\* setup could not know of (it started after the last refresh, cannot be opened, or the list
\* could not be read), or one that the Restart Manager can close and restart.  The uninstaller
\* goes on with others when "Refresh" was answered by a session whose handle is 0.
Changing == {"install", "copying", "post", "replace", "restart", "uninstall"}
RequiredIsClosed ==
  phase \in Changing /\ seen /\ ~(phase = "uninstall" /\ SessionHandle = 0 /\ Processes # {}) =>
    \A p \in (running \cap Core) \ (fresh \cup Opaque) : vista /\ p \in Registered

\* What setup has shut down, the user has agreed to: it was in the list, except for what
\* cannot be opened and what started after the list was made, which the session closes too.
OnlyAgreedIsClosed == closed \subseteq (agreed \cup Opaque \cup fresh) \cap Registered

\* What setup has shut down can be brought back: the session that shut it down is open, and its
\* handle known, until RmRestart() is called or copying is given up.  A process is never shut down
\* under a condition that no longer holds, or never held, when it is to be restarted.
ClosedCanRestart ==
  closed # {} /\ phase \in {"copying", "post", "replace", "restart"} =>
    vista /\ SessionHandle > 0 /\ sessions > 0

\* The page promises that the listed applications "will be closed and restarted automatically":
\* when setup has ended, none of them that it has shut down is left so.
ListedComeBack == phase \in {"idle", "aborted"} => closed \cap agreed = {}

\* When the shell extension could not be put in place, the steps of the message are enough to
\* do so: the new file is there, and what stands or is registered in its place is named.
ManualStepsSuffice ==
  manual # {} =>
    /\ {"rename new", "register"} \subseteq manual
    /\ phase = "restart" => newFile
    /\ phase = "restart" /\ curFile # "none" =>
         "rename old" \in manual /\ (server => "unregister" \in manual)

\* Setup keeps what the user has set, unless the user asks for another ssh, or the value is one
\* that setup itself once wrote or noted: setup.ini is not changed when a value is taken back,
\* so that a value the user sets again by hand is taken for that of setup.
UserValueKept ==
  [][phase' # phase =>
       \A v \in Managed : writer[v] = "user" /\ reg'[v] # reg[v] =>
         \/ <<v, Head(reg[v])>> \in written
         \/ v \in SshVars /\ reg'[v] \in {<<p>> : p \in Plinks}]_vars

\* After the removal no variable has a value of setup, unless it or its note could not be written.
NothingLeft ==
  phase = "idle" /\ ~installed => \A v \in Managed \ lost : writer[v] # "setup"

\* The user's directories stay in PATH in their order, and none of the installation is there
\* twice, after any number of installations.  Where the registry key has no PATH, setup writes into it the
\* directories the process has from elsewhere, and they stay.
PathKept ==
  /\ AddedOnce(reg["PATH"])
  /\ \/ Foreign(reg["PATH"]) = own
     \/ own = <<>> /\ Foreign(reg["PATH"]) = Foreign(Other["PATH"])
=============================================================================
