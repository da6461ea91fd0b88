---------------------------- MODULE SetupProofs ----------------------------
(***************************************************************************)
(* Proofs about Setup, for any processes and any values of the variables:  *)
(* which processes may run while files are changed, which are closed and   *)
(* can be started again, that the manual steps are enough, what becomes of *)
(* the environment and of PATH, and the types.                             *)
(***************************************************************************)
EXTENDS Setup, SequenceTheorems, WellFoundedInduction, TLAPS

Installs == {"install", "copying", "post", "replace", "restart"}
Closes   == {"copying", "post", "replace", "restart", "aborted", "idle"}

Entry(p) == [id |-> p, restartable |-> FALSE]

\* A core process that is not in the list as one to be closed is one that could not be known of.
CoreIsListed ==
  seen => \A p \in (running \cap Core) \ (fresh \cup Opaque) :
            (vista /\ p \in Registered) \/ Entry(p) \in Processes

\* What has to be closed stops the wizard, and the uninstaller unless a refresh has the handle 0.
Asked ==
  /\ phase \in Installs => ~ClosingRequired
  /\ phase = "form" /\ enabled => ~ClosingRequired \/ SessionHandle = 0
  /\ phase = "uninstall" => ~ClosingRequired \/ SessionHandle = 0

\* A session closes what is in the list, or could not be known of.
AllAreListed ==
  vista /\ SessionHandle > 0 /\ phase \in {"page", "form", "install"} =>
    \A p \in running \ (fresh \cup Opaque) : p \in Listed

Closing ==
  /\ closed \subseteq Registered
  /\ closed # {} => vista /\ SessionHandle > 0 /\ phase \in Closes
  /\ phase = "install" => Listed \subseteq agreed

ListInv == CoreIsListed /\ Asked /\ AllAreListed /\ Closing /\ OnlyAgreedIsClosed

Steps == ManualStepsSuffice /\ (manual # {} => phase \in {"restart", "idle"})

\* A function is what its values are.
Functions ==
  /\ reg = [v \in Variables |-> reg[v]]
  /\ ini = [v \in Managed |-> ini[v]]
  /\ writer = [v \in Managed |-> writer[v]]

\* A value of setup is the one in its note, until a write fails.
Noted ==
  \A v \in Managed \ lost : writer[v] = "setup" => installed /\ reg[v] = ini[v] /\ reg[v] # <<>>

\* What is in the notes was once written; what the user sets is not empty.
Origins ==
  \A v \in Managed :
    /\ ini[v] # <<>> => <<v, Head(ini[v])>> \in written
    /\ writer[v] = "user" => reg[v] # <<>>

EnvInv == Functions /\ Noted /\ Origins /\ (phase \in {"post", "replace", "restart"} => installed)

(***************************************************************************)
(* The list of processes.                                                  *)
(***************************************************************************)

LEMMA NotClosing ==
  ASSUME ~ClosingRequired, NEW p PROVE Entry(p) \notin Processes
BY DEF ClosingRequired, Entry

LEMMA WinVistaLists ==
  ASSUME vista, NEW started \in BOOLEAN, NEW handle \in {0, 1}, NEW got \in BOOLEAN,
         FindWinVista(started, handle, got)
  PROVE  /\ seen' => \A p \in running \ Opaque : p \in Registered \/ Entry(p) \in Processes'
         /\ SessionHandle' > 0 => \A p \in running \ Opaque : p \in Listed'
<1>1. ASSUME NEW p \in running \ Opaque, started, got
      PROVE  p \in Registered \/ Entry(p) \in Processes'
  BY <1>1 DEF FindWinVista, Entries, Entry
<1>2. ASSUME NEW p \in running \ Opaque, SessionHandle' > 0 PROVE p \in Listed'
  <2>1. Processes' = Entries((running \ Opaque) \cap Registered, TRUE) \cup
                     Entries((running \ Opaque) \ Registered, FALSE)
    <3>1. SessionHandle' = 0 \/ (started /\ got /\ running # {})
      BY DEF FindWinVista
    <3>2. SessionHandle' # 0
      BY <1>2
    <3>3. started /\ got /\ running # {}
      BY <3>1, <3>2
    <3>4. QED
      BY <3>3 DEF FindWinVista
  <2>2. \E restartable \in BOOLEAN : [id |-> p, restartable |-> restartable] \in Processes'
    BY <1>2, <2>1 DEF Entries
  <2>3. \A restartable : [id |-> p, restartable |-> restartable].id = p
    OBVIOUS
  <2>4. Listed' = {e.id : e \in Processes'}
    BY DEF Listed
  <2>5. QED
    BY <2>2, <2>3, <2>4
<1>3. QED
  BY <1>1, <1>2 DEF FindWinVista

\* After a refresh, what has to be closed is in the list as such, or could not be opened.
LEMMA RefreshLists ==
  ASSUME NEW first \in BOOLEAN, RefreshProcessList(first), UNCHANGED <<vista, running>>
  PROVE  /\ CoreIsListed' /\ fresh' = {}
         /\ vista /\ SessionHandle' > 0 => \A p \in running \ Opaque : p \in Listed'
         /\ phase = "uninstaller" /\ first /\ enabled' => ~ClosingRequired'
         /\ phase = "form" /\ enabled' => ~ClosingRequired' \/ SessionHandle' = 0
<1>1. fresh' = {} /\ (phase \in {"uninstaller", "form"} /\ enabled' =>
                        ~ClosingRequired' \/ (~first /\ SessionHandle' = 0))
  BY DEF RefreshProcessList
<1>2. CASE vista
  <2>1. PICK started \in BOOLEAN, got \in BOOLEAN, handle \in {0, 1} : FindWinVista(started, handle, got)
    BY <1>2 DEF RefreshProcessList
  <2>2. /\ seen' => \A p \in running \ Opaque : p \in Registered \/ Entry(p) \in Processes'
        /\ SessionHandle' > 0 => \A p \in running \ Opaque : p \in Listed'
    BY <1>2, <2>1, WinVistaLists
  <2>3. CoreIsListed'
    BY <1>1, <1>2, <2>2 DEF CoreIsListed
  <2>4. QED
    BY <1>1, <2>2, <2>3
<1>3. CASE ~vista
  <2>1. PICK gotCore \in BOOLEAN, gotShell \in BOOLEAN : FindWin2000(gotCore, gotShell)
    BY <1>3 DEF RefreshProcessList
  <2>2. seen' => \A p \in (running \cap Core) \ Opaque : Entry(p) \in Processes'
    BY <2>1 DEF FindWin2000, Entries, Entry
  <2>3. CoreIsListed'
    BY <1>1, <2>2 DEF CoreIsListed
  <2>4. QED
    BY <1>1, <1>3, <2>3
<1>4. QED
  BY <1>2, <1>3

\* A step of setup that leaves the list and the processes alone.
LEMMA PhaseKeepsList ==
  ASSUME ListInv, UNCHANGED <<vista, running, SessionHandle, Processes, seen, fresh>>
  PROVE  CoreIsListed' /\ (ClosingRequired' <=> ClosingRequired) /\ Listed' = Listed
BY DEF ListInv, CoreIsListed, ClosingRequired, Listed

LEMMA StartList ==
  ASSUME NEW next \in {"wizard", "uninstaller"}, Start(next) PROVE ListInv'
<1>1. /\ phase' \in {"wizard", "uninstaller"} /\ Processes' = {} /\ seen' = FALSE
      /\ closed' = {}
  BY DEF Start
<1>2. QED
  BY <1>1 DEF ListInv, CoreIsListed, Asked, AllAreListed, Closing, OnlyAgreedIsClosed, Installs, Closes

LEMMA RefreshList ==
  ListInv /\ (ShouldSkipPage \/ Refresh \/ InitializeUninstall) => ListInv'
<1> SUFFICES ASSUME ListInv, ShouldSkipPage \/ Refresh \/ InitializeUninstall PROVE ListInv'
  OBVIOUS
<1>1. UNCHANGED <<vista, running, closed, agreed>>
  BY DEF ShouldSkipPage, Refresh, InitializeUninstall, rm
<1>2. closed = {}
  BY DEF ListInv, Closing, Closes, ShouldSkipPage, Refresh, InitializeUninstall
<1>3. PICK first \in BOOLEAN : RefreshProcessList(first) /\ (InitializeUninstall => first)
  BY DEF ShouldSkipPage, Refresh, InitializeUninstall
<1>4. /\ CoreIsListed' /\ fresh' = {}
      /\ vista /\ SessionHandle' > 0 => \A p \in running \ Opaque : p \in Listed'
      /\ phase = "uninstaller" /\ first /\ enabled' => ~ClosingRequired'
      /\ phase = "form" /\ enabled' => ~ClosingRequired' \/ SessionHandle' = 0
  BY <1>1, <1>3, RefreshLists
<1>5. Processes' = {} => ~ClosingRequired' /\ Listed' = {}
  BY DEF ClosingRequired, Listed
<1>6. /\ phase' \in {"install", "uninstall"} => Processes' = {}
      /\ phase' \in {"install", "uninstall", "page", "form"}
      /\ phase' = "form" => phase \in {"uninstaller", "form"} /\ (phase = "uninstaller" => InitializeUninstall)
  BY DEF ShouldSkipPage, Refresh, InitializeUninstall
<1>7. Asked'
  BY <1>3, <1>4, <1>5, <1>6 DEF Asked, Installs
<1>8. AllAreListed'
  BY <1>1, <1>4 DEF AllAreListed
<1>9. Closing' /\ OnlyAgreedIsClosed'
  BY <1>1, <1>2, <1>5, <1>6 DEF Closing, OnlyAgreedIsClosed
<1>10. QED
  BY <1>4, <1>7, <1>8, <1>9 DEF ListInv

LEMMA AgreeList == ListInv /\ (NextButtonClick \/ Continue \/ Cancel) => ListInv'
<1> SUFFICES ASSUME ListInv, NextButtonClick \/ Continue \/ Cancel PROVE ListInv'
  OBVIOUS
<1>1. UNCHANGED <<vista, running, SessionHandle, Processes, seen, fresh, closed>>
  BY DEF NextButtonClick, Continue, Cancel, rm, list
<1>2. CoreIsListed' /\ (ClosingRequired' <=> ClosingRequired) /\ Listed' = Listed
  BY <1>1, PhaseKeepsList
<1>3. closed = {}
  BY DEF ListInv, Closing, Closes, NextButtonClick, Continue, Cancel
<1>4. Closing' /\ OnlyAgreedIsClosed'
  BY <1>1, <1>2, <1>3 DEF Closing, OnlyAgreedIsClosed, NextButtonClick, Continue, Cancel
<1>5. Asked'
  BY <1>1, <1>2 DEF ListInv, Asked, Installs, NextButtonClick, Continue, Cancel
<1>6. AllAreListed'
  BY <1>1, <1>2 DEF ListInv, AllAreListed, NextButtonClick, Continue, Cancel
<1>7. QED
  BY <1>2, <1>4, <1>5, <1>6 DEF ListInv

LEMMA ShutdownList ==
  ASSUME ListInv, NEW closing \in SUBSET Process, Shutdown(closing) PROVE ListInv'
<1>1. /\ phase = "install" /\ phase' = "copying" /\ running' = running \ closing /\ closed' = closing
      /\ UNCHANGED <<vista, SessionHandle, Processes, enabled, seen, fresh, agreed>>
  BY DEF Shutdown, list
<1>2. CoreIsListed'
  BY <1>1 DEF ListInv, CoreIsListed
<1>3. (ClosingRequired' <=> ClosingRequired) /\ Asked'
  BY <1>1 DEF ListInv, Asked, ClosingRequired, Installs
<1>4. AllAreListed'
  BY <1>1 DEF AllAreListed
<1>5. CASE closing = {}
  <2>1. Closing' /\ OnlyAgreedIsClosed'
    BY <1>1, <1>5 DEF Closing, OnlyAgreedIsClosed
  <2>2. QED
    BY <1>2, <1>3, <1>4, <2>1 DEF ListInv
<1>6. CASE closing # {}
  <2>1. vista /\ SessionHandle > 0 /\ running \subseteq Registered /\ closing \subseteq running
    BY <1>6 DEF Shutdown
  <2>2. \A p \in running \ (fresh \cup Opaque) : p \in agreed
    BY <1>1, <2>1 DEF ListInv, AllAreListed, Closing
  <2>3. Closing' /\ OnlyAgreedIsClosed'
    BY <1>1, <2>1, <2>2 DEF Closing, OnlyAgreedIsClosed, Closes
  <2>4. QED
    BY <1>2, <1>3, <1>4, <2>3 DEF ListInv
<1>7. QED
  BY <1>5, <1>6

LEMMA CopyingList ==
  ASSUME ListInv, UNCHANGED <<vista, running, closed, list>>,
         phase \in Closes \ {"aborted", "idle"}, phase' \in Closes
  PROVE  ListInv'
<1>1. UNCHANGED <<SessionHandle, Processes, seen, fresh, agreed>>
  BY DEF list
<1>2. CoreIsListed' /\ (ClosingRequired' <=> ClosingRequired) /\ Listed' = Listed
  BY <1>1, PhaseKeepsList
<1>3. Asked'
  BY <1>2 DEF ListInv, Asked, Installs, Closes
<1>4. AllAreListed'
  BY DEF AllAreListed, Closes
<1>5. Closing' /\ OnlyAgreedIsClosed'
  BY <1>1 DEF ListInv, Closing, OnlyAgreedIsClosed, Closes
<1>6. QED
  BY <1>2, <1>3, <1>4, <1>5 DEF ListInv

LEMMA RestartList ==
  ASSUME ListInv, NEW restarted \in SUBSET Process, Restart(restarted) PROVE ListInv'
<1>1. phase = "restart" /\ phase' = "idle" /\ UNCHANGED <<vista, SessionHandle, Processes, seen, fresh, agreed>>
  BY DEF Restart
<1>2. closed' \subseteq closed /\ running' \subseteq running \cup closed
  BY DEF Restart
<1>3. closed \subseteq Registered /\ (closed # {} => vista)
  BY DEF ListInv, Closing
<1>4. CoreIsListed'
  BY <1>1, <1>2, <1>3 DEF ListInv, CoreIsListed
<1>5. Asked' /\ AllAreListed'
  BY <1>1 DEF Asked, AllAreListed, Installs
<1>6. Closing' /\ OnlyAgreedIsClosed'
  BY <1>1, <1>2 DEF ListInv, Closing, OnlyAgreedIsClosed, Closes
<1>7. QED
  BY <1>4, <1>5, <1>6 DEF ListInv

LEMMA ProcessesList ==
  ASSUME ListInv, NEW p \in Process, Starts(p) \/ Exits(p) PROVE ListInv'
<1>1. /\ UNCHANGED <<vista, phase, SessionHandle, Processes, enabled, seen, agreed, closed>>
      /\ running' \ fresh' \subseteq running \ fresh /\ fresh \subseteq fresh'
  BY DEF Starts, Exits, list
<1>2. (ClosingRequired' <=> ClosingRequired) /\ Listed' = Listed
  BY <1>1 DEF ClosingRequired, Listed
<1>3. CoreIsListed'
  BY <1>1 DEF ListInv, CoreIsListed
<1>4. AllAreListed'
  BY <1>1, <1>2 DEF ListInv, AllAreListed
<1>5. Asked'
  BY <1>1, <1>2 DEF ListInv, Asked
<1>6. Closing' /\ OnlyAgreedIsClosed'
  BY <1>1, <1>2 DEF ListInv, Closing, OnlyAgreedIsClosed
<1>7. QED
  BY <1>3, <1>4, <1>5, <1>6 DEF ListInv

\* The steps that leave the processes, the list and what is closed alone.
LEMMA IdleList ==
  ASSUME ListInv, UNCHANGED <<vista, running, closed, list>>, phase' = phase \/ phase' = "idle"
  PROVE  ListInv'
<1>1. UNCHANGED <<SessionHandle, Processes, enabled, seen, fresh, agreed>>
  BY DEF list
<1>2. CoreIsListed' /\ (ClosingRequired' <=> ClosingRequired) /\ Listed' = Listed
  BY <1>1, PhaseKeepsList
<1>3. Asked'
  BY <1>1, <1>2 DEF ListInv, Asked, Installs
<1>4. AllAreListed'
  BY <1>1, <1>2 DEF ListInv, AllAreListed
<1>5. Closing' /\ OnlyAgreedIsClosed'
  BY <1>1, <1>2 DEF ListInv, Closing, OnlyAgreedIsClosed, Closes
<1>6. QED
  BY <1>2, <1>3, <1>4, <1>5 DEF ListInv

LEMMA ListStep == ListInv /\ [Next]_vars => ListInv'
<1> SUFFICES ASSUME ListInv, [Next]_vars PROVE ListInv'
  OBVIOUS
<1>1. CASE UNCHANGED vars
  BY <1>1, IdleList DEF vars, setup, rm
<1>2. CASE Copy \/ Abort \/ NothingToReplace
  BY <1>2, CopyingList DEF Copy, Abort, NothingToReplace, rm, Closes
<1>3. ASSUME NEW path, NEW ssh, NEW broken, ModifyEnvironment(path, ssh, broken) PROVE ListInv'
  BY <1>3, CopyingList DEF ModifyEnvironment, rm, Closes
<1>4. ASSUME NEW unregistered, NEW deleted, NEW renamed, NEW placed, NEW registered,
             ReplaceInUseFile(unregistered, deleted, renamed, placed, registered)
      PROVE ListInv'
  BY <1>4, CopyingList DEF ReplaceInUseFile, rm, Closes
<1>5. ASSUME NEW broken, NEW unregistered, NEW deleted, Uninstall(broken, unregistered, deleted)
      PROVE ListInv'
  BY <1>5, IdleList DEF Uninstall, rm
<1>6. ASSUME NEW v, NEW value, UserChanges(v, value) PROVE ListInv'
  BY <1>6, IdleList DEF UserChanges, setup, rm
<1>7. QED
  BY <1>1, <1>2, <1>3, <1>4, <1>5, <1>6, StartList, RefreshList, AgreeList, ShutdownList,
     RestartList, ProcessesList DEF Next, Installing, Uninstalling

LEMMA ListInit == Init => ListInv
BY DEF Init, ListInv, CoreIsListed, Asked, AllAreListed, Closing, OnlyAgreedIsClosed, Installs, Closes

\* What runs with a core file while files are changed could not be known of, or can be restarted.
THEOREM RequiredClosed == Spec => []RequiredIsClosed
<1>1. ListInv => RequiredIsClosed
  <2>1. SUFFICES ASSUME ListInv, phase \in Changing, seen,
                        ~(phase = "uninstall" /\ SessionHandle = 0 /\ Processes # {}),
                        NEW p \in (running \cap Core) \ (fresh \cup Opaque)
                 PROVE  vista /\ p \in Registered
    BY DEF RequiredIsClosed
  <2>2. ~ClosingRequired
    BY <2>1 DEF ListInv, Asked, Changing, Installs, ClosingRequired
  <2>3. QED
    BY <2>1, <2>2, NotClosing DEF ListInv, CoreIsListed
<1>2. QED
  BY <1>1, ListInit, ListStep, PTL DEF Spec

\* What setup has shut down was in the list that the user agreed to, or could not be in it.
THEOREM AgreedClosed == Spec => []OnlyAgreedIsClosed
<1>1. ListInv => OnlyAgreedIsClosed
  BY DEF ListInv
<1>2. QED
  BY <1>1, ListInit, ListStep, PTL DEF Spec

(***************************************************************************)
(* The steps of the message.                                               *)
(***************************************************************************)
LEMMA ReplaceSteps ==
  ASSUME Steps,
         NEW unregistered \in BOOLEAN, NEW deleted \in BOOLEAN, NEW renamed \in BOOLEAN,
         NEW placed \in BOOLEAN, NEW registered \in BOOLEAN,
         ReplaceInUseFile(unregistered, deleted, renamed, placed, registered)
  PROVE  Steps'
<1> DEFINE stands == curFile # "none" /\ ~deleted /\ ~renamed
<1>1. /\ phase' = "restart"
      /\ manual' = IF placed /\ ~stands THEN {} ELSE Advice(stands, unregistered)
      /\ ~(placed /\ ~stands) => /\ newFile' = TRUE
                                 /\ curFile' = IF stands THEN curFile ELSE "none"
                                 /\ server' = (server /\ ~(curFile # "none" /\ unregistered))
  BY DEF ReplaceInUseFile
<1>2. CASE placed /\ ~stands
  BY <1>1, <1>2 DEF Steps, ManualStepsSuffice
<1>3. CASE ~(placed /\ ~stands)
  <2>1. {"rename new", "register"} \subseteq manual' /\ newFile'
    BY <1>1, <1>3 DEF Advice
  <2>2. curFile' # "none" => stands /\ "rename old" \in manual'
    BY <1>1, <1>3 DEF Advice
  <2>3. curFile' # "none" /\ server' => "unregister" \in manual'
    BY <1>1, <1>3, <2>2 DEF Advice
  <2>4. QED
    BY <1>1, <2>1, <2>2, <2>3 DEF Steps, ManualStepsSuffice
<1>4. QED
  BY <1>2, <1>3

\* Every other step keeps the files and the message, or begins anew.
LEMMA OtherSteps ==
  ASSUME Steps,
         \/ manual' = {}
         \/ manual = {} /\ UNCHANGED manual
         \/ UNCHANGED file /\ (phase' = phase \/ phase' = "idle")
  PROVE  Steps'
<1>1. CASE manual' = {}
  BY <1>1 DEF Steps, ManualStepsSuffice
<1>2. CASE UNCHANGED file /\ (phase' = phase \/ phase' = "idle")
  <2>1. UNCHANGED <<curFile, newFile, server, manual>>
    BY <1>2 DEF file
  <2>2. QED
    BY <1>2, <2>1 DEF Steps, ManualStepsSuffice
<1>3. QED
  BY <1>1, <1>2

LEMMA StepsStep == Steps /\ [Next]_vars => Steps'
<1> SUFFICES ASSUME Steps, [Next]_vars PROVE Steps'
  OBVIOUS
<1>1. CASE UNCHANGED vars
  BY <1>1, OtherSteps DEF vars, setup
<1>2. ASSUME NEW next, Start(next) PROVE Steps'
  BY <1>2, OtherSteps DEF Start
<1>3. CASE ShouldSkipPage \/ Refresh \/ NextButtonClick \/ Cancel \/ InitializeUninstall \/ Continue
  <2>1. manual = {} /\ UNCHANGED manual
    BY <1>3 DEF Steps, ShouldSkipPage, Refresh, NextButtonClick, Cancel, InitializeUninstall, Continue, file
  <2>2. QED
    BY <2>1, OtherSteps
<1>4. ASSUME NEW closing, Shutdown(closing) PROVE Steps'
  BY <1>4, OtherSteps DEF Steps, Shutdown, file
<1>5. CASE Copy \/ Abort \/ NothingToReplace
  <2>1. manual = {} /\ UNCHANGED manual
    BY <1>5 DEF Steps, Copy, Abort, NothingToReplace, file
  <2>2. QED
    BY <2>1, OtherSteps
<1>6. ASSUME NEW path, NEW ssh, NEW broken, ModifyEnvironment(path, ssh, broken) PROVE Steps'
  BY <1>6, OtherSteps DEF Steps, ModifyEnvironment, file
<1>7. ASSUME NEW restarted, Restart(restarted) PROVE Steps'
  BY <1>7, OtherSteps DEF Restart
<1>8. ASSUME NEW broken, NEW unregistered, NEW deleted, Uninstall(broken, unregistered, deleted)
      PROVE Steps'
  BY <1>8, OtherSteps DEF Steps, Uninstall
<1>9. ASSUME NEW p, Starts(p) \/ Exits(p) PROVE Steps'
  BY <1>9, OtherSteps DEF Starts, Exits
<1>10. ASSUME NEW v, NEW value, UserChanges(v, value) PROVE Steps'
  BY <1>10, OtherSteps DEF UserChanges, setup
<1>11. QED
  BY <1>1, <1>2, <1>3, <1>4, <1>5, <1>6, <1>7, <1>8, <1>9, <1>10, ReplaceSteps
  DEF Next, Installing, Uninstalling

\* When the shell extension could not be put in place, the steps of the message do so.
THEOREM ManualSteps == Spec => []ManualStepsSuffice
<1>1. Init => Steps
  BY DEF Init, Steps, ManualStepsSuffice
<1>2. Steps => ManualStepsSuffice
  BY DEF Steps
<1>3. QED
  BY <1>1, <1>2, StepsStep, PTL DEF Spec

(***************************************************************************)
(* The environment.                                                        *)
(***************************************************************************)
LEMMA ManagedVariables == Managed \subseteq Variables /\ "PATH" \notin Managed /\ "PATH" \in Variables
BY EnvironmentAssumption DEF Managed, Variables

LEMMA UserEnv ==
  ASSUME EnvInv, NEW v \in Variables, NEW value, UserChanges(v, value) PROVE EnvInv'
<1>1. /\ phase' = phase /\ installed' = installed /\ lost' = lost /\ ini' = ini /\ written' = written
      /\ reg' = [reg EXCEPT ![v] = value]
  BY DEF UserChanges, UserSets, setup
<1>2. CASE v = "PATH"
  <2>1. writer' = writer
    BY <1>2 DEF UserChanges, UserSets
  <2>2. Functions' /\ \A w \in Managed : reg'[w] = reg[w]
    BY <1>1, <1>2, <2>1, ManagedVariables DEF EnvInv, Functions
  <2>3. QED
    BY <1>1, <2>1, <2>2 DEF EnvInv, Noted, Origins
<1>3. CASE v # "PATH"
  <2>1. v \in Managed
    BY <1>3 DEF Variables
  <2>2. writer' = [writer EXCEPT ![v] = IF value = <<>> THEN "none" ELSE "user"]
    BY <1>3 DEF UserChanges, UserSets
  <2>3. Functions'
    BY <1>1, <2>2 DEF EnvInv, Functions
  <2>4. \A w \in Managed : w # v => reg'[w] = reg[w] /\ writer'[w] = writer[w]
    BY <1>1, <2>2, ManagedVariables DEF EnvInv, Functions
  <2>5. reg'[v] = value /\ writer'[v] = IF value = <<>> THEN "none" ELSE "user"
    BY <1>1, <2>1, <2>2, ManagedVariables DEF EnvInv, Functions
  <2>6. QED
    BY <1>1, <2>3, <2>4, <2>5 DEF EnvInv, Noted, Origins
<1>4. QED
  BY <1>2, <1>3

\* What a change of setup leaves in each variable.
LEMMA ChangeValues ==
  ASSUME EnvInv, NEW wanted, NEW value, NEW path, NEW broken,
         reg' = RegAfter(wanted, value, path, broken), writer' = WriterAfter(wanted, broken),
         NEW v \in Managed
  PROVE  /\ reg' = [w \in Variables |-> reg'[w]] /\ writer' = [w \in Managed |-> writer'[w]]
         /\ v \in broken => reg'[v] = reg[v] /\ writer'[v] = writer[v]
         /\ v \notin broken /\ v \in wanted => reg'[v] = <<value[v]>> /\ writer'[v] = "setup"
         /\ v \notin broken /\ v \notin wanted /\ SetByUs(v) => reg'[v] = <<>> /\ writer'[v] = "none"
         /\ v \notin broken /\ v \notin wanted /\ ~SetByUs(v) => reg'[v] = reg[v] /\ writer'[v] = writer[v]
BY ManagedVariables DEF RegAfter, WriterAfter

LEMMA ModifyEnv ==
  ASSUME EnvInv, NEW path, NEW ssh, NEW broken, ModifyEnvironment(path, ssh, broken) PROVE EnvInv'
<1> DEFINE wanted == Wanted(path, ssh, broken)
           value  == [v \in Managed |-> IF v = "HOME" THEN HomeDir ELSE ssh]
<1>1. /\ phase' = "replace" /\ installed' = installed /\ installed
      /\ reg' = RegAfter(wanted, value, path, broken) /\ writer' = WriterAfter(wanted, broken)
      /\ ini' = IF Ini \in broken THEN ini ELSE IniAfter(wanted, value)
      /\ written' = written \cup {<<v, value[v]>> : v \in wanted}
      /\ lost' = lost \cup Failed(broken)
  BY DEF ModifyEnvironment, SetEnvironment, EnvInv
<1> HIDE DEF wanted, value
<1>2. ASSUME NEW v \in Managed
      PROVE  /\ ini' = [w \in Managed |-> ini'[w]]
             /\ v \in lost => v \in lost'
             /\ v \notin lost' => v \notin broken /\ Ini \notin broken
             /\ Ini \notin broken => ini'[v] = IF v \in wanted THEN <<value[v]>> ELSE ini[v]
             /\ Ini \in broken => ini'[v] = ini[v]
  <2>1. v # Ini
    BY EnvironmentAssumption DEF Managed, Ini
  <2>2. QED
    BY <1>1, <2>1 DEF Failed, IniAfter, EnvInv, Functions
<1>3. ASSUME NEW v \in Managed \ lost', writer'[v] = "setup" PROVE reg'[v] = ini'[v] /\ reg'[v] # <<>>
  <2>1. v \notin broken /\ Ini \notin broken /\ v \notin lost
    BY <1>2, <1>3
  <2>2. CASE v \in wanted
    <3>1. reg'[v] = <<value[v]>>
      BY <1>1, <2>1, <2>2, ChangeValues
    <3>2. ini'[v] = <<value[v]>>
      BY <1>2, <2>1, <2>2
    <3>3. <<value[v]>> # <<>>
      OBVIOUS
    <3>4. QED
      BY <3>1, <3>2, <3>3
  <2>3. CASE v \notin wanted
    <3>1. ~SetByUs(v) /\ reg'[v] = reg[v] /\ writer'[v] = writer[v]
      BY <1>1, <1>3, <2>1, <2>3, ChangeValues
    <3>2. reg[v] = ini[v] /\ reg[v] # <<>>
      BY <1>3, <2>1, <3>1 DEF EnvInv, Noted
    <3>3. QED
      BY <1>2, <2>1, <2>3, <3>1, <3>2
  <2>4. QED
    BY <2>2, <2>3
<1>4. ASSUME NEW v \in Managed
      PROVE  /\ ini'[v] # <<>> => <<v, Head(ini'[v])>> \in written'
             /\ writer'[v] = "user" => reg'[v] # <<>>
  <2>1. writer'[v] = "user" => reg'[v] = reg[v] /\ writer[v] = "user"
    BY <1>1, ChangeValues
  <2>2. ini'[v] = ini[v] \/ (v \in wanted /\ ini'[v] = <<value[v]>>)
    BY <1>2
  <2>3. Head(<<value[v]>>) = value[v]
    OBVIOUS
  <2>4. ini'[v] # <<>> => <<v, Head(ini'[v])>> \in written'
    BY <1>1, <2>2, <2>3 DEF EnvInv, Origins
  <2>5. QED
    BY <2>1, <2>4 DEF EnvInv, Origins
<1>5. Functions'
  <2>1. "HOME" \in Managed
    BY DEF Managed
  <2>2. QED
    BY <1>1, <1>2, <2>1, ChangeValues DEF Functions
<1>6. QED
  BY <1>1, <1>3, <1>4, <1>5 DEF EnvInv, Noted, Origins

LEMMA UninstallEnv ==
  ASSUME EnvInv, NEW broken, NEW unregistered, NEW deleted, Uninstall(broken, unregistered, deleted)
  PROVE  EnvInv'
<1>1. /\ phase' = "idle" /\ installed' = FALSE
      /\ reg' = RegAfter({}, <<>>, "BashOnly", broken) /\ writer' = WriterAfter({}, broken)
      /\ ini' = IF Ini \in broken THEN ini ELSE [v \in Managed |-> <<>>]
      /\ written' = written /\ lost' = lost \cup Failed(broken)
  BY DEF Uninstall, ResetEnvironment
<1>2. ASSUME NEW v \in Managed
      PROVE  /\ ini' = [w \in Managed |-> ini'[w]]
             /\ v \notin lost' => v \notin broken /\ v \notin lost
             /\ ini'[v] = ini[v] \/ ini'[v] = <<>>
  <2>1. v # Ini
    BY EnvironmentAssumption DEF Managed, Ini
  <2>2. QED
    BY <1>1, <2>1 DEF Failed, EnvInv, Functions
<1>3. ASSUME NEW v \in Managed \ lost' PROVE writer'[v] # "setup"
  <2>1. v \notin broken /\ v \notin lost
    BY <1>2, <1>3
  <2>2. CASE SetByUs(v)
    BY <1>1, <2>1, <2>2, ChangeValues
  <2>3. CASE ~SetByUs(v)
    <3>1. writer'[v] = writer[v]
      BY <1>1, <2>1, <2>3, ChangeValues
    <3>2. writer[v] # "setup"
      BY <2>1, <2>3 DEF EnvInv, Noted, SetByUs, GetEnvStrings
    <3>3. QED
      BY <3>1, <3>2
  <2>4. QED
    BY <2>2, <2>3
<1>4. ASSUME NEW v \in Managed
      PROVE  /\ ini'[v] # <<>> => <<v, Head(ini'[v])>> \in written'
             /\ writer'[v] = "user" => reg'[v] # <<>>
  <2>1. writer'[v] = "user" => reg'[v] = reg[v] /\ writer[v] = "user"
    BY <1>1, ChangeValues
  <2>2. QED
    BY <1>1, <1>2, <2>1 DEF EnvInv, Origins
<1>5. Functions'
  <2>1. "HOME" \in Managed
    BY DEF Managed
  <2>2. QED
    BY <1>1, <1>2, <2>1, ChangeValues DEF Functions
<1>6. QED
  BY <1>1, <1>3, <1>4, <1>5 DEF EnvInv, Noted, Origins

\* The other steps of setup leave the environment alone.
LEMMA OtherEnv ==
  ASSUME EnvInv, UNCHANGED environment, installed' = installed \/ installed' = TRUE,
         phase' \in {"post", "replace", "restart"} => installed'
  PROVE  EnvInv'
BY DEF EnvInv, Functions, Noted, Origins, environment

LEMMA EnvStep == EnvInv /\ [Next]_vars => EnvInv'
<1> SUFFICES ASSUME EnvInv, [Next]_vars PROVE EnvInv'
  OBVIOUS
<1>1. CASE UNCHANGED vars
  BY <1>1, OtherEnv DEF vars, setup, EnvInv
<1>2. CASE \/ ShouldSkipPage \/ Refresh \/ NextButtonClick \/ Cancel \/ InitializeUninstall \/ Continue
           \/ Abort \/ NothingToReplace \/ Copy
  BY <1>2, OtherEnv DEF EnvInv, ShouldSkipPage, Refresh, NextButtonClick, Cancel, InitializeUninstall,
    Continue, Abort, NothingToReplace, Copy
<1>3. ASSUME NEW next \in {"wizard", "uninstaller"}, Start(next) PROVE EnvInv'
  BY <1>3, OtherEnv DEF Start
<1>4. ASSUME NEW closing, Shutdown(closing) PROVE EnvInv'
  BY <1>4, OtherEnv DEF Shutdown
<1>5. ASSUME NEW unregistered, NEW deleted, NEW renamed, NEW placed, NEW registered,
             ReplaceInUseFile(unregistered, deleted, renamed, placed, registered)
      PROVE EnvInv'
  BY <1>5, OtherEnv DEF EnvInv, ReplaceInUseFile
<1>6. ASSUME NEW p, Starts(p) \/ Exits(p) PROVE EnvInv'
  BY <1>6, OtherEnv DEF EnvInv, Starts, Exits
<1>7. ASSUME NEW restarted, Restart(restarted) PROVE EnvInv'
  BY <1>7, OtherEnv DEF EnvInv, Restart
<1>8. QED
  BY <1>1, <1>2, <1>3, <1>4, <1>5, <1>6, <1>7, ModifyEnv, UninstallEnv, UserEnv
  DEF Next, Installing, Uninstalling

LEMMA EnvStart == Init => EnvInv
<1> SUFFICES ASSUME Init PROVE EnvInv
  OBVIOUS
<1>1. Functions
  BY DEF Init, EnvInit, Functions
<1>2. \A v \in Managed : ini[v] = <<>> /\ writer[v] = IF reg[v] = <<>> THEN "none" ELSE "user"
  BY DEF Init, EnvInit
<1>3. phase = "idle"
  BY DEF Init
<1>4. QED
  BY <1>1, <1>2, <1>3 DEF EnvInv, Noted, Origins

\* After the removal no variable has a value of setup, unless a write has failed.
THEOREM RemovalComplete == Spec => []NothingLeft
<1>1. EnvInv => NothingLeft
  BY DEF EnvInv, Noted, NothingLeft
<1>2. QED
  BY <1>1, EnvStart, EnvStep, PTL DEF Spec

LEMMA Valued ==
  ASSUME EnvInv, NEW v \in Managed, writer[v] = "user", SetByUs(v)
  PROVE  reg[v] # <<>> /\ <<v, Head(reg[v])>> \in written
<1>1. reg[v] # <<>> /\ reg[v] = ini[v]
  BY DEF EnvInv, Origins, SetByUs, GetEnvStrings
<1>2. QED
  BY <1>1 DEF EnvInv, Origins

\* Setup keeps what the user has set, unless the user asks for another ssh or the value is one that
\* setup once wrote.
THEOREM UserKept == Spec => UserValueKept
<1> DEFINE Kept == phase' # phase =>
             \A v \in Managed : writer[v] = "user" /\ reg'[v] # reg[v] =>
               \/ <<v, Head(reg[v])>> \in written
               \/ v \in SshVars /\ reg'[v] \in {<<p>> : p \in Plinks}
<1>1. EnvInv /\ [Next]_vars => [Kept]_vars
  <2>1. SUFFICES ASSUME EnvInv, Next, phase' # phase, NEW v \in Managed, writer[v] = "user",
                        reg'[v] # reg[v]
                 PROVE  \/ <<v, Head(reg[v])>> \in written
                        \/ v \in SshVars /\ reg'[v] \in {<<p>> : p \in Plinks}
    OBVIOUS
  <2>2. ASSUME NEW path, NEW ssh \in Plinks \cup {OpenSSH}, NEW broken, ModifyEnvironment(path, ssh, broken)
        PROVE  \/ <<v, Head(reg[v])>> \in written
               \/ v \in SshVars /\ reg'[v] \in {<<p>> : p \in Plinks}
    <3> DEFINE wanted == Wanted(path, ssh, broken)
               value  == [w \in Managed |-> IF w = "HOME" THEN HomeDir ELSE ssh]
    <3>1. reg' = RegAfter(wanted, value, path, broken) /\ writer' = WriterAfter(wanted, broken)
      BY <2>2 DEF ModifyEnvironment, SetEnvironment
    <3>2. CASE v \in wanted /\ v # "HOME"
      <4>1. v \in SshVars /\ ssh \in Plinks
        BY <2>2, <3>2 DEF Wanted, Managed
      <4>2. reg'[v] = <<value[v]>>
        <5> HIDE DEF wanted, value
        <5>1. QED BY <2>1, <3>1, <3>2, ChangeValues
      <4>3. value[v] = ssh
        BY <3>2
      <4>4. QED
        BY <4>1, <4>2, <4>3
    <3>3. CASE v \in wanted /\ v = "HOME"
      <4>1. HomeIsFree(broken)
        BY <3>3, EnvironmentAssumption DEF Wanted
      <4>2. GetEnvStrings("HOME") # <<>>
        BY <2>1, <3>3 DEF EnvInv, Origins, GetEnvStrings
      <4>3. SetByUs(v)
        BY <3>3, <4>1, <4>2 DEF HomeIsFree
      <4>4. QED
        BY <2>1, <4>3, Valued
    <3>4. CASE v \notin wanted
      <4>1. SetByUs(v)
        <5> HIDE DEF wanted, value
        <5>1. QED BY <2>1, <3>1, <3>4, ChangeValues
      <4>2. QED
        BY <2>1, <4>1, Valued
    <3>5. QED
      BY <3>2, <3>3, <3>4
  <2>3. ASSUME NEW broken, NEW unregistered, NEW deleted, Uninstall(broken, unregistered, deleted)
        PROVE  <<v, Head(reg[v])>> \in written
    <3>1. reg' = RegAfter({}, <<>>, "BashOnly", broken) /\ writer' = WriterAfter({}, broken)
      BY <2>3 DEF Uninstall, ResetEnvironment
    <3>2. SetByUs(v)
      BY <2>1, <3>1, ChangeValues
    <3>3. QED
      BY <2>1, <3>2, Valued
  <2>4. CASE \/ ShouldSkipPage \/ Refresh \/ NextButtonClick \/ Cancel \/ InitializeUninstall \/ Continue
             \/ Abort \/ NothingToReplace \/ Copy
    BY <2>1, <2>4 DEF ShouldSkipPage, Refresh, NextButtonClick, Cancel, InitializeUninstall, Continue,
      Abort, NothingToReplace, Copy, environment
  <2>5. ASSUME NEW next, Start(next) PROVE FALSE
    BY <2>1, <2>5 DEF Start, environment
  <2>6. ASSUME NEW closing, Shutdown(closing) PROVE FALSE
    BY <2>1, <2>6 DEF Shutdown, environment
  <2>7. ASSUME NEW unregistered, NEW deleted, NEW renamed, NEW placed, NEW registered,
               ReplaceInUseFile(unregistered, deleted, renamed, placed, registered)
        PROVE FALSE
    BY <2>1, <2>7 DEF ReplaceInUseFile, environment
  <2>8. ASSUME NEW p, Starts(p) \/ Exits(p) PROVE FALSE
    BY <2>1, <2>8 DEF Starts, Exits
  <2>9. ASSUME NEW w, NEW text, UserChanges(w, text) PROVE FALSE
    BY <2>1, <2>9 DEF UserChanges, setup
  <2>10. ASSUME NEW restarted, Restart(restarted) PROVE FALSE
    BY <2>1, <2>10 DEF Restart, environment
  <2>11. QED
    BY <2>1, <2>2, <2>3, <2>4, <2>5, <2>6, <2>7, <2>8, <2>9, <2>10 DEF Next, Installing, Uninstalling
<1>2. QED
  BY <1>1, EnvStart, EnvStep, PTL DEF Spec, UserValueKept

(***************************************************************************)
(* PATH.  Foreign() is a loop over the directories; what it has kept after *)
(* each of them is found by induction over their number.                   *)
(***************************************************************************)
\* Induction over 0..N.
LEMMA CountUp ==
  ASSUME NEW N \in Nat, NEW T, 0 \in T, \A n \in 1..N : n - 1 \in T => n \in T
  PROVE  \A n \in 0..N : n \in T
<1> DEFINE rest == (0..N) \ T
<1>1. SUFFICES ASSUME rest # {} PROVE FALSE
  OBVIOUS
<1>2. rest \subseteq Nat
  OBVIOUS
<1>3. PICK n \in rest : \A m \in rest : ~(<<m, n>> \in OpToRel(<, Nat))
  BY <1>1, <1>2, NatLessThanWellFounded, WFMin
<1>4. n \in 1..N /\ n - 1 \in 0..N /\ n - 1 \in Nat /\ n \in Nat /\ n - 1 < n
  OBVIOUS
<1>5. n - 1 \notin rest
  BY <1>3, <1>4, Zenon DEF OpToRel
<1>6. QED
  BY <1>4, <1>5

\* One step of the loop of Foreign(), and what it has kept after n directories.
Keeping(f, path, n) ==
  IF n = 0 THEN <<>> ELSE IF path[n] \in AppDir THEN f[n - 1] ELSE Append(f[n - 1], path[n])

LEMMA KeptExists ==
  ASSUME NEW path, NEW N \in Nat
  PROVE  \E f : f = [n \in 0..N |-> Keeping(f, path, n)]
<1> DEFINE T == {m \in 0..N : \E f : f = [n \in 0..m |-> Keeping(f, path, n)]}
<1>1. 0 \in T
  <2> DEFINE f == [n \in 0..0 |-> <<>>]
  <2>1. f = [n \in 0..0 |-> Keeping(f, path, n)]
    BY DEF Keeping
  <2>2. QED BY <2>1
<1>2. ASSUME NEW m \in 1..N, m - 1 \in T PROVE m \in T
  <2>1. PICK f : f = [n \in 0..m - 1 |-> Keeping(f, path, n)]
    BY <1>2
  <2> DEFINE g == [n \in 0..m |-> IF n = m THEN Keeping(f, path, m) ELSE f[n]]
  <2>2. ASSUME NEW n \in 0..m PROVE g[n] = Keeping(g, path, n)
    <3>1. n - 1 \in 0..m - 1 => g[n - 1] = f[n - 1]
      BY <1>2
    <3>2. n = 0 \/ n - 1 \in 0..m - 1
      BY <1>2
    <3>3. Keeping(g, path, n) = Keeping(f, path, n)
      BY <3>1, <3>2 DEF Keeping
    <3>4. g[n] = Keeping(f, path, n)
      <4>1. n # m => n \in 0..m - 1
        BY <1>2
      <4>2. n # m => f[n] = Keeping(f, path, n)
        BY <2>1, <4>1
      <4>3. QED BY <4>2
    <3>5. QED BY <3>3, <3>4
  <2>3. g = [n \in 0..m |-> g[n]]
    OBVIOUS
  <2> HIDE DEF g
  <2>4. g = [n \in 0..m |-> Keeping(g, path, n)]
    BY <2>2, <2>3
  <2>5. QED BY <2>4, <1>2
<1> HIDE DEF T
<1>3. N \in T
  BY <1>1, <1>2, CountUp
<1>4. QED
  BY <1>3 DEF T

LEMMA KeptIs ==
  ASSUME NEW f, NEW path, NEW N \in Nat, f = [n \in 0..N |-> Keeping(f, path, n)], NEW n \in 1..N
  PROVE  f[n] = IF path[n] \in AppDir THEN f[n - 1] ELSE Append(f[n - 1], path[n])
<1>1. n \in 0..N /\ n # 0
  OBVIOUS
<1>2. f[n] = Keeping(f, path, n)
  BY <1>1, Zenon
<1>3. QED BY <1>1, <1>2 DEF Keeping

LEMMA ForeignIs ==
  ASSUME NEW path, Len(path) \in Nat
  PROVE  \E f : f = [n \in 0..Len(path) |-> Keeping(f, path, n)] /\ Foreign(path) = f[Len(path)]
<1> DEFINE kept[n \in 0..Len(path)] ==
             IF n = 0 THEN <<>>
             ELSE IF path[n] \in AppDir THEN kept[n - 1] ELSE Append(kept[n - 1], path[n])
<1>1. Foreign(path) = kept[Len(path)]
  BY DEF Foreign
<1>2. kept = [n \in 0..Len(path) |-> Keeping(kept, path, n)]
  <2>1. \E f : f = [n \in 0..Len(path) |->
             IF n = 0 THEN <<>>
             ELSE IF path[n] \in AppDir THEN f[n - 1] ELSE Append(f[n - 1], path[n])]
    BY KeptExists, Zenon DEF Keeping
  <2>2. kept = [n \in 0..Len(path) |->
             IF n = 0 THEN <<>>
             ELSE IF path[n] \in AppDir THEN kept[n - 1] ELSE Append(kept[n - 1], path[n])]
    BY <2>1
  <2> HIDE DEF kept
  <2>3. QED BY <2>2, Zenon DEF Keeping
<1>3. QED
  BY <1>1, <1>2

\* Only directories of others are kept.
LEMMA ForeignKeeps ==
  ASSUME NEW S, NEW path \in Seq(S)
  PROVE  /\ Foreign(path) \in Seq(S)
         /\ \A i \in 1..Len(Foreign(path)) : Foreign(path)[i] \notin AppDir
<1>1. Len(path) \in Nat
  BY LenProperties
<1>2. PICK f : f = [n \in 0..Len(path) |-> Keeping(f, path, n)] /\ Foreign(path) = f[Len(path)]
  BY <1>1, ForeignIs
<1> DEFINE T == {n \in 0..Len(path) : f[n] \in Seq(S) /\ \A i \in 1..Len(f[n]) : f[n][i] \notin AppDir}
<1>3. 0 \in T
  <2>1. f[0] = <<>>
    BY <1>1, <1>2 DEF Keeping
  <2>2. <<>> \in Seq(S) /\ Len(<<>>) = 0
    BY EmptySeq
  <2>3. f[0] \in Seq(S) /\ \A i \in 1..Len(f[0]) : f[0][i] \notin AppDir
    BY <2>1, <2>2
  <2>4. 0 \in 0..Len(path)
    BY <1>1
  <2>5. QED BY <2>3, <2>4
<1>4. ASSUME NEW n \in 1..Len(path), n - 1 \in T PROVE n \in T
  <2>1. f[n] = IF path[n] \in AppDir THEN f[n - 1] ELSE Append(f[n - 1], path[n])
    BY <1>1, <1>2, KeptIs
  <2>2. CASE path[n] \in AppDir
    BY <1>1, <1>4, <2>1, <2>2
  <2>3. CASE path[n] \notin AppDir
    <3> DEFINE s == f[n - 1]
    <3>1. path[n] \in S /\ s \in Seq(S) /\ \A i \in 1..Len(s) : s[i] \notin AppDir
      BY <1>4, ElementOfSeq
    <3>2. f[n] = Append(s, path[n])
      BY <2>1, <2>3
    <3> HIDE DEF s
    <3>3. /\ Len(s) \in Nat /\ Append(s, path[n]) \in Seq(S) /\ Len(Append(s, path[n])) = Len(s) + 1
          /\ \A i \in 1..Len(s) : Append(s, path[n])[i] = s[i]
          /\ Append(s, path[n])[Len(s) + 1] = path[n]
      BY <3>1, LenProperties, AppendProperties
    <3>4. \A i \in 1..Len(s) + 1 : i = Len(s) + 1 \/ i \in 1..Len(s)
      BY <3>3
    <3>5. \A i \in 1..Len(f[n]) : f[n][i] \notin AppDir
      BY <2>3, <3>1, <3>2, <3>3, <3>4
    <3>6. f[n] \in Seq(S) /\ n \in 0..Len(path)
      BY <1>1, <3>2, <3>3
    <3>7. QED BY <3>5, <3>6
  <2>4. QED BY <2>2, <2>3
<1> HIDE DEF T
<1>5. Len(path) \in T
  <2>1. \A n \in 0..Len(path) : n \in T
    BY <1>1, <1>3, <1>4, CountUp
  <2>2. QED BY <1>1, <2>1
<1>6. QED
  BY <1>2, <1>5 DEF T

\* Where the directories of the installation come last they are cut off.
LEMMA ForeignCuts ==
  ASSUME NEW S, NEW path \in Seq(S), NEW m \in 0..Len(path),
         \A k \in 1..m : path[k] \notin AppDir, \A k \in m + 1..Len(path) : path[k] \in AppDir
  PROVE  Foreign(path) = SubSeq(path, 1, m)
<1>1. Len(path) \in Nat /\ \A k \in 1..Len(path) : path[k] \in S
  BY LenProperties, ElementOfSeq
<1>2. PICK f : f = [n \in 0..Len(path) |-> Keeping(f, path, n)] /\ Foreign(path) = f[Len(path)]
  BY <1>1, ForeignIs
<1> DEFINE T == {n \in 0..Len(path) : f[n] = SubSeq(path, 1, IF n <= m THEN n ELSE m)}
<1>3. 0 \in T
  <2>1. f[0] = <<>>
    BY <1>1, <1>2 DEF Keeping
  <2>2. SubSeq(path, 1, 0) = <<>>
    BY SubSeqEmpty
  <2>3. 0 \in 0..Len(path) /\ 0 <= m
    BY <1>1
  <2>4. QED BY <2>1, <2>2, <2>3
<1>4. ASSUME NEW n \in 1..Len(path), n - 1 \in T PROVE n \in T
  <2>1. f[n] = IF path[n] \in AppDir THEN f[n - 1] ELSE Append(f[n - 1], path[n])
    BY <1>1, <1>2, KeptIs
  <2>2. CASE n <= m
    <3>1. f[n] = Append(SubSeq(path, 1, n - 1), path[n])
      <4>1. n \in 1..m /\ n - 1 <= m
        BY <1>1, <2>2
      <4>2. QED BY <1>4, <2>1, <4>1
    <3>2. Append(SubSeq(path, 1, n - 1), path[n]) = SubSeq(path, 1, n)
      <4>1. /\ SubSeq(path, 1, n - 1) \in Seq(S) /\ Len(SubSeq(path, 1, n - 1)) = n - 1
            /\ \A i \in 1..n - 1 : SubSeq(path, 1, n - 1)[i] = path[i]
        BY <1>1, SubSeqProperties
      <4>2. /\ SubSeq(path, 1, n) \in Seq(S) /\ Len(SubSeq(path, 1, n)) = n
            /\ \A i \in 1..n : SubSeq(path, 1, n)[i] = path[i]
        BY <1>1, SubSeqProperties
      <4> DEFINE t == Append(SubSeq(path, 1, n - 1), path[n])
      <4>3. /\ t \in Seq(S) /\ Len(t) = n
            /\ \A i \in 1..n - 1 : t[i] = path[i]
            /\ t[n] = path[n]
        BY <1>1, <4>1, AppendProperties
      <4> HIDE DEF t
      <4>4. \A i \in 1..Len(t) : t[i] = SubSeq(path, 1, n)[i]
        BY <1>1, <4>2, <4>3
      <4>5. t = SubSeq(path, 1, n)
        BY <4>2, <4>3, <4>4, SeqEqual
      <4>6. QED BY <4>5 DEF t
    <3>3. QED BY <2>2, <3>1, <3>2
  <2>3. CASE ~(n <= m)
    <3>1. path[n] \in AppDir /\ (IF n - 1 <= m THEN n - 1 ELSE m) = m
      BY <1>1, <2>3
    <3>2. f[n] = SubSeq(path, 1, m)
      BY <1>4, <2>1, <3>1
    <3>3. QED BY <2>3, <3>2
  <2>4. QED BY <2>2, <2>3
<1> HIDE DEF T
<1>5. Len(path) \in T
  <2>1. \A n \in 0..Len(path) : n \in T
    BY <1>1, <1>3, <1>4, CountUp
  <2>2. QED BY <1>1, <2>1
<1>6. (IF Len(path) <= m THEN Len(path) ELSE m) = m
  BY <1>1
<1>7. QED
  BY <1>2, <1>5, <1>6 DEF T

LEMMA DirsOf ==
  ASSUME NEW path \in PathOptions
  PROVE  /\ AppDirs(path) \in Seq(Text) /\ Len(AppDirs(path)) \in {0, 1, 2}
         /\ \A i \in 1..Len(AppDirs(path)) : AppDirs(path)[i] \in AppDir
         /\ \A i, j \in 1..Len(AppDirs(path)) : AppDirs(path)[i] = AppDirs(path)[j] => i = j
<1>1. {CmdDir, BinDir} \subseteq Text
  BY EnvironmentAssumption
<1>2. CASE path = "BashOnly"
  <2>1. AppDirs(path) = <<>>
    BY <1>2 DEF AppDirs
  <2>2. QED BY <2>1, EmptySeq
<1>3. CASE path = "Cmd"
  <2>1. AppDirs(path) = <<CmdDir>>
    BY <1>3 DEF AppDirs
  <2>2. QED BY <1>1, <2>1 DEF AppDir
<1>4. CASE path = "CmdTools"
  <2>1. AppDirs(path) = <<CmdDir, BinDir>>
    BY <1>4 DEF AppDirs
  <2>2. CmdDir # BinDir
    BY DEF CmdDir, BinDir
  <2>3. QED BY <1>1, <2>1, <2>2 DEF AppDir
<1>5. QED
  BY <1>2, <1>3, <1>4 DEF PathOptions

\* What is written to PATH keeps what is foreign, and has the directories that were chosen once.
LEMMA PathWritten ==
  ASSUME NEW old \in Seq(Text), NEW path \in PathOptions
  PROVE  LET new == Foreign(old) \o AppDirs(path)
         IN  new \in Seq(Text) /\ Foreign(new) = Foreign(old) /\ AddedOnce(new)
<1> DEFINE s == Foreign(old)  d == AppDirs(path)  new == s \o d
<1>1. s \in Seq(Text) /\ Len(s) \in Nat /\ \A i \in 1..Len(s) : s[i] \notin AppDir
  BY ForeignKeeps, LenProperties
<1>2. /\ d \in Seq(Text) /\ Len(d) \in Nat
      /\ \A i \in 1..Len(d) : d[i] \in AppDir
      /\ \A i, j \in 1..Len(d) : d[i] = d[j] => i = j
  BY DirsOf, LenProperties
<1> HIDE DEF s, d
<1>3. /\ new \in Seq(Text) /\ Len(new) = Len(s) + Len(d)
      /\ \A i \in 1..Len(s) + Len(d) : new[i] = IF i <= Len(s) THEN s[i] ELSE d[i - Len(s)]
  BY <1>1, <1>2, ConcatProperties
<1>4. DOMAIN new = 1..Len(new)
  BY <1>3, LenProperties
<1> HIDE DEF new
<1>5. ASSUME NEW i \in 1..Len(new)
      PROVE  /\ i <= Len(s) => i \in 1..Len(s) /\ new[i] = s[i] /\ new[i] \notin AppDir
             /\ ~(i <= Len(s)) => i - Len(s) \in 1..Len(d) /\ new[i] = d[i - Len(s)] /\ new[i] \in AppDir
  BY <1>1, <1>2, <1>3
<1>6. AddedOnce(new)
  <2>1. ASSUME NEW i \in 1..Len(new), NEW j \in 1..Len(new), new[i] = new[j], new[i] \in AppDir
        PROVE  i = j
    <3>1. i - Len(s) \in 1..Len(d) /\ j - Len(s) \in 1..Len(d) /\ d[i - Len(s)] = d[j - Len(s)]
      BY <1>5, <2>1
    <3>2. i - Len(s) = j - Len(s)
      BY <1>2, <3>1
    <3>3. QED BY <1>1, <3>2
  <2>2. QED BY <1>4, <2>1 DEF AddedOnce
<1>7. Foreign(new) = s
  <2>1. Len(s) \in 0..Len(new) /\ \A k \in 1..Len(s) : k \in 1..Len(new) /\ k <= Len(s)
    BY <1>1, <1>2, <1>3
  <2>2. \A k \in Len(s) + 1..Len(new) : k \in 1..Len(new) /\ ~(k <= Len(s))
    BY <1>1
  <2>3. Foreign(new) = SubSeq(new, 1, Len(s))
    BY <1>3, <1>5, <2>1, <2>2, ForeignCuts
  <2>4. /\ SubSeq(new, 1, Len(s)) \in Seq(Text) /\ Len(SubSeq(new, 1, Len(s))) = Len(s)
        /\ \A i \in 1..Len(s) : SubSeq(new, 1, Len(s))[i] = new[i]
    BY <1>1, <1>3, <2>1, ElementOfSeq, SubSeqProperties
  <2>5. \A i \in 1..Len(SubSeq(new, 1, Len(s))) : SubSeq(new, 1, Len(s))[i] = s[i]
    BY <1>5, <2>1, <2>4
  <2>6. QED BY <1>1, <2>3, <2>4, <2>5, SeqEqual
<1>8. QED
  BY <1>3, <1>6, <1>7 DEF new, s, d

\* A session that is open was started by this run of setup.
Sessions == vista /\ SessionHandle > 0 /\ phase # "idle" => sessions >= 1

LEMMA EnvTexts ==
  /\ "PATH" \in Variables /\ "PATH" \notin Managed /\ Managed \subseteq Variables
  /\ HomeDir \in Text /\ Plinks \subseteq Text
  /\ Other \in [Variables -> Seq(Text)] /\ \A v \in Variables : UserValues[v] \subseteq Seq(Text)
  /\ \A path \in UserValues["PATH"] : AddedOnce(path)
BY EnvironmentAssumption DEF Managed, Variables

LEMMA SeenTexts ==
  ASSUME EnvTypeOK, NEW v \in Variables PROVE GetEnvStrings(v) \in Seq(Text)
BY EnvTexts DEF EnvTypeOK, GetEnvStrings

LEMMA ForeignOfNone == Foreign(<<>>) = <<>>
<1>1. <<>> \in Seq(Text) /\ Len(<<>>) = 0
  BY EmptySeq
<1> DEFINE path == <<>>
<1>2. path \in Seq(Text) /\ Len(path) = 0 /\ 0 \in 0..Len(path)
  BY <1>1
<1> HIDE DEF path
<1>3. Foreign(path) = SubSeq(path, 1, 0)
  <2>1. (\A k \in 1..0 : path[k] \notin AppDir) /\ \A k \in 0 + 1..Len(path) : path[k] \in AppDir
    BY <1>2
  <2>2. QED BY <1>2, <2>1, ForeignCuts
<1>4. QED BY <1>3, SubSeqEmpty DEF path

\* What a change of setup leaves in the registry.
LEMMA RegTyped ==
  ASSUME EnvTypeOK, PathKept, NEW wanted, NEW value, NEW path \in PathOptions, NEW broken,
         \A v \in wanted : value[v] \in Text,
         reg' = RegAfter(wanted, value, path, broken), writer' = WriterAfter(wanted, broken), own' = own
  PROVE  /\ reg' \in [Variables -> Seq(Text)]
         /\ writer' \in [Managed -> {"none", "user", "setup"}]
         /\ PathKept'
<1> DEFINE new == Foreign(GetEnvStrings("PATH")) \o AppDirs(path)
<1>1. new \in Seq(Text) /\ Foreign(new) = Foreign(GetEnvStrings("PATH")) /\ AddedOnce(new)
  BY SeenTexts, EnvTexts, PathWritten
<1>2. \A v \in Variables :
        reg'[v] = IF v \in broken THEN reg[v] ELSE IF v = "PATH" THEN new
                  ELSE IF v \in wanted THEN <<value[v]>> ELSE IF SetByUs(v) THEN <<>> ELSE reg[v]
  BY DEF RegAfter
<1>3. reg' = [v \in Variables |-> reg'[v]]
  BY DEF RegAfter
<1> HIDE DEF new
<1>4. ASSUME NEW v \in Variables PROVE reg'[v] \in Seq(Text)
  <2>1. reg[v] \in Seq(Text) /\ <<>> \in Seq(Text)
    BY EmptySeq DEF EnvTypeOK
  <2>2. v \in wanted => <<value[v]>> \in Seq(Text)
    OBVIOUS
  <2>3. QED BY <1>1, <1>2, <2>1, <2>2
<1>5. reg' \in [Variables -> Seq(Text)]
  BY <1>3, <1>4
<1>6. writer' \in [Managed -> {"none", "user", "setup"}]
  BY DEF WriterAfter, EnvTypeOK
<1>7. PathKept'
  <2>1. CASE "PATH" \in broken
    BY <1>2, <2>1, EnvTexts DEF PathKept
  <2>2. CASE "PATH" \notin broken
    <3>1. reg'["PATH"] = new
      BY <1>2, <2>2, EnvTexts
    <3>2. CASE reg["PATH"] = <<>>
      <4>1. own = <<>>
        BY <3>2, ForeignOfNone DEF PathKept
      <4>2. GetEnvStrings("PATH") = Other["PATH"]
        BY <3>2 DEF GetEnvStrings
      <4>3. QED BY <1>1, <3>1, <4>1, <4>2 DEF PathKept
    <3>3. CASE reg["PATH"] # <<>>
      <4>1. GetEnvStrings("PATH") = reg["PATH"]
        BY <3>3 DEF GetEnvStrings
      <4>2. QED BY <1>1, <3>1, <4>1 DEF PathKept
    <3>4. QED BY <3>2, <3>3
  <2>3. QED BY <2>1, <2>2
<1>8. QED BY <1>5, <1>6, <1>7

LEMMA FailedTyped ==
  ASSUME NEW broken \in SUBSET (Variables \cup {Ini}) PROVE Failed(broken) \subseteq Variables
BY EnvTexts DEF Failed

LEMMA ModifyTyped ==
  ASSUME EnvTypeOK, PathKept, NEW path \in PathOptions, NEW ssh \in Plinks \cup {OpenSSH},
         NEW broken \in SUBSET (Variables \cup {Ini}), SetEnvironment(path, ssh, broken)
  PROVE  EnvTypeOK' /\ PathKept'
<1> DEFINE wanted == Wanted(path, ssh, broken)
           value  == [v \in Managed |-> IF v = "HOME" THEN HomeDir ELSE ssh]
<1>1. wanted \subseteq Managed /\ \A v \in wanted : value[v] \in Text
  BY EnvTexts DEF Wanted, Managed
<1>2. /\ reg' = RegAfter(wanted, value, path, broken) /\ writer' = WriterAfter(wanted, broken)
      /\ ini' = IF Ini \in broken THEN ini ELSE IniAfter(wanted, value)
      /\ written' = written \cup {<<v, value[v]>> : v \in wanted}
      /\ lost' = lost \cup Failed(broken) /\ own' = own
  BY DEF SetEnvironment
<1> HIDE DEF wanted, value
<1>3. /\ reg' \in [Variables -> Seq(Text)] /\ writer' \in [Managed -> {"none", "user", "setup"}]
      /\ PathKept'
  BY <1>1, <1>2, RegTyped
<1>4. ini' \in [Managed -> Seq(Text)]
  <2>1. ASSUME NEW v \in Managed PROVE IniAfter(wanted, value)[v] \in Seq(Text)
    <3>1. v \in wanted => <<value[v]>> \in Seq(Text)
      BY <1>1
    <3>2. QED BY <3>1 DEF IniAfter, EnvTypeOK
  <2>2. IniAfter(wanted, value) \in [Managed -> Seq(Text)]
    BY <2>1 DEF IniAfter
  <2>3. QED BY <1>2, <2>2 DEF EnvTypeOK
<1>5. written' \subseteq Managed \X Text /\ lost' \subseteq Variables /\ own' \in Seq(Text)
  BY <1>1, <1>2, FailedTyped DEF EnvTypeOK
<1>6. QED BY <1>3, <1>4, <1>5 DEF EnvTypeOK

LEMMA ResetTyped ==
  ASSUME EnvTypeOK, PathKept, NEW broken \in SUBSET (Variables \cup {Ini}), ResetEnvironment(broken)
  PROVE  EnvTypeOK' /\ PathKept'
<1>1. /\ reg' = RegAfter({}, <<>>, "BashOnly", broken) /\ writer' = WriterAfter({}, broken)
      /\ ini' = IF Ini \in broken THEN ini ELSE [v \in Managed |-> <<>>]
      /\ written' = written /\ lost' = lost \cup Failed(broken) /\ own' = own
  BY DEF ResetEnvironment
<1>2. /\ reg' \in [Variables -> Seq(Text)] /\ writer' \in [Managed -> {"none", "user", "setup"}]
      /\ PathKept'
  <2> DEFINE wanted == {}
             value  == <<>>
  <2>1. /\ reg' = RegAfter(wanted, value, "BashOnly", broken) /\ writer' = WriterAfter(wanted, broken)
        /\ own' = own
    BY <1>1
  <2>2. "BashOnly" \in PathOptions /\ \A v \in wanted : value[v] \in Text
    BY DEF PathOptions
  <2> HIDE DEF wanted, value
  <2>3. QED BY <2>1, <2>2, RegTyped
<1>3. ini' \in [Managed -> Seq(Text)]
  BY <1>1, EmptySeq DEF EnvTypeOK
<1>4. QED BY <1>1, <1>2, <1>3, FailedTyped DEF EnvTypeOK

LEMMA UserTyped ==
  ASSUME EnvTypeOK, PathKept, NEW v \in Variables, NEW value \in UserValues[v], UserSets(v, value)
  PROVE  EnvTypeOK' /\ PathKept'
<1>1. value \in Seq(Text) /\ reg' = [reg EXCEPT ![v] = value]
  BY EnvTexts DEF UserSets
<1>2. reg' \in [Variables -> Seq(Text)]
  BY <1>1 DEF EnvTypeOK
<1>3. CASE v = "PATH"
  <2>1. reg'["PATH"] = value /\ own' = Foreign(value) /\ writer' = writer
    BY <1>1, <1>3 DEF UserSets, EnvTypeOK
  <2>2. AddedOnce(value)
    BY <1>3, EnvTexts
  <2>3. own' \in Seq(Text)
    BY <1>1, <2>1, ForeignKeeps
  <2>4. QED BY <1>2, <2>1, <2>2, <2>3 DEF UserSets, EnvTypeOK, PathKept
<1>4. CASE v # "PATH"
  <2>1. reg'["PATH"] = reg["PATH"] /\ own' = own
    BY <1>1, <1>4, EnvTexts DEF UserSets, EnvTypeOK
  <2>2. writer' \in [Managed -> {"none", "user", "setup"}]
    BY <1>4 DEF UserSets, EnvTypeOK
  <2>3. QED BY <1>2, <2>1, <2>2 DEF UserSets, EnvTypeOK, PathKept
<1>5. QED BY <1>3, <1>4

\* What Next does to the environment.
LEMMA EnvSteps ==
  ASSUME [Next]_vars
  PROVE  \/ UNCHANGED environment
         \/ \E path \in PathOptions, ssh \in Plinks \cup {OpenSSH}, broken \in SUBSET (Variables \cup {Ini}) :
              SetEnvironment(path, ssh, broken)
         \/ \E broken \in SUBSET (Variables \cup {Ini}) : ResetEnvironment(broken)
         \/ \E v \in Variables : \E value \in UserValues[v] : UserSets(v, value)
<1>1. CASE UNCHANGED vars
  BY <1>1 DEF vars
<1>2. CASE \/ ShouldSkipPage \/ Refresh \/ NextButtonClick \/ Cancel \/ InitializeUninstall \/ Continue
           \/ Abort \/ NothingToReplace \/ Copy
  BY <1>2 DEF ShouldSkipPage, Refresh, NextButtonClick, Cancel, InitializeUninstall, Continue, Abort,
    NothingToReplace, Copy
<1>3. ASSUME NEW next, Start(next) PROVE UNCHANGED environment
  BY <1>3 DEF Start
<1>4. ASSUME NEW closing, Shutdown(closing) PROVE UNCHANGED environment
  BY <1>4 DEF Shutdown
<1>5. ASSUME NEW unregistered, NEW deleted, NEW renamed, NEW placed, NEW registered,
             ReplaceInUseFile(unregistered, deleted, renamed, placed, registered)
      PROVE UNCHANGED environment
  BY <1>5 DEF ReplaceInUseFile
<1>6. ASSUME NEW p, Starts(p) \/ Exits(p) PROVE UNCHANGED environment
  BY <1>6 DEF Starts, Exits
<1>7. ASSUME NEW path \in PathOptions, NEW ssh \in Plinks \cup {OpenSSH},
             NEW broken \in SUBSET (Variables \cup {Ini}), ModifyEnvironment(path, ssh, broken)
      PROVE SetEnvironment(path, ssh, broken)
  BY <1>7 DEF ModifyEnvironment
<1>8. ASSUME NEW broken \in SUBSET (Variables \cup {Ini}), NEW unregistered, NEW deleted,
             Uninstall(broken, unregistered, deleted)
      PROVE ResetEnvironment(broken)
  BY <1>8 DEF Uninstall
<1>9. ASSUME NEW v, NEW value, UserChanges(v, value) PROVE UserSets(v, value)
  BY <1>9 DEF UserChanges
<1>10. ASSUME NEW restarted, Restart(restarted) PROVE UNCHANGED environment
  BY <1>10 DEF Restart
<1>11. QED
  BY <1>1, <1>2, <1>3, <1>4, <1>5, <1>6, <1>7, <1>8, <1>9, <1>10 DEF Next, Installing, Uninstalling

LEMMA EnvTypedStep == EnvTypeOK /\ PathKept /\ [Next]_vars => EnvTypeOK' /\ PathKept'
<1> SUFFICES ASSUME EnvTypeOK, PathKept, [Next]_vars PROVE EnvTypeOK' /\ PathKept'
  OBVIOUS
<1>1. CASE UNCHANGED environment
  BY <1>1 DEF environment, EnvTypeOK, PathKept
<1>2. QED
  BY <1>1, EnvSteps, ModifyTyped, ResetTyped, UserTyped

LEMMA EnvTypedInit == Init => EnvTypeOK /\ PathKept
<1> SUFFICES ASSUME Init PROVE EnvTypeOK /\ PathKept
  OBVIOUS
<1>1. /\ reg \in [Variables -> UNION {UserValues[v] : v \in Variables}]
      /\ \A v \in Variables : reg[v] \in UserValues[v]
      /\ ini = [v \in Managed |-> <<>>]
      /\ writer = [v \in Managed |-> IF reg[v] = <<>> THEN "none" ELSE "user"]
      /\ written = {} /\ lost = {} /\ own = Foreign(reg["PATH"])
  BY DEF Init, EnvInit
<1>2. reg \in [Variables -> Seq(Text)]
  BY <1>1, EnvTexts
<1>3. reg["PATH"] \in UserValues["PATH"] /\ reg["PATH"] \in Seq(Text)
  BY <1>1, <1>2, EnvTexts
<1>4. own \in Seq(Text) /\ PathKept
  BY <1>1, <1>3, EnvTexts, ForeignKeeps DEF PathKept
<1>5. QED BY <1>1, <1>2, <1>4, EmptySeq DEF EnvTypeOK

\* The user's directories stay in PATH, in their order, and none of the installation is there twice.
THEOREM PathStays == Spec => []PathKept
BY EnvTypedInit, EnvTypedStep, PTL DEF Spec

(***************************************************************************)
(* The types.                                                              *)
(***************************************************************************)
Typed == TypeOK /\ Sessions

LEMMA RefreshTyped ==
  ASSUME Typed, NEW first \in BOOLEAN, RefreshProcessList(first), vista' = vista
  PROVE  /\ SessionHandle' \in {0, 1} /\ sessions' \in 0..MaxSessions
         /\ Processes' \subseteq [id : Process, restartable : BOOLEAN]
         /\ enabled' \in BOOLEAN /\ seen' \in BOOLEAN /\ fresh' \subseteq Process
         /\ Sessions'
<1> USE SetupAssumption
<1>1. enabled' \in BOOLEAN /\ fresh' = {}
  BY DEF RefreshProcessList
<1>2. /\ running \subseteq Process /\ sessions \in 0..MaxSessions /\ vista \in BOOLEAN
  BY DEF Typed, TypeOK
<1>3. ASSUME NEW procs \in SUBSET Process, NEW flag \in BOOLEAN
      PROVE  Entries(procs, flag) \subseteq [id : Process, restartable : BOOLEAN]
  BY DEF Entries
<1>4. CASE vista
  <2>1. PICK started \in BOOLEAN, got \in BOOLEAN, handle \in {0, 1} : FindWinVista(started, handle, got)
    BY <1>4 DEF RefreshProcessList
  <2>2. /\ sessions' \in 0..MaxSessions /\ SessionHandle' \in {0, 1} /\ seen' \in BOOLEAN
        /\ SessionHandle' > 0 => sessions' >= 1
    BY <1>2, <2>1 DEF FindWinVista
  <2>3. Processes' \subseteq [id : Process, restartable : BOOLEAN]
    <3>1. /\ Entries((running \ Opaque) \cap Registered, TRUE) \subseteq [id : Process, restartable : BOOLEAN]
          /\ Entries((running \ Opaque) \ Registered, FALSE) \subseteq [id : Process, restartable : BOOLEAN]
      BY <1>2, <1>3
    <3>2. QED BY <2>1, <3>1 DEF FindWinVista
  <2>4. QED BY <1>1, <2>2, <2>3 DEF Sessions
<1>5. CASE ~vista
  <2>1. PICK gotCore \in BOOLEAN, gotShell \in BOOLEAN : FindWin2000(gotCore, gotShell)
    BY <1>5 DEF RefreshProcessList
  <2>2. sessions' = sessions /\ SessionHandle' \in {0, 1} /\ seen' \in BOOLEAN
    BY <2>1 DEF FindWin2000
  <2>3. Processes' \subseteq [id : Process, restartable : BOOLEAN]
    <3>1. /\ Entries((running \cap Core) \ Opaque, FALSE) \subseteq [id : Process, restartable : BOOLEAN]
          /\ Entries((running \cap Shell) \ Opaque, TRUE) \subseteq [id : Process, restartable : BOOLEAN]
      BY <1>2, <1>3
    <3>2. QED BY <2>1, <3>1 DEF FindWin2000
  <2>4. QED BY <1>1, <1>2, <1>5, <2>2, <2>3 DEF Sessions
<1>6. QED BY <1>4, <1>5

LEMMA ListTyped ==
  Typed /\ (ShouldSkipPage \/ Refresh \/ InitializeUninstall) /\ EnvTypeOK' => Typed'
<1> SUFFICES ASSUME Typed, ShouldSkipPage \/ Refresh \/ InitializeUninstall, EnvTypeOK' PROVE Typed'
  OBVIOUS
<1>1. UNCHANGED <<vista, installed, running, closed, agreed, cheetah, curFile, newFile, server, manual>>
  BY DEF ShouldSkipPage, Refresh, InitializeUninstall, rm, file
<1>2. PICK first \in BOOLEAN : RefreshProcessList(first)
  BY DEF ShouldSkipPage, Refresh, InitializeUninstall
<1>3. phase' \in Phases
  BY DEF ShouldSkipPage, Refresh, InitializeUninstall, Phases, Typed, TypeOK
<1>4. QED BY <1>1, <1>2, <1>3, RefreshTyped DEF Typed, TypeOK

\* A step that leaves the list alone, and begins no run.
LEMMA PhaseTyped ==
  ASSUME Typed, EnvTypeOK', phase' \in Phases, vista' = vista, installed' \in BOOLEAN,
         UNCHANGED <<SessionHandle, sessions, Processes, enabled, seen>>, fresh' \subseteq Process,
         agreed' = agreed \/ agreed' = Listed, running' \subseteq Process, closed' \subseteq Process,
         cheetah' \in BOOLEAN, curFile' \in {"none", "old", "new"}, newFile' \in BOOLEAN,
         server' \in BOOLEAN, manual' \subseteq {"unregister", "rename old", "rename new", "register"},
         phase # "idle" \/ phase' = "idle"
  PROVE  Typed'
<1>1. Listed \subseteq Process
  BY DEF Listed, Typed, TypeOK
<1>2. Sessions'
  BY DEF Typed, Sessions
<1>3. QED BY <1>1, <1>2 DEF Typed, TypeOK

LEMMA StillTyped ==
  ASSUME Typed, EnvTypeOK',
         UNCHANGED <<vista, phase, installed, SessionHandle, sessions, Processes, enabled, seen>>,
         UNCHANGED <<fresh, agreed, running, closed, cheetah, curFile, newFile, server, manual>>
  PROVE  Typed'
<1>1. TypeOK'
  BY DEF Typed, TypeOK
<1>2. Sessions'
  BY DEF Typed, Sessions
<1>3. QED BY <1>1, <1>2 DEF Typed

LEMMA TypedStep == Typed /\ EnvTypeOK' /\ [Next]_vars => Typed'
<1> SUFFICES ASSUME Typed, EnvTypeOK', [Next]_vars PROVE Typed'
  OBVIOUS
<1> USE DEF Phases
<1>1. CASE UNCHANGED vars
  <2>1. /\ UNCHANGED <<vista, phase, installed, SessionHandle, sessions, Processes, enabled, seen>>
        /\ UNCHANGED <<fresh, agreed, running, closed, cheetah, curFile, newFile, server, manual>>
    BY <1>1 DEF vars, setup, list, rm, file
  <2>2. QED BY <2>1, StillTyped
<1>2. ASSUME NEW next \in {"wizard", "uninstaller"}, Start(next) PROVE Typed'
  <2>1. Sessions'
    BY <1>2 DEF Start, Sessions
  <2>2. SessionHandle' \in {0, 1} /\ sessions' \in 0..MaxSessions
    BY <1>2, SetupAssumption DEF Start
  <2>3. /\ phase' \in Phases /\ Processes' = {} /\ enabled' = TRUE /\ seen' = FALSE
        /\ fresh' = {} /\ agreed' = {} /\ closed' = {} /\ cheetah' = FALSE /\ manual' = {}
        /\ curFile' \in {"none", "old", "new"}
        /\ UNCHANGED <<vista, running, installed, newFile, server>>
    BY <1>2 DEF Start
  <2>4. QED BY <2>1, <2>2, <2>3 DEF Typed, TypeOK
<1>3. CASE NextButtonClick \/ Continue \/ Cancel
  <2>1. /\ UNCHANGED <<vista, installed, running, closed, cheetah, curFile, newFile, server, manual>>
        /\ UNCHANGED <<SessionHandle, sessions, Processes, enabled, seen, fresh>>
        /\ agreed' = agreed \/ agreed' = Listed
        /\ phase' \in {"install", "uninstall", "idle"} /\ phase # "idle"
    BY <1>3 DEF NextButtonClick, Continue, Cancel, list, rm, file
  <2>2. QED BY <2>1, PhaseTyped DEF Typed, TypeOK
<1>4. ASSUME NEW closing \in SUBSET Process, Shutdown(closing) PROVE Typed'
  BY <1>4, PhaseTyped DEF Shutdown, list, file, Typed, TypeOK
<1>5. CASE Copy \/ Abort \/ NothingToReplace
  BY <1>5, PhaseTyped DEF Copy, Abort, NothingToReplace, list, rm, file, Typed, TypeOK
<1>6. ASSUME NEW path, NEW ssh, NEW broken, ModifyEnvironment(path, ssh, broken) PROVE Typed'
  BY <1>6, PhaseTyped DEF ModifyEnvironment, list, rm, file, Typed, TypeOK
<1>7. ASSUME NEW unregistered \in BOOLEAN, NEW deleted \in BOOLEAN, NEW renamed \in BOOLEAN,
             NEW placed \in BOOLEAN, NEW registered \in BOOLEAN,
             ReplaceInUseFile(unregistered, deleted, renamed, placed, registered)
      PROVE Typed'
  BY <1>7, PhaseTyped DEF ReplaceInUseFile, Advice, list, rm, Typed, TypeOK
<1>8. ASSUME NEW restarted \in SUBSET Process, Restart(restarted) PROVE Typed'
  <2>1. SessionHandle > 0 /\ vista => sessions - 1 \in 0..MaxSessions
    <3>1. phase # "idle" /\ sessions \in 0..MaxSessions
      BY <1>8 DEF Restart, Typed, TypeOK
    <3>2. SessionHandle > 0 /\ vista => sessions >= 1
      BY <3>1 DEF Typed, Sessions
    <3>3. QED BY <3>1, <3>2, SetupAssumption
  <2>2. sessions' \in 0..MaxSessions /\ running' \subseteq Process /\ closed' \subseteq Process
    BY <1>8, <2>1 DEF Restart, Typed, TypeOK
  <2>3. QED BY <1>8, <2>2 DEF Restart, file, Typed, TypeOK, Sessions
<1>9. ASSUME NEW broken, NEW unregistered \in BOOLEAN, NEW deleted \in BOOLEAN,
             Uninstall(broken, unregistered, deleted)
      PROVE Typed'
  BY <1>9, PhaseTyped DEF Uninstall, list, rm, Typed, TypeOK
<1>10. ASSUME NEW p \in Process, Starts(p) \/ Exits(p) PROVE Typed'
  <2>1. /\ UNCHANGED <<vista, phase, installed, SessionHandle, sessions, Processes, enabled, seen, agreed>>
        /\ UNCHANGED <<closed, cheetah, curFile, newFile, server, manual>>
        /\ running' \subseteq running \cup {p} /\ fresh' \subseteq fresh \cup {p}
    BY <1>10 DEF Starts, Exits, list, file
  <2>2. running' \subseteq Process /\ fresh' \subseteq Process
    BY <2>1 DEF Typed, TypeOK
  <2>3. phase # "idle" \/ phase' = "idle"
    BY <2>1
  <2>4. phase' \in Phases /\ installed' \in BOOLEAN /\ closed' \subseteq Process /\ cheetah' \in BOOLEAN
    BY <2>1 DEF Typed, TypeOK
  <2>5. /\ curFile' \in {"none", "old", "new"} /\ newFile' \in BOOLEAN /\ server' \in BOOLEAN
        /\ manual' \subseteq {"unregister", "rename old", "rename new", "register"}
    BY <2>1 DEF Typed, TypeOK
  <2>6. QED BY <2>1, <2>2, <2>3, <2>4, <2>5, PhaseTyped
<1>11. ASSUME NEW v, NEW value, UserChanges(v, value) PROVE Typed'
  BY <1>11, PhaseTyped DEF UserChanges, setup, list, rm, file, Typed, TypeOK
<1>12. QED
  BY <1>1, <1>2, <1>3, <1>4, <1>5, <1>6, <1>7, <1>8, <1>9, <1>10, <1>11, ListTyped
  DEF Next, Installing, Uninstalling

LEMMA TypedInit == Init => Typed
<1> SUFFICES ASSUME Init PROVE Typed
  OBVIOUS
<1>1. EnvTypeOK
  BY EnvTypedInit
<1>2. sessions \in 0..MaxSessions /\ SessionHandle \in {0, 1} /\ Sessions
  BY SetupAssumption DEF Init, Sessions
<1>3. QED BY <1>1, <1>2 DEF Init, Typed, TypeOK, Phases

LEMMA AlwaysTyped == Spec => []Typed
<1>1. Typed /\ PathKept /\ [Next]_vars => Typed'
  <2>1. Typed => EnvTypeOK
    BY DEF Typed, TypeOK
  <2>2. QED BY <2>1, EnvTypedStep, TypedStep
<1>2. QED BY <1>1, TypedInit, PathStays, PTL DEF Spec

\* The types, and that no run of setup has more sessions open than there can be, nor ends one
\* that it has not started.
THEOREM TypeCorrect == Spec => []TypeOK
<1>1. Typed => TypeOK
  BY DEF Typed
<1>2. QED BY <1>1, AlwaysTyped, PTL

\* Whatever is refreshed, started or exits after the session was made, and whichever call fails,
\* the session that shut a process down is there to restart it when RmRestart() is reached.
THEOREM ClosedRestartable == Spec => []ClosedCanRestart
<1>1. ListInv /\ Typed => ClosedCanRestart
  <2>1. SUFFICES ASSUME ListInv, Typed, closed # {}, phase \in {"copying", "post", "replace", "restart"}
                 PROVE  vista /\ SessionHandle > 0 /\ sessions > 0
    BY DEF ClosedCanRestart
  <2>2. vista /\ SessionHandle > 0
    BY <2>1 DEF ListInv, Closing
  <2>3. phase # "idle" /\ sessions \in 0..MaxSessions
    BY <2>1 DEF Typed, TypeOK
  <2>4. sessions >= 1
    BY <2>1, <2>2, <2>3 DEF Typed, Sessions
  <2>5. QED BY <2>2, <2>3, <2>4, SetupAssumption
<1>2. QED
  BY <1>1, ListInit, ListStep, AlwaysTyped, PTL DEF Spec
=============================================================================
