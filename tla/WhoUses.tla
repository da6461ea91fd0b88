------------------------------ MODULE WhoUses ------------------------------
(***************************************************************************)
(* WhoUses fileName (src/WhoUses): lists the processes that hold a file.   *)
(* The table of all handles of the system is read once; then each handle   *)
(* is asked for its type and its name, while its process goes on opening   *)
(* and closing files under the same handles.  A file may not answer for as *)
(* long as another operation on it is under way, so a thread with a time   *)
(* limit asks it first.                                                    *)
(***************************************************************************)
EXTENDS Naturals, Sequences

CONSTANTS
  N,       \* handles
  Opaque,  \* the handles of processes that OpenProcess() is refused
  Object,  \* what a handle may stand for; its name is itself
  File,    \* those of type "File"
  Thread,  \* those of type "Thread"
  Unlisted, \* those of a type that GetTypeFromTypeToken() does not know
  Wanted,  \* those with the name that is looked for
  Long     \* the files whose name is a multiple of 256 bytes long

Handle == 1..N
None   == "none"
Bytes  == "bytes"  \* what the thread leaves in the string: the record, read as a text

ASSUME WhoUsesAssumption ==
  /\ N \in Nat
  /\ Opaque \subseteq Handle
  /\ Wanted \subseteq File /\ File \subseteq Object /\ Thread \subseteq Object
  /\ Unlisted \subseteq Object \ (File \cup Thread)
  /\ Long \subseteq File /\ File \cap Thread = {}
  /\ {None, Bytes, ""} \cap Object = {}

VARIABLES
  object,    \* what each handle stands for, None when it is closed
  busy,      \* the file behind the duplicated handle does not answer
  pc,
  table,     \* pSysHandleInformation: the handles of the snapshot
  at,        \* the handle of the table, or the entry of m_HandleInfos, that is looked at
  strType,   \* of Refresh(): "File" or not
  infos,     \* m_HandleInfos
  name,      \* of WhoUsesFile()
  type,      \* of GetName()
  handle,    \* the object behind the duplicated handle
  thread,    \* of GetFileName(): "none", "asking", "assigning" or "ended"
  rc,        \* of the thread: it has a name
  reported,  \* the entries that are shown
  kept,      \* history: the entries that left name as it was
  late,      \* history: the entries whose thread was given up
  holder,    \* history: the handles that have stood for a wanted file since the snapshot
  steady,    \* history: the handles that have stood for one all the time
  swapped    \* history: the handle was closed after GetType() had looked at it

lists   == <<table, infos, strType>>
asked   == <<type, handle, busy, thread, rc>>
result  == <<name, reported, kept, late>>
history == <<holder, steady, swapped>>
vars    == <<object, pc, at, lists, asked, result, history>>

HoldsWanted(obj) == {h \in Handle : obj[h] \in Wanted}

Init ==
  /\ object \in [Handle -> Object \cup {None}] /\ busy = FALSE
  /\ pc = "snapshot" /\ at = 1
  /\ table = {} /\ infos = <<>> /\ strType = ""
  /\ type = "" /\ handle = None /\ thread = "none" /\ rc = FALSE
  /\ name = "" /\ reported = {} /\ kept = {} /\ late = {}
  /\ holder = {} /\ steady = {} /\ swapped = FALSE

TypeOf(o) == IF o \in File THEN "File" ELSE IF o \in Thread THEN "Thread" ELSE "Other"

-----------------------------------------------------------------------------
(* SystemHandleInformation::Refresh()                                        *)

\* The second call of NtQuerySystemInformation() fails when the table has grown.
Snapshot(fits) ==
  /\ pc = "snapshot"
  /\ IF fits THEN pc' = "filter" /\ table' = {h \in Handle : object[h] # None}
             ELSE pc' = "failed" /\ UNCHANGED table
  /\ holder' = HoldsWanted(object) /\ steady' = HoldsWanted(object)
  /\ UNCHANGED <<object, at, infos, strType, asked, result, swapped>>

\* The result of GetTypeToken() is not looked at: what cannot be asked has the type of the one
\* before.
GetTypeToken(h) == IF h \in Opaque \/ object[h] = None THEN strType ELSE TypeOf(object[h])

Filter ==
  /\ pc = "filter" /\ at <= N
  /\ strType' = IF at \in table THEN GetTypeToken(at) ELSE strType
  /\ infos' = IF at \in table /\ strType' = "File" THEN Append(infos, at) ELSE infos
  /\ at' = at + 1
  /\ UNCHANGED <<object, pc, table, asked, result, history>>

Filtered ==
  /\ pc = "filter" /\ at > N
  /\ pc' = "GetType" /\ at' = 1
  /\ table' = {} /\ strType' = ""
  /\ UNCHANGED <<object, infos, asked, result, history>>

-----------------------------------------------------------------------------
(* WhoUsesFile(), GetName() and GetNameByType().                             *)

\* Variant: compares before the name is there.
MatchOld(text) == IF name \in Wanted THEN {at} ELSE {}

\* Variant: the iterator has been moved on.
MatchNext(text) == IF text \in Wanted THEN {at + 1} ELSE {}

Match(text) == IF text \in Wanted THEN {at} ELSE {}

\* The entry is shown if the name is the one looked for, whether GetName() has set it or not.
Show(text, untouched) ==
  /\ name' = text
  /\ reported' = reported \cup Match(text)
  /\ kept' = IF untouched THEN kept \cup {at} ELSE kept
  /\ at' = at + 1 /\ pc' = "GetType"
  /\ type' = "" /\ handle' = None /\ busy' = FALSE /\ thread' = "none" /\ rc' = FALSE
  /\ swapped' = FALSE

\* GetType() opens the process and the handle, and closes them again.  It fails for a type that
\* is not in its table, too.
GetType ==
  /\ pc = "GetType" /\ at <= Len(infos)
  /\ LET h == infos[at] IN
       IF h \in Opaque \/ object[h] \in Unlisted \cup {None}
         THEN Show(name, TRUE)
         ELSE /\ type' = TypeOf(object[h]) /\ pc' = "name"
              /\ UNCHANGED <<at, handle, busy, thread, rc, name, reported, kept, swapped>>
  /\ UNCHANGED <<object, lists, late, holder, steady>>

\* The name of a thread is built and not returned.
GetNameByType ==
  /\ pc = "name"
  /\ IF type = "Thread" THEN Show(name, TRUE)
     ELSE /\ handle' = object[infos[at]]
          /\ IF type = "File" THEN pc' = "wait" /\ thread' = "asking"
                              ELSE pc' = "query" /\ UNCHANGED thread
          /\ UNCHANGED <<at, type, busy, rc, name, reported, kept, swapped>>
  /\ UNCHANGED <<object, lists, late, holder, steady>>

Finish ==
  /\ pc = "GetType" /\ at > Len(infos)
  /\ pc' = "done"
  /\ UNCHANGED <<object, at, lists, asked, result, history>>

-----------------------------------------------------------------------------
(* GetFileName() and its thread.                                             *)

\* NtQueryInformationFile() returns; only a file has a name of this kind.
Answers(ok) ==
  /\ thread = "asking" /\ pc = "wait" /\ ~busy
  /\ ok => handle \in File
  /\ rc' = ok /\ thread' = IF ok THEN "assigning" ELSE "ended"
  /\ UNCHANGED <<object, pc, at, lists, type, handle, busy, result, history>>

\* The record begins with the length, whose first byte ends the text if it is zero.
AssignedName == IF handle \in Long THEN "" ELSE Bytes

Assign ==
  /\ thread = "assigning" /\ pc = "wait"
  /\ name' = AssignedName /\ thread' = "ended"
  /\ UNCHANGED <<object, pc, at, lists, type, handle, busy, rc, reported, kept, late, history>>

\* Variant: an error of the thread is access denied.
DeniedOnError(answer, text) == ~answer \/ text = ""

Denied(answer, text) == answer /\ text = ""

Waited ==
  /\ pc = "wait" /\ thread = "ended"
  /\ IF Denied(rc, name) THEN Show("", FALSE)
     ELSE pc' = "query" /\ UNCHANGED <<at, asked, name, reported, kept, swapped>>
  /\ UNCHANGED <<object, lists, late, holder, steady>>

\* What may become of a thread that is terminated: one that assigns may still finish, or leave
\* the lock of the heap behind.
Fates == IF thread = "assigning" THEN {"gone", "finished", "locked"} ELSE {"gone"}

\* Variant: the string is not emptied.
TimeoutKeepsName(fate) ==
  /\ pc = "wait" /\ thread # "ended" /\ fate \in Fates
  /\ late' = late \cup {at}
  /\ pc' = "query" /\ UNCHANGED <<at, asked, name, reported, kept>>
  /\ UNCHANGED <<object, lists, type, history>>

Timeout(fate) ==
  /\ pc = "wait" /\ thread # "ended" /\ fate \in Fates
  /\ late' = late \cup {at}
  /\ IF fate = "gone" \/ (fate = "finished" /\ AssignedName = "") THEN Show("", FALSE)
     ELSE /\ IF fate = "locked" THEN pc' = "locked" /\ UNCHANGED <<name, thread>>
             ELSE pc' = "query" /\ name' = AssignedName /\ thread' = "ended"
          /\ UNCHANGED <<at, type, handle, busy, rc, reported, kept, swapped>>
  /\ UNCHANGED <<object, lists, holder, steady>>

\* NtQueryObject() waits for a file that is busy.
Query ==
  /\ pc = "query" /\ ~busy
  /\ IF handle = None THEN Show(name, TRUE) ELSE Show(handle, FALSE)
  /\ UNCHANGED <<object, lists, late, holder, steady>>

-----------------------------------------------------------------------------
(* The other processes.                                                      *)

Changes(h, o) ==
  /\ object[h] # o /\ (object[h] = None \/ o = None)
  /\ object' = [object EXCEPT ![h] = o]
  /\ holder' = IF o \in Wanted /\ pc # "snapshot" THEN holder \cup {h} ELSE holder
  /\ steady' = steady \ {h}
  /\ swapped' = (swapped \/ (pc = "name" /\ infos[at] = h))
  /\ UNCHANGED <<pc, at, lists, asked, result>>

\* Whether a file answers matters while it is asked.
Blocks ==
  /\ handle \in File
  /\ busy' = ~busy
  /\ UNCHANGED <<object, pc, at, lists, type, handle, thread, rc, result, history>>

Main ==
  \/ \E fits \in BOOLEAN : Snapshot(fits)
  \/ Filter \/ Filtered \/ GetType \/ GetNameByType \/ Finish
  \/ Waited \/ \E fate \in {"gone", "finished", "locked"} : Timeout(fate)
  \/ Query

Others ==
  \/ \E h \in Handle, o \in Object \cup {None} : Changes(h, o)
  \/ Blocks

Next ==
  \/ Main
  \/ \E ok \in BOOLEAN : Answers(ok)
  \/ Assign
  \/ Others

Spec == Init /\ [][Next]_vars

\* The program is scheduled; nothing else has to happen.
FairSpec == Spec /\ WF_vars(Main)
-----------------------------------------------------------------------------
(* Properties.                                                               *)

SystemTypeOK ==
  /\ object \in [Handle -> Object \cup {None}] /\ busy \in BOOLEAN
  /\ holder \subseteq Handle /\ steady \subseteq Handle /\ swapped \in BOOLEAN

ListTypeOK ==
  /\ pc \in {"snapshot", "failed", "filter", "GetType", "name", "wait", "query", "locked", "done"}
  /\ table \subseteq Handle /\ infos \in Seq(Handle) /\ strType \in {"", "File", "Thread", "Other"}
  /\ at \in Nat \ {0} /\ (pc \in {"name", "wait", "query", "locked"} => at <= Len(infos))
  /\ reported \cup kept \cup late \subseteq DOMAIN infos

NameTypeOK ==
  /\ type \in {"", "File", "Thread", "Other"} /\ handle \in Object \cup {None}
  /\ name \in Object \cup {"", Bytes}
  /\ thread \in {"none", "asking", "assigning", "ended"} /\ rc \in BOOLEAN

TypeOK == SystemTypeOK /\ ListTypeOK /\ NameTypeOK

\* A handle that is shown has stood for a file of the name since the table was read; except that
\* one which could not be asked is shown if the entry before it is, since the name stays.
ReportedHolds ==
  \A entry \in reported :
    infos[entry] \in holder \/ (entry \in kept /\ entry - 1 \in reported)

\* A handle that stands for a file of the name from the beginning to the end is shown, unless its
\* process cannot be opened, its thread was given up, or the length of the name ends in a zero.
OpenIsReported ==
  pc = "done" =>
    \A h \in steady \ Opaque :
      \/ object[h] \in Long
      \/ \E entry \in DOMAIN infos : infos[entry] = h /\ entry \in reported \cup late

\* The program ends, however long a file does not answer, unless the thread that it gave up had
\* the lock of the heap, or the file is blocked after it has answered the thread, or was opened
\* under a handle that had been found to be no file.
Finishes ==
  \/ <>(pc \in {"done", "failed", "locked"})
  \/ []<>(pc = "query" /\ busy /\ (thread = "ended" \/ swapped))
=============================================================================
