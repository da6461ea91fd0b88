--------------------------- MODULE WhoUsesProofs ---------------------------
(***************************************************************************)
(* Proofs about WhoUses, for any handles, files and processes: the types,  *)
(* that what is shown holds the file, that what holds it is shown, and how *)
(* many steps the program takes at most.                                   *)
(***************************************************************************)
EXTENDS WhoUses, SequenceTheorems, TLAPS

Asked == {"wait", "query", "locked"}
Shown == {"GetType", "name", "done"} \cup Asked

\* A name that is left over was shown with the entry before; the object that is asked has been a
\* holder if it is wanted.
Credits ==
  /\ pc \notin Shown => reported = {} /\ name = ""
  /\ name \in Wanted => at - 1 \in reported
  /\ pc \in Asked /\ handle \in Wanted => infos[at] \in holder
  /\ pc # "snapshot" => HoldsWanted(object) \subseteq holder

HoldsInv == TypeOK /\ Credits /\ ReportedHolds

\* The entries of the handle h have been filtered, and those before `at' have been shown.
IsListed(h) == \E entry \in DOMAIN infos : infos[entry] = h
Expected(entry) == infos[entry] \in steady \ Opaque /\ object[infos[entry]] \notin Long

Passed ==
  \A entry \in DOMAIN infos : entry < at /\ Expected(entry) => entry \in reported \cup late

\* What is known of the handle that is looked at, at each position.
Followed ==
  /\ pc = "name" /\ Expected(at) => type = "File"
  /\ pc \in {"wait", "query"} /\ Expected(at) => handle = object[infos[at]]
  /\ pc = "wait" /\ thread = "ended" /\ rc => name = AssignedName

Complete ==
  /\ pc = "snapshot" => steady = {} /\ at = 1
  /\ steady \subseteq HoldsWanted(object)
  /\ pc = "filter" => \A h \in steady \ Opaque : h \in table /\ (h < at => IsListed(h))
  /\ pc \in Shown => \A h \in steady \ Opaque : IsListed(h)
  /\ pc \in Shown => Passed
  /\ pc = "done" => at > Len(infos)
  /\ Followed

CompleteInv == TypeOK /\ Complete

(***************************************************************************)
(* Types.                                                                  *)
(***************************************************************************)
LEMMA Lengths ==
  ASSUME TypeOK
  PROVE  /\ Len(infos) \in Nat /\ DOMAIN infos = 1..Len(infos)
         /\ \A entry \in DOMAIN infos : infos[entry] \in Handle
         /\ at \in Nat /\ at >= 1 /\ at + 1 \in Nat \ {0}
         /\ pc \in Asked \cup {"name"} => at <= Len(infos)
<1>1. infos \in Seq(Handle) /\ at \in Nat \ {0}
  BY DEF TypeOK, ListTypeOK
<1>2. at \in Nat /\ at >= 1 /\ at + 1 \in Nat \ {0}
  BY <1>1
<1>3. pc \in Asked \cup {"name"} => at <= Len(infos)
  BY DEF TypeOK, ListTypeOK, Asked
<1>4. QED
  BY <1>1, <1>2, <1>3, ElementOfSeq, LenProperties

LEMMA InList ==
  ASSUME TypeOK, at <= Len(infos)
  PROVE  at \in DOMAIN infos /\ infos[at] \in Handle
<1>1. at \in Nat /\ at >= 1 /\ Len(infos) \in Nat
  BY Lengths
<1>2. at \in 1..Len(infos)
  BY <1>1
<1>3. QED
  BY <1>2, Lengths

LEMMA ShowType ==
  ASSUME TypeOK, at <= Len(infos), NEW text \in Object \cup {"", Bytes}, NEW untouched \in BOOLEAN,
         Show(text, untouched), UNCHANGED <<object, lists, holder, steady>>,
         late' \subseteq DOMAIN infos
  PROVE  TypeOK'
<1>1. at \in DOMAIN infos /\ Match(text) \subseteq {at} /\ at + 1 \in Nat \ {0}
  BY Lengths, InList DEF Match
<1>2. SystemTypeOK'
  BY DEF TypeOK, SystemTypeOK, Show
<1>3. ListTypeOK'
  BY <1>1 DEF TypeOK, ListTypeOK, Show, lists
<1>4. NameTypeOK'
  BY DEF TypeOK, NameTypeOK, Show
<1>5. QED
  BY <1>2, <1>3, <1>4 DEF TypeOK

LEMMA SnapshotType ==
  ASSUME TypeOK, NEW fits \in BOOLEAN, Snapshot(fits) PROVE TypeOK'
<1>1. SystemTypeOK'
  BY DEF TypeOK, SystemTypeOK, Snapshot, HoldsWanted, asked
<1>2. ListTypeOK'
  BY DEF TypeOK, ListTypeOK, Snapshot, result
<1>3. NameTypeOK'
  BY DEF TypeOK, NameTypeOK, Snapshot, asked, result
<1>4. QED
  BY <1>1, <1>2, <1>3 DEF TypeOK

LEMMA FilterType == TypeOK /\ (Filter \/ Filtered \/ Finish) => TypeOK'
<1> SUFFICES ASSUME TypeOK, Filter \/ Filtered \/ Finish PROVE TypeOK'
  OBVIOUS
<1>1. SystemTypeOK' /\ NameTypeOK'
  BY DEF TypeOK, SystemTypeOK, NameTypeOK, Filter, Filtered, Finish, asked, result, history
<1>2. CASE Filter
  <2>0. N \in Nat
    BY WhoUsesAssumption
  <2>1. at \in Handle /\ at + 1 \in Nat \ {0}
    <3>1. at \in Nat /\ at >= 1 /\ at <= N /\ at + 1 \in Nat \ {0}
      BY <1>2, Lengths DEF Filter
    <3>2. QED
      BY <2>0, <3>1 DEF Handle
  <2>2. infos' \in Seq(Handle) /\ DOMAIN infos \subseteq DOMAIN infos'
    <3>1. CASE infos' = infos
      BY <3>1 DEF TypeOK, ListTypeOK
    <3>2. CASE infos' = Append(infos, at)
      <4>1. infos \in Seq(Handle) /\ Len(infos) \in Nat /\ DOMAIN infos = 1..Len(infos)
        BY Lengths DEF TypeOK, ListTypeOK
      <4>2. infos' \in Seq(Handle) /\ Len(infos') = Len(infos) + 1
        BY <2>1, <3>2, <4>1, AppendProperties
      <4>3. DOMAIN infos' = 1..Len(infos) + 1
        BY <4>2, LenProperties
      <4>4. QED
        BY <4>1, <4>2, <4>3
    <3>3. QED
      BY <1>2, <3>1, <3>2 DEF Filter
  <2>3. strType' \in {"", "File", "Thread", "Other"}
    BY <1>2 DEF TypeOK, ListTypeOK, Filter, GetTypeToken, TypeOf
  <2>4. ListTypeOK'
    BY <1>2, <2>1, <2>2, <2>3 DEF TypeOK, ListTypeOK, Filter, result
  <2>5. QED
    BY <1>1, <2>4 DEF TypeOK
<1>3. CASE Filtered \/ Finish
  <2>1. ListTypeOK'
    <3>1. CASE Filtered
      <4>1. pc' = "GetType" /\ at' = 1 /\ table' = {} /\ strType' = ""
        BY <3>1 DEF Filtered
      <4>2. UNCHANGED <<infos, reported, kept, late>>
        BY <3>1 DEF Filtered, result
      <4>3. 1 \in Nat \ {0}
        OBVIOUS
      <4>4. QED
        BY <4>1, <4>2, <4>3 DEF TypeOK, ListTypeOK
    <3>2. CASE Finish
      <4>1. pc' = "done" /\ UNCHANGED <<at, table, infos, strType, reported, kept, late>>
        BY <3>2 DEF Finish, lists, result
      <4>2. QED
        BY <4>1 DEF TypeOK, ListTypeOK
    <3>3. QED
      BY <1>3, <3>1, <3>2
  <2>2. QED
    BY <1>1, <2>1 DEF TypeOK
<1>4. QED
  BY <1>2, <1>3

LEMMA GetTypeType == TypeOK /\ GetType => TypeOK'
<1> SUFFICES ASSUME TypeOK, GetType PROVE TypeOK'
  OBVIOUS
<1>1. CASE Show(name, TRUE)
  BY <1>1, ShowType DEF TypeOK, NameTypeOK, ListTypeOK, GetType
<1>2. CASE ~Show(name, TRUE)
  <2>1. SystemTypeOK'
    BY <1>2 DEF TypeOK, SystemTypeOK, GetType
  <2>2. ListTypeOK'
    BY <1>2 DEF TypeOK, ListTypeOK, GetType, lists
  <2>3. NameTypeOK'
    BY <1>2 DEF TypeOK, NameTypeOK, GetType, TypeOf
  <2>4. QED
    BY <2>1, <2>2, <2>3 DEF TypeOK
<1>3. QED
  BY <1>1, <1>2

LEMMA GetNameType == TypeOK /\ GetNameByType => TypeOK'
<1> SUFFICES ASSUME TypeOK, GetNameByType PROVE TypeOK'
  OBVIOUS
<1>0. at <= Len(infos) /\ at \in DOMAIN infos
  BY Lengths, InList DEF GetNameByType
<1>1. at \in DOMAIN infos /\ at <= Len(infos) /\ object[infos[at]] \in Object \cup {None}
  BY <1>0, InList DEF TypeOK, SystemTypeOK
<1>2. CASE Show(name, TRUE)
  BY <1>1, <1>2, ShowType DEF TypeOK, NameTypeOK, ListTypeOK, GetNameByType
<1>3. CASE ~Show(name, TRUE)
  <2>1. SystemTypeOK'
    BY <1>3 DEF TypeOK, SystemTypeOK, GetNameByType
  <2>2. ListTypeOK'
    BY <1>1, <1>3 DEF TypeOK, ListTypeOK, GetNameByType, lists
  <2>3. NameTypeOK'
    BY <1>1, <1>3 DEF TypeOK, NameTypeOK, GetNameByType
  <2>4. QED
    BY <2>1, <2>2, <2>3 DEF TypeOK
<1>4. QED
  BY <1>2, <1>3

LEMMA ThreadType == TypeOK /\ ((\E ok \in BOOLEAN : Answers(ok)) \/ Assign) => TypeOK'
<1> SUFFICES ASSUME TypeOK, (\E ok \in BOOLEAN : Answers(ok)) \/ Assign PROVE TypeOK'
  OBVIOUS
<1>1. SystemTypeOK' /\ ListTypeOK'
  BY DEF TypeOK, SystemTypeOK, ListTypeOK, Answers, Assign, lists, result, history
<1>2. NameTypeOK'
  BY DEF TypeOK, NameTypeOK, Answers, Assign, AssignedName, result
<1>3. QED
  BY <1>1, <1>2 DEF TypeOK

LEMMA WaitType == TypeOK /\ (Waited \/ \E fate \in {"gone", "finished", "locked"} : Timeout(fate)) => TypeOK'
<1> SUFFICES ASSUME TypeOK, Waited \/ \E fate \in {"gone", "finished", "locked"} : Timeout(fate)
             PROVE  TypeOK'
  OBVIOUS
<1>1. pc = "wait" /\ at \in DOMAIN infos /\ at <= Len(infos)
  <2>1. pc = "wait"
    BY DEF Waited, Timeout
  <2>2. QED
    BY <2>1, Lengths, InList DEF Asked
<1>2. late' \subseteq DOMAIN infos
  BY <1>1 DEF TypeOK, ListTypeOK, Waited, Timeout
<1>3. CASE Show("", FALSE)
  BY <1>1, <1>2, <1>3, ShowType DEF Waited, Timeout
<1>4. CASE ~Show("", FALSE)
  <2>1. SystemTypeOK'
    BY <1>4 DEF TypeOK, SystemTypeOK, Waited, Timeout, asked
  <2>2. ListTypeOK'
    BY <1>1, <1>2, <1>4 DEF TypeOK, ListTypeOK, Waited, Timeout, lists
  <2>3. NameTypeOK'
    BY <1>4 DEF TypeOK, NameTypeOK, Waited, Timeout, AssignedName, asked
  <2>4. QED
    BY <2>1, <2>2, <2>3 DEF TypeOK
<1>5. QED
  BY <1>3, <1>4

LEMMA QueryType == TypeOK /\ Query => TypeOK'
<1> SUFFICES ASSUME TypeOK, Query PROVE TypeOK'
  OBVIOUS
<1>1. PICK text \in Object \cup {"", Bytes}, untouched \in BOOLEAN : Show(text, untouched)
  BY DEF TypeOK, NameTypeOK, Query
<1>2. at <= Len(infos) /\ late' \subseteq DOMAIN infos
  BY DEF TypeOK, ListTypeOK, Query
<1>3. QED
  BY <1>1, <1>2, ShowType DEF Query

LEMMA OthersType == TypeOK /\ Others => TypeOK'
<1> SUFFICES ASSUME TypeOK, Others PROVE TypeOK'
  OBVIOUS
<1>1. ListTypeOK'
  <2>1. UNCHANGED <<pc, table, infos, strType, at, reported, kept, late>>
    BY DEF Others, Changes, Blocks, lists, result
  <2>2. QED BY <2>1 DEF TypeOK, ListTypeOK
<1>2. NameTypeOK'
  BY DEF TypeOK, NameTypeOK, Others, Changes, Blocks, asked, result
<1>3. SystemTypeOK'
  <2>1. ASSUME NEW h \in Handle, NEW o \in Object \cup {None}, Changes(h, o) PROVE SystemTypeOK'
    <3>1. busy' = busy
      BY <2>1 DEF Changes, asked
    <3>2. QED BY <2>1, <3>1 DEF TypeOK, SystemTypeOK, Changes
  <2>2. CASE Blocks
    BY <2>2 DEF TypeOK, SystemTypeOK, Blocks, history
  <2>3. QED BY <2>1, <2>2 DEF Others
<1>4. QED
  BY <1>1, <1>2, <1>3 DEF TypeOK

\* The types and the bounds of what is shown hold at every step: the entry that is looked at is
\* one of the list as long as its name is asked for.
THEOREM TypeCorrect == Spec => []TypeOK
<1>1. Init => TypeOK
  <2>1. Init => SystemTypeOK /\ NameTypeOK
    BY DEF Init, SystemTypeOK, NameTypeOK
  <2>2. Init => ListTypeOK
    <3>1. <<>> \in Seq(Handle) /\ 1 \in Nat \ {0}
      OBVIOUS
    <3>2. QED
      BY <3>1 DEF Init, ListTypeOK
  <2>3. QED
    BY <2>1, <2>2 DEF TypeOK
<1>2. TypeOK /\ [Next]_vars => TypeOK'
  <2>1. TypeOK /\ UNCHANGED vars => SystemTypeOK' /\ ListTypeOK'
    BY DEF TypeOK, SystemTypeOK, ListTypeOK, vars, lists, asked, result, history
  <2>2. TypeOK /\ UNCHANGED vars => NameTypeOK'
    BY DEF TypeOK, NameTypeOK, vars, asked, result
  <2>3. TypeOK /\ UNCHANGED vars => TypeOK'
    BY <2>1, <2>2 DEF TypeOK
  <2>4. QED
    BY <2>3, SnapshotType, FilterType, GetTypeType, GetNameType, ThreadType, WaitType, QueryType,
       OthersType DEF Next, Main
<1>3. QED
  BY <1>1, <1>2, PTL DEF Spec

(***************************************************************************)
(* What is shown holds the file.                                           *)
(***************************************************************************)
LEMMA WantedName == "" \notin Wanted /\ Bytes \notin Wanted /\ None \notin Wanted
BY WhoUsesAssumption

\* An entry is shown under the right name, or under the one that the entry before has left.
LEMMA ShowCredits ==
  ASSUME HoldsInv, at <= Len(infos), pc \in Shown, NEW text, NEW untouched, Show(text, untouched),
         UNCHANGED <<object, infos, holder>>,
         text \in Wanted => infos[at] \in holder \/ (untouched /\ at - 1 \in reported)
  PROVE  Credits' /\ ReportedHolds'
<1>1. at \in Nat /\ (at + 1) - 1 = at
  BY Lengths DEF HoldsInv
<1>2. name' \in Wanted => at' - 1 \in reported'
  BY <1>1 DEF Show, Match
<1>3. pc' = "GetType"
  BY DEF Show
<1>4. HoldsWanted(object)' \subseteq holder'
  BY DEF HoldsInv, Credits, Shown, Asked, HoldsWanted
<1>5. Credits'
  BY <1>2, <1>3, <1>4 DEF Credits, Shown, Asked
<1>6. ASSUME NEW entry \in reported'
      PROVE infos'[entry] \in holder' \/ (entry \in kept' /\ entry - 1 \in reported')
  <2>1. CASE entry \in reported
    BY <2>1 DEF HoldsInv, ReportedHolds, Show
  <2>2. CASE entry \notin reported
    <3>1. entry = at /\ text \in Wanted
      BY <1>6, <2>2 DEF Show, Match
    <3>2. QED
      BY <3>1 DEF Show
  <2>3. QED
    BY <2>1, <2>2
<1>7. QED
  BY <1>5, <1>6 DEF ReportedHolds

LEMMA ListCredits ==
  HoldsInv /\ ((\E fits \in BOOLEAN : Snapshot(fits)) \/ Filter \/ Filtered \/ Finish)
    => Credits' /\ ReportedHolds'
<1> SUFFICES ASSUME HoldsInv, (\E fits \in BOOLEAN : Snapshot(fits)) \/ Filter \/ Filtered \/ Finish
             PROVE  Credits' /\ ReportedHolds'
  OBVIOUS
<1>1. CASE \E fits \in BOOLEAN : Snapshot(fits)
  <2>1. pc' \in {"filter", "failed"} /\ reported' = {} /\ name' = ""
    BY <1>1 DEF HoldsInv, Credits, Snapshot, Shown, Asked, result
  <2>2. HoldsWanted(object)' \subseteq holder'
    BY <1>1 DEF Snapshot, HoldsWanted
  <2>3. QED
    BY <2>1, <2>2, WantedName DEF Credits, ReportedHolds, Shown, Asked
<1>2. CASE Filter \/ Filtered
  <2>1. pc' \in {"filter", "GetType"} /\ reported' = {} /\ name' = ""
    BY <1>2 DEF HoldsInv, Credits, Filter, Filtered, Shown, Asked, result
  <2>2. HoldsWanted(object)' \subseteq holder'
    BY <1>2 DEF HoldsInv, Credits, Filter, Filtered, HoldsWanted, history
  <2>3. QED
    BY <2>1, <2>2, WantedName DEF Credits, ReportedHolds, Shown, Asked
<1>3. CASE Finish
  <2>1. pc' = "done" /\ UNCHANGED <<object, at, infos, name, reported, kept, holder>>
    BY <1>3 DEF Finish, lists, result, history
  <2>2. name' \in Wanted => (at - 1)' \in reported'
    BY <2>1 DEF HoldsInv, Credits
  <2>3. HoldsWanted(object)' \subseteq holder'
    BY <1>3, <2>1 DEF HoldsInv, Credits, Finish, HoldsWanted
  <2>4. QED
    BY <2>1, <2>2, <2>3 DEF HoldsInv, Credits, ReportedHolds, Shown, Asked
<1>4. QED
  BY <1>1, <1>2, <1>3

LEMMA GetTypeCredits == HoldsInv /\ GetType => Credits' /\ ReportedHolds'
<1> SUFFICES ASSUME HoldsInv, GetType PROVE Credits' /\ ReportedHolds'
  OBVIOUS
<1>0. pc \in Shown /\ pc # "snapshot" /\ UNCHANGED <<object, infos, holder>>
  BY DEF GetType, Shown, lists
<1>1. CASE Show(name, TRUE)
  <2>1. at <= Len(infos) /\ (name \in Wanted => at - 1 \in reported)
    BY DEF GetType, HoldsInv, Credits
  <2>2. QED
    BY <1>0, <1>1, <2>1, ShowCredits
<1>2. CASE ~Show(name, TRUE)
  <2>1. pc' = "name" /\ UNCHANGED <<at, name, reported, kept>>
    BY <1>2 DEF GetType
  <2>2. HoldsWanted(object)' \subseteq holder'
    BY <1>0 DEF HoldsInv, Credits, HoldsWanted
  <2>3. QED
    BY <1>0, <2>1, <2>2 DEF HoldsInv, Credits, ReportedHolds, Shown, Asked
<1>3. QED
  BY <1>1, <1>2

LEMMA GetNameCredits == HoldsInv /\ GetNameByType => Credits' /\ ReportedHolds'
<1> SUFFICES ASSUME HoldsInv, GetNameByType PROVE Credits' /\ ReportedHolds'
  OBVIOUS
<1>0. pc = "name" /\ pc \in Shown /\ UNCHANGED <<object, infos, holder>>
  BY DEF GetNameByType, Shown, lists
<1>1. at <= Len(infos) /\ infos[at] \in Handle
  BY <1>0, Lengths, InList DEF HoldsInv
<1>2. CASE Show(name, TRUE)
  <2>1. name \in Wanted => at - 1 \in reported
    BY DEF HoldsInv, Credits
  <2>2. QED
    BY <1>0, <1>1, <1>2, <2>1, ShowCredits
<1>3. CASE ~Show(name, TRUE)
  <2>1. pc' \in {"wait", "query"} /\ handle' = object[infos[at]] /\ UNCHANGED <<at, name, reported, kept>>
    BY <1>3 DEF GetNameByType
  <2>2. HoldsWanted(object) \subseteq holder
    BY <1>0 DEF HoldsInv, Credits
  <2>3. handle' \in Wanted => infos[at] \in holder
    BY <1>1, <2>1, <2>2 DEF HoldsWanted
  <2>4. HoldsWanted(object)' \subseteq holder'
    BY <1>0, <2>2 DEF HoldsWanted
  <2>5. QED
    BY <1>0, <2>1, <2>3, <2>4 DEF HoldsInv, Credits, ReportedHolds, Shown, Asked
<1>4. QED
  BY <1>2, <1>3

LEMMA ThreadCredits ==
  HoldsInv /\ ((\E ok \in BOOLEAN : Answers(ok)) \/ Assign) => Credits' /\ ReportedHolds'
<1> SUFFICES ASSUME HoldsInv, (\E ok \in BOOLEAN : Answers(ok)) \/ Assign PROVE Credits' /\ ReportedHolds'
  OBVIOUS
<1>1. pc = "wait" /\ UNCHANGED <<pc, object, infos, holder, at, handle, reported, kept>>
  BY DEF Answers, Assign, lists, history, result
<1>2. name' = name \/ name' \notin Wanted
  BY WantedName DEF Answers, Assign, AssignedName, result
<1>3. HoldsWanted(object)' \subseteq holder'
  BY <1>1 DEF HoldsInv, Credits, HoldsWanted
<1>4. QED
  BY <1>1, <1>2, <1>3 DEF HoldsInv, Credits, ReportedHolds, Shown, Asked

LEMMA WaitCredits ==
  HoldsInv /\ (Waited \/ \E fate \in {"gone", "finished", "locked"} : Timeout(fate))
    => Credits' /\ ReportedHolds'
<1> SUFFICES ASSUME HoldsInv, Waited \/ \E fate \in {"gone", "finished", "locked"} : Timeout(fate)
             PROVE  Credits' /\ ReportedHolds'
  OBVIOUS
<1>1. pc = "wait" /\ pc \in Shown /\ UNCHANGED <<object, infos, holder>>
  BY DEF Waited, Timeout, lists, Shown, Asked
<1>2. at <= Len(infos)
  BY <1>1, Lengths DEF HoldsInv, Asked
<1>3. CASE Show("", FALSE)
  BY <1>1, <1>2, <1>3, WantedName, ShowCredits
<1>4. CASE ~Show("", FALSE)
  <2>1. pc' \in {"query", "locked"} /\ UNCHANGED <<at, handle, reported, kept>>
    BY <1>4 DEF Waited, Timeout, asked
  <2>2. name' = name \/ name' \notin Wanted
    BY <1>4, WantedName DEF Waited, Timeout, AssignedName
  <2>3. HoldsWanted(object)' \subseteq holder'
    BY <1>1 DEF HoldsInv, Credits, HoldsWanted
  <2>4. QED
    BY <1>1, <2>1, <2>2, <2>3 DEF HoldsInv, Credits, ReportedHolds, Shown, Asked
<1>5. QED
  BY <1>3, <1>4

LEMMA QueryCredits == HoldsInv /\ Query => Credits' /\ ReportedHolds'
<1> SUFFICES ASSUME HoldsInv, Query PROVE Credits' /\ ReportedHolds'
  OBVIOUS
<1>1. pc = "query" /\ pc \in Shown /\ UNCHANGED <<object, infos, holder>>
  BY DEF Query, lists, Shown, Asked
<1>2. at <= Len(infos)
  BY <1>1, Lengths DEF HoldsInv, Asked
<1>3. name \in Wanted => at - 1 \in reported
  BY DEF HoldsInv, Credits
<1>4. handle \in Wanted => infos[at] \in holder
  BY <1>1 DEF HoldsInv, Credits, Asked
<1>5. CASE Show(name, TRUE)
  BY <1>1, <1>2, <1>3, <1>5, ShowCredits
<1>6. CASE Show(handle, FALSE)
  BY <1>1, <1>2, <1>4, <1>6, ShowCredits
<1>7. QED
  BY <1>5, <1>6 DEF Query

LEMMA OthersCredits == HoldsInv /\ Others => Credits' /\ ReportedHolds'
<1> SUFFICES ASSUME HoldsInv, Others PROVE Credits' /\ ReportedHolds'
  OBVIOUS
<1>1. UNCHANGED <<pc, infos, name, at, handle, reported, kept>>
  BY DEF Others, Changes, Blocks, lists, asked, result
<1>2. holder \subseteq holder'
  BY DEF Others, Changes, Blocks, history
<1>3. pc # "snapshot" => HoldsWanted(object)' \subseteq holder'
  <2>1. ASSUME pc # "snapshot", NEW h \in Handle, NEW o \in Object \cup {None}, Changes(h, o)
        PROVE  HoldsWanted(object)' \subseteq holder'
    <3>1. object' = [object EXCEPT ![h] = o] /\ object \in [Handle -> Object \cup {None}]
      BY <2>1 DEF Changes, HoldsInv, TypeOK, SystemTypeOK
    <3>2. ASSUME NEW g \in Handle, object'[g] \in Wanted PROVE g \in holder'
      BY <2>1, <3>1, <3>2 DEF Changes, HoldsInv, Credits, HoldsWanted
    <3>3. QED
      BY <3>2 DEF HoldsWanted
  <2>2. ASSUME pc # "snapshot", Blocks PROVE HoldsWanted(object)' \subseteq holder'
    BY <2>2 DEF Blocks, HoldsInv, Credits, HoldsWanted, history
  <2>3. QED
    BY <2>1, <2>2 DEF Others
<1>4. QED
  BY <1>1, <1>2, <1>3 DEF HoldsInv, Credits, ReportedHolds

\* A handle that is shown has stood for a wanted file since the table was read, or its name was
\* left over from the entry before, which is shown.
THEOREM Holders == Spec => []ReportedHolds
<1>1. Init => Credits /\ ReportedHolds
  BY WantedName DEF Init, Credits, ReportedHolds, Shown, Asked
<1>2. HoldsInv /\ [Next]_vars => Credits' /\ ReportedHolds'
  <2>1. HoldsInv /\ UNCHANGED vars => Credits' /\ ReportedHolds'
    <3>1. SUFFICES ASSUME HoldsInv, UNCHANGED vars PROVE Credits' /\ ReportedHolds'
      OBVIOUS
    <3>2. UNCHANGED <<pc, at, object, infos, name, handle, reported, kept, holder>>
      BY <3>1 DEF vars, lists, asked, result, history
    <3>3. (HoldsWanted(object) \subseteq holder) => (HoldsWanted(object)' \subseteq holder')
      BY <3>2 DEF HoldsWanted
    <3>4. QED
      BY <3>1, <3>2, <3>3 DEF HoldsInv, Credits, ReportedHolds
  <2>2. QED
    BY <2>1, ListCredits, GetTypeCredits, GetNameCredits, ThreadCredits, WaitCredits, QueryCredits,
       OthersCredits DEF Next, Main
<1>3. QED
  BY <1>1, <1>2, TypeCorrect, PTL DEF Spec, HoldsInv

(***************************************************************************)
(* What holds the file is shown.                                           *)
(***************************************************************************)
LEMMA SteadyHandle ==
  ASSUME CompleteInv, NEW h \in steady
  PROVE  h \in Handle /\ object[h] \in Wanted /\ object[h] \in Object /\ object[h] # None
         /\ object[h] \notin Unlisted /\ TypeOf(object[h]) = "File"
<1>1. h \in Handle /\ object[h] \in Wanted
  BY DEF CompleteInv, Complete, HoldsWanted
<1>2. QED
  BY <1>1, WhoUsesAssumption DEF TypeOf

\* The entry at has been looked at, and is shown if it had to be.
LEMMA ShowComplete ==
  ASSUME CompleteInv, at <= Len(infos), pc \in Shown \ {"done"}, NEW text, NEW untouched,
         Show(text, untouched), UNCHANGED <<object, infos, steady>>,
         late \subseteq late',
         Expected(at) => text \in Wanted \/ at \in late'
  PROVE  Complete'
<1>1. at \in Nat /\ at \in DOMAIN infos /\ DOMAIN infos = 1..Len(infos) /\ Len(infos) \in Nat
  BY Lengths, InList DEF CompleteInv
<1>2. pc' = "GetType" /\ at' = at + 1 /\ reported \subseteq reported'
  BY DEF Show
<1>3. Passed'
  <2>1. SUFFICES ASSUME NEW entry \in DOMAIN infos, entry < at + 1, Expected(entry)
                 PROVE  entry \in reported' \cup late'
    BY <1>2 DEF Passed, Expected
  <2>2. CASE entry < at
    BY <1>2, <2>1, <2>2 DEF CompleteInv, Complete, Passed
  <2>3. CASE entry = at
    BY <2>1, <2>3 DEF Show, Match
  <2>4. entry < at \/ entry = at
    BY <1>1, <2>1
  <2>5. QED
    BY <2>2, <2>3, <2>4
<1>4. \A h \in steady' \ Opaque : IsListed(h)'
  BY DEF CompleteInv, Complete, IsListed
<1>5. steady' \subseteq HoldsWanted(object)'
  BY DEF CompleteInv, Complete, HoldsWanted
<1>6. QED
  BY <1>2, <1>3, <1>4, <1>5 DEF Complete, Followed

LEMMA SnapshotComplete ==
  ASSUME CompleteInv, NEW fits \in BOOLEAN, Snapshot(fits) PROVE Complete'
<1>1. steady' \subseteq HoldsWanted(object)'
  BY DEF Snapshot, HoldsWanted
<1>2. CASE ~fits
  <2>1. pc' = "failed"
    BY <1>2 DEF Snapshot
  <2>2. QED
    BY <1>1, <2>1 DEF Complete, Followed, Shown, Asked
<1>3. CASE fits
  <2>1. pc' = "filter" /\ table' = {h \in Handle : object[h] # None} /\ at' = at
    BY <1>3 DEF Snapshot
  <2>2. ASSUME NEW h \in steady' PROVE h \in table' /\ ~(h < at')
    <3>1. h \in Handle /\ object[h] \in Wanted
      BY <2>2 DEF Snapshot, HoldsWanted
    <3>2. object[h] # None
      BY <3>1, WantedName
    <3>3. at = 1
      BY DEF CompleteInv, Complete, Snapshot
    <3>4. QED
      BY <2>1, <3>1, <3>2, <3>3 DEF Handle
  <2>3. QED
    BY <1>1, <2>1, <2>2 DEF Complete, Followed, Shown, Asked
<1>4. QED
  BY <1>2, <1>3

LEMMA FilterComplete == CompleteInv /\ Filter => Complete'
<1> SUFFICES ASSUME CompleteInv, Filter PROVE Complete'
  OBVIOUS
<1>1. pc = "filter" /\ at' = at + 1 /\ UNCHANGED <<pc, object, table, steady>>
  BY DEF Filter, history
<1>2. at \in Nat /\ Len(infos) \in Nat /\ DOMAIN infos = 1..Len(infos) /\ infos \in Seq(Handle)
  BY Lengths DEF CompleteInv, TypeOK, ListTypeOK
<1>3. ASSUME NEW h \in steady \ Opaque, h < at + 1 PROVE IsListed(h)'
  <2>1. h \in Nat /\ h \in Handle /\ h \in table /\ (h < at => IsListed(h))
    BY <1>1, <1>3, SteadyHandle DEF CompleteInv, Complete, Handle
  <2>2. at \in Handle => Len(Append(infos, at)) = Len(infos) + 1 /\ Append(infos, at) \in Seq(Handle)
                          /\ Append(infos, at)[Len(infos) + 1] = at
                          /\ \A entry \in 1..Len(infos) : Append(infos, at)[entry] = infos[entry]
    BY <1>2, AppendProperties
  <2>3. h < at \/ h = at
    BY <1>2, <1>3, <2>1
  <2>4. CASE h < at
    <3>1. PICK entry \in DOMAIN infos : infos[entry] = h
      BY <2>1, <2>4 DEF IsListed
    <3>2. CASE infos' = infos
      BY <3>1, <3>2 DEF IsListed
    <3>3. CASE infos' = Append(infos, at) /\ at \in Handle
      <4>1. entry \in DOMAIN infos' /\ infos'[entry] = h
        BY <1>2, <2>2, <3>1, <3>3, LenProperties
      <4>2. QED
        BY <4>1 DEF IsListed
    <3>4. infos' # infos => infos' = Append(infos, at) /\ at \in Handle
      BY DEF Filter, CompleteInv, TypeOK, ListTypeOK
    <3>5. QED
      BY <3>2, <3>3, <3>4
  <2>5. CASE h = at
    <3>1. GetTypeToken(at) = "File"
      BY <1>3, <2>5, SteadyHandle DEF GetTypeToken
    <3>2. infos' = Append(infos, at) /\ at \in Handle
      BY <2>1, <2>5, <3>1 DEF Filter
    <3>3. Len(infos) + 1 \in DOMAIN infos' /\ infos'[Len(infos) + 1] = h
      BY <1>2, <2>2, <2>5, <3>2, LenProperties
    <3>4. QED
      BY <3>3 DEF IsListed
  <2>6. QED
    BY <2>3, <2>4, <2>5
<1>4. \A h \in steady' \ Opaque : h \in table' /\ (h < at' => IsListed(h)')
  BY <1>1, <1>3 DEF CompleteInv, Complete
<1>5. steady' \subseteq HoldsWanted(object)'
  BY <1>1 DEF CompleteInv, Complete, HoldsWanted
<1>6. QED
  BY <1>1, <1>4, <1>5 DEF Complete, Followed, Shown, Asked

LEMMA FilteredComplete == CompleteInv /\ (Filtered \/ Finish) => Complete'
<1> SUFFICES ASSUME CompleteInv, Filtered \/ Finish PROVE Complete'
  OBVIOUS
<1>1. UNCHANGED <<object, infos, steady, reported, late>>
  BY DEF Filtered, Finish, lists, result, history
<1>2. steady' \subseteq HoldsWanted(object)'
  BY <1>1 DEF CompleteInv, Complete, HoldsWanted
<1>3. at \in Nat /\ DOMAIN infos = 1..Len(infos) /\ Len(infos) \in Nat
  BY Lengths DEF CompleteInv
<1>4. CASE Filtered
  <2>1. pc' = "GetType" /\ at' = 1 /\ pc = "filter" /\ at > N
    BY <1>4 DEF Filtered
  <2>2. ASSUME NEW h \in steady' \ Opaque PROVE IsListed(h)'
    <3>1. N \in Nat
      BY WhoUsesAssumption
    <3>2. h < at
      BY <1>1, <1>3, <2>1, <2>2, <3>1, SteadyHandle DEF Handle
    <3>3. IsListed(h)
      BY <1>1, <2>1, <2>2, <3>2 DEF CompleteInv, Complete
    <3>4. QED
      BY <1>1, <3>3 DEF IsListed
  <2>3. Passed'
    BY <1>1, <1>3, <2>1 DEF Passed
  <2>4. QED
    BY <1>2, <2>1, <2>2, <2>3 DEF Complete, Followed, Shown, Asked
<1>5. CASE Finish
  <2>1. pc' = "done" /\ pc = "GetType" /\ at > Len(infos) /\ UNCHANGED at
    BY <1>5 DEF Finish
  <2>2. \A h \in steady' \ Opaque : IsListed(h)'
    BY <1>1, <2>1 DEF CompleteInv, Complete, IsListed, Shown
  <2>3. Passed'
    BY <1>1, <2>1 DEF CompleteInv, Complete, Passed, Expected, Shown
  <2>4. QED
    BY <1>1, <1>2, <2>1, <2>2, <2>3 DEF Complete, Followed, Shown, Asked
<1>6. QED
  BY <1>4, <1>5

\* The entry is still looked at.
LEMMA StillComplete ==
  ASSUME CompleteInv, pc \in Shown, pc' \in Shown \ {"done"},
         UNCHANGED <<at, object, infos, steady, reported>>, late \subseteq late', Followed'
  PROVE  Complete'
<1>1. \A h \in steady' \ Opaque : IsListed(h)'
  BY DEF CompleteInv, Complete, IsListed
<1>2. Passed'
  BY DEF CompleteInv, Complete, Passed, Expected
<1>3. steady' \subseteq HoldsWanted(object)'
  BY DEF CompleteInv, Complete, HoldsWanted
<1>4. QED
  BY <1>1, <1>2, <1>3 DEF Complete, Shown, Asked

LEMMA GetTypeComplete == CompleteInv /\ GetType => Complete'
<1> SUFFICES ASSUME CompleteInv, GetType PROVE Complete'
  OBVIOUS
<1>1. /\ pc = "GetType" /\ at <= Len(infos) /\ pc \in Shown \ {"done"}
      /\ UNCHANGED <<object, infos, steady, late>>
  BY DEF GetType, lists, Shown, Asked
<1>2. CASE Show(name, TRUE)
  <2>1. ~Expected(at) \/ ~(infos[at] \in Opaque \/ object[infos[at]] \in Unlisted \cup {None})
    BY SteadyHandle DEF Expected
  <2>2. pc' = "GetType"
    BY <1>2 DEF Show
  <2>3. ~Expected(at)
    BY <2>1, <2>2 DEF GetType
  <2>4. QED
    BY <1>1, <1>2, <2>3, ShowComplete
<1>3. CASE ~Show(name, TRUE)
  <2>1. pc' = "name" /\ type' = TypeOf(object[infos[at]]) /\ UNCHANGED <<at, reported>>
    BY <1>3 DEF GetType
  <2>2. Expected(at) => type' = "File"
    BY <2>1, SteadyHandle DEF Expected
  <2>3. Followed'
    BY <1>1, <2>1, <2>2 DEF Followed, Expected
  <2>4. QED
    BY <1>1, <2>1, <2>3, StillComplete DEF Shown
<1>4. QED
  BY <1>2, <1>3

LEMMA GetNameComplete == CompleteInv /\ GetNameByType => Complete'
<1> SUFFICES ASSUME CompleteInv, GetNameByType PROVE Complete'
  OBVIOUS
<1>1. /\ pc = "name" /\ pc \in Shown \ {"done"} /\ (Expected(at) => type = "File")
      /\ UNCHANGED <<object, infos, steady, late>>
  BY DEF GetNameByType, lists, Shown, Asked, CompleteInv, Complete, Followed
<1>2. at <= Len(infos)
  BY <1>1, Lengths DEF CompleteInv
<1>3. CASE type = "Thread"
  <2>1. Show(name, TRUE) /\ ~Expected(at)
    BY <1>1, <1>3 DEF GetNameByType
  <2>2. QED
    BY <1>1, <1>2, <2>1, ShowComplete
<1>4. CASE type # "Thread"
  <2>1. /\ pc' \in {"wait", "query"} /\ handle' = object[infos[at]] /\ UNCHANGED <<at, reported>>
        /\ pc' = "wait" => thread' = "asking"
    BY <1>4 DEF GetNameByType
  <2>2. Followed'
    BY <1>1, <2>1 DEF Followed
  <2>3. QED
    BY <1>1, <2>1, <2>2, StillComplete DEF Shown, Asked
<1>5. QED
  BY <1>3, <1>4

LEMMA ThreadComplete == CompleteInv /\ ((\E ok \in BOOLEAN : Answers(ok)) \/ Assign) => Complete'
<1> SUFFICES ASSUME CompleteInv, (\E ok \in BOOLEAN : Answers(ok)) \/ Assign PROVE Complete'
  OBVIOUS
<1>1. pc = "wait" /\ UNCHANGED <<pc, at, object, infos, steady, reported, late, handle>>
  BY DEF Answers, Assign, lists, result, history
<1>2. thread' = "ended" /\ rc' => name' = AssignedName'
  <2>1. CASE Assign
    BY <2>1 DEF Assign, AssignedName
  <2>2. ASSUME NEW ok \in BOOLEAN, Answers(ok) PROVE ~(thread' = "ended" /\ rc')
    BY <2>2 DEF Answers
  <2>3. QED
    BY <2>1, <2>2
<1>3. Expected(at)' => Expected(at)
  BY <1>1 DEF Expected
<1>4. Followed'
  BY <1>1, <1>2, <1>3 DEF CompleteInv, Complete, Followed
<1>5. QED
  BY <1>1, <1>4, StillComplete DEF Shown, Asked

LEMMA WaitComplete ==
  CompleteInv /\ (Waited \/ \E fate \in {"gone", "finished", "locked"} : Timeout(fate)) => Complete'
<1> SUFFICES ASSUME CompleteInv, Waited \/ \E fate \in {"gone", "finished", "locked"} : Timeout(fate)
             PROVE  Complete'
  OBVIOUS
<1>1. pc = "wait" /\ pc \in Shown \ {"done"} /\ UNCHANGED <<object, infos, steady>>
  BY DEF Waited, Timeout, lists, Shown, Asked
<1>2. at <= Len(infos)
  BY <1>1, Lengths DEF CompleteInv, Asked
<1>3. late \subseteq late'
  BY DEF Waited, Timeout
<1>4. CASE Show("", FALSE)
  <2>1. Expected(at) => at \in late'
    <3>1. CASE Waited
      <4>1. pc' = "GetType"
        BY <1>4 DEF Show
      <4>2. thread = "ended" /\ rc /\ name = ""
        BY <3>1, <4>1 DEF Waited, Denied
      <4>3. AssignedName = ""
        BY <1>1, <4>2 DEF CompleteInv, Complete, Followed
      <4>4. handle \in Long
        BY <4>3 DEF AssignedName, Bytes
      <4>5. Expected(at) => handle = object[infos[at]]
        BY <1>1 DEF CompleteInv, Complete, Followed
      <4>6. QED
        BY <4>4, <4>5 DEF Expected
    <3>2. CASE \E fate \in {"gone", "finished", "locked"} : Timeout(fate)
      BY <3>2 DEF Timeout
    <3>3. QED
      BY <3>1, <3>2
  <2>2. QED
    BY <1>1, <1>2, <1>3, <1>4, <2>1, ShowComplete
<1>5. CASE ~Show("", FALSE)
  <2>1. pc' \in {"query", "locked"} /\ UNCHANGED <<at, handle, reported>>
    BY <1>5 DEF Waited, Timeout, asked
  <2>2. Followed'
    BY <1>1, <2>1 DEF CompleteInv, Complete, Followed, Expected
  <2>3. QED
    BY <1>1, <1>3, <2>1, <2>2, StillComplete DEF Shown, Asked
<1>6. QED
  BY <1>4, <1>5

LEMMA QueryComplete == CompleteInv /\ Query => Complete'
<1> SUFFICES ASSUME CompleteInv, Query PROVE Complete'
  OBVIOUS
<1>1. pc = "query" /\ pc \in Shown \ {"done"} /\ UNCHANGED <<object, infos, steady, late>>
  BY DEF Query, lists, Shown, Asked
<1>2. at <= Len(infos)
  BY <1>1, Lengths DEF CompleteInv, Asked
<1>3. Expected(at) => handle \in Wanted /\ handle # None
  BY <1>1, SteadyHandle DEF CompleteInv, Complete, Followed, Expected
<1>4. CASE handle = None
  <2>1. Show(name, TRUE) /\ ~Expected(at)
    BY <1>3, <1>4 DEF Query
  <2>2. QED
    BY <1>1, <1>2, <2>1, ShowComplete
<1>5. CASE handle # None
  <2>1. Show(handle, FALSE)
    BY <1>5 DEF Query
  <2>2. QED
    BY <1>1, <1>2, <1>3, <2>1, ShowComplete
<1>6. QED
  BY <1>4, <1>5

\* Only steps of other processes make a handle one that is not steady, and their objects.
LEMMA OthersComplete == CompleteInv /\ Others => Complete'
<1> SUFFICES ASSUME CompleteInv, Others PROVE Complete'
  OBVIOUS
<1>1. UNCHANGED <<pc, at, infos, table, type, handle, thread, rc, name, reported, late>>
  BY DEF Others, Changes, Blocks, lists, asked, result
<1>2. steady' \subseteq steady /\ \A h \in steady' : object'[h] = object[h]
  <2>1. ASSUME NEW h \in Handle, NEW o \in Object \cup {None}, Changes(h, o)
        PROVE  steady' \subseteq steady /\ \A g \in steady' : object'[g] = object[g]
    <3>1. object' = [object EXCEPT ![h] = o] /\ steady' = steady \ {h}
      BY <2>1 DEF Changes
    <3>2. object \in [Handle -> Object \cup {None}] /\ steady \subseteq Handle
      BY DEF CompleteInv, TypeOK, SystemTypeOK
    <3>3. QED
      BY <3>1, <3>2
  <2>2. ASSUME Blocks PROVE steady' \subseteq steady /\ \A g \in steady' : object'[g] = object[g]
    BY <2>2 DEF Blocks, history
  <2>3. QED
    BY <2>1, <2>2 DEF Others
<1>3. \A entry : Expected(entry)' => Expected(entry) /\ object'[infos[entry]] = object[infos[entry]]
  BY <1>1, <1>2 DEF Expected
<1>4. steady' \subseteq HoldsWanted(object)'
  BY <1>2 DEF CompleteInv, Complete, HoldsWanted
<1>5. Passed => Passed'
  BY <1>1, <1>3 DEF Passed
<1>6. \A h : IsListed(h)' <=> IsListed(h)
  BY <1>1 DEF IsListed
<1>7. Followed'
  BY <1>1, <1>3 DEF CompleteInv, Complete, Followed, AssignedName
<1>8. QED
  BY <1>1, <1>2, <1>4, <1>5, <1>6, <1>7 DEF CompleteInv, Complete

\* A handle that stands for a wanted file from the snapshot to the end is shown, with the three
\* exceptions: the process is refused, the thread was given up, the length ends in a zero.
THEOREM Openers == Spec => []OpenIsReported
<1>1. Init => Complete
  BY DEF Init, Complete, Followed, Shown, Asked, HoldsWanted
<1>2. CompleteInv /\ [Next]_vars => Complete'
  <2>1. CompleteInv /\ UNCHANGED vars => Complete'
    <3>1. SUFFICES ASSUME CompleteInv, UNCHANGED vars PROVE Complete'
      OBVIOUS
    <3>2. UNCHANGED <<pc, at, object, infos, table, steady, reported, late, type, handle, thread, rc, name>>
      BY <3>1 DEF vars, lists, asked, result, history
    <3>3. (steady \subseteq HoldsWanted(object)) => (steady' \subseteq HoldsWanted(object)')
      BY <3>2 DEF HoldsWanted
    <3>4. Followed => Followed'
      BY <3>2 DEF Followed, Expected, AssignedName
    <3>5. Passed => Passed'
      BY <3>2 DEF Passed, Expected
    <3>6. \A h : IsListed(h)' <=> IsListed(h)
      BY <3>2 DEF IsListed
    <3>7. QED
      BY <3>1, <3>2, <3>3, <3>4, <3>5, <3>6 DEF CompleteInv, Complete
  <2>2. QED
    BY <2>1, SnapshotComplete, FilterComplete, FilteredComplete, GetTypeComplete, GetNameComplete,
       ThreadComplete, WaitComplete, QueryComplete, OthersComplete DEF Next, Main
<1>3. CompleteInv => OpenIsReported
  <2>1. SUFFICES ASSUME CompleteInv, pc = "done", NEW h \in steady \ Opaque, object[h] \notin Long
                 PROVE  \E entry \in DOMAIN infos : infos[entry] = h /\ entry \in reported \cup late
    BY DEF OpenIsReported
  <2>2. PICK entry \in DOMAIN infos : infos[entry] = h
    BY <2>1 DEF CompleteInv, Complete, IsListed, Shown
  <2>3. entry < at
    BY <2>1, Lengths DEF CompleteInv, Complete
  <2>4. Expected(entry)
    BY <2>1, <2>2 DEF Expected
  <2>5. QED
    BY <2>1, <2>2, <2>3, <2>4 DEF CompleteInv, Complete, Passed, Shown
<1>4. QED
  BY <1>1, <1>2, <1>3, TypeCorrect, PTL DEF Spec, CompleteInv

(***************************************************************************)
(* The program gets on.                                                    *)
(***************************************************************************)
\* The steps of the program that are left at most, the calls of the thread not counted.
Left ==
  CASE pc = "snapshot" -> 5 * N + 3
    [] pc = "filter"   -> 5 * (N + 1 - at) + 4 * Len(infos) + 2
    [] pc = "GetType"  -> 4 * (Len(infos) + 1 - at) + 1
    [] pc = "name"     -> 4 * (Len(infos) - at) + 4
    [] pc = "wait"     -> 4 * (Len(infos) - at) + 3
    [] pc = "query"    -> 4 * (Len(infos) - at) + 2
    [] OTHER           -> 0

Placed ==
  /\ pc = "snapshot" => at = 1 /\ infos = <<>>
  /\ pc = "filter" => at <= N + 1 /\ Len(infos) < at
  /\ Len(infos) <= N
  /\ pc = "GetType" => at <= Len(infos) + 1

Nearer == Placed' /\ Left' < Left

LEMMA Numbers ==
  ASSUME TypeOK PROVE N \in Nat /\ at \in Nat /\ at >= 1 /\ Len(infos) \in Nat
BY Lengths, WhoUsesAssumption

LEMMA ShowNearer ==
  ASSUME TypeOK, Placed, NEW text, NEW untouched, Show(text, untouched), UNCHANGED infos,
         at <= Len(infos), pc \in {"GetType", "name", "wait", "query"}
  PROVE  Nearer
<1>1. pc' = "GetType" /\ at' = at + 1 /\ infos' = infos
  BY DEF Show
<1>2. at' <= Len(infos') + 1
  BY <1>1, Numbers
<1>3. Left' = 4 * (Len(infos) - at) + 1
  BY <1>1, Numbers DEF Left
<1>4. Left >= 4 * (Len(infos) - at) + 2
  BY Numbers DEF Left
<1>5. Left' < Left
  BY <1>3, <1>4, Numbers DEF Left
<1>6. QED
  BY <1>1, <1>2, <1>5 DEF Nearer, Placed

\* An entry that is looked at is passed by one step at each of its stages.
LEMMA StageNearer ==
  ASSUME TypeOK, Placed, UNCHANGED <<at, infos>>, at <= Len(infos),
         \/ pc = "GetType" /\ pc' = "name"
         \/ pc = "name" /\ pc' \in {"wait", "query"}
         \/ pc = "wait" /\ pc' \in {"query", "locked"}
  PROVE  Nearer
<1>1. Placed'
  BY DEF Placed
<1>2. Left' < Left
  BY Numbers DEF Left
<1>3. QED
  BY <1>1, <1>2 DEF Nearer

LEMMA ListNearer ==
  TypeOK /\ Placed /\ ((\E fits \in BOOLEAN : Snapshot(fits)) \/ Filter \/ Filtered \/ Finish)
    => Nearer
<1> SUFFICES ASSUME TypeOK, Placed,
                    (\E fits \in BOOLEAN : Snapshot(fits)) \/ Filter \/ Filtered \/ Finish
             PROVE  Nearer
  OBVIOUS
<1>0. N \in Nat /\ at \in Nat /\ at >= 1 /\ Len(infos) \in Nat /\ Len(infos) <= N
  BY Numbers DEF Placed
<1>1. CASE \E fits \in BOOLEAN : Snapshot(fits)
  <2>1. pc = "snapshot" /\ pc' \in {"filter", "failed"} /\ at' = 1 /\ infos' = <<>>
    BY <1>1 DEF Placed, Snapshot
  <2>2. Len(infos') = 0 /\ Placed'
    BY <1>0, <2>1, EmptySeq DEF Placed
  <2>3. Left = 5 * N + 3
    BY <2>1 DEF Left
  <2>4. Left' = 5 * N + 2 \/ Left' = 0
    BY <1>0, <2>1, <2>2 DEF Left
  <2>5. QED
    BY <1>0, <2>2, <2>3, <2>4 DEF Nearer
<1>2. CASE Filter
  <2>1. pc = "filter" /\ pc' = "filter" /\ at <= N /\ at' = at + 1
    BY <1>2 DEF Filter
  <2>2. Len(infos') \in Nat /\ Len(infos') <= Len(infos) + 1
    <3>1. at \in Handle /\ infos \in Seq(Handle)
      <4>1. at \in 1..N
        BY <1>0, <2>1
      <4>2. QED
        BY <4>1 DEF Handle, TypeOK, ListTypeOK
    <3>2. Len(Append(infos, at)) = Len(infos) + 1
      BY <3>1, AppendProperties
    <3>3. infos' = infos \/ infos' = Append(infos, at)
      BY <1>2 DEF Filter
    <3>4. QED
      BY <1>0, <3>2, <3>3
  <2>3. Len(infos) < at
    BY <2>1 DEF Placed
  <2>4. Placed'
    BY <1>0, <2>1, <2>2, <2>3 DEF Placed
  <2>5. Left = 5 * (N + 1 - at) + 4 * Len(infos) + 2
    BY <2>1 DEF Left
  <2>6. Left' = 5 * (N - at) + 4 * Len(infos') + 2
    BY <1>0, <2>1, <2>2 DEF Left
  <2>7. QED
    BY <1>0, <2>2, <2>4, <2>5, <2>6 DEF Nearer
<1>3. CASE Filtered
  <2>1. pc = "filter" /\ pc' = "GetType" /\ at' = 1 /\ infos' = infos /\ at > N
    BY <1>3 DEF Filtered
  <2>2. at = N + 1
    BY <1>0, <2>1 DEF Placed
  <2>3. Placed'
    BY <1>0, <2>1 DEF Placed
  <2>4. Left = 5 * (N + 1 - at) + 4 * Len(infos) + 2
    BY <2>1 DEF Left
  <2>5. Left' = 4 * (Len(infos) + 1 - 1) + 1
    BY <2>1 DEF Left
  <2>6. Left' < Left
    BY <1>0, <2>2, <2>4, <2>5
  <2>7. QED
    BY <2>3, <2>6 DEF Nearer
<1>4. CASE Finish
  <2>1. pc = "GetType" /\ pc' = "done" /\ at > Len(infos) /\ UNCHANGED <<at, infos>>
    BY <1>4 DEF Finish, lists
  <2>2. at = Len(infos) + 1
    BY <1>0, <2>1 DEF Placed
  <2>3. Left = 1 /\ Left' = 0
    BY <1>0, <2>1, <2>2 DEF Left
  <2>4. QED
    BY <1>0, <2>1, <2>3 DEF Nearer, Placed
<1>5. QED
  BY <1>1, <1>2, <1>3, <1>4

LEMMA MainNearer == TypeOK /\ Placed /\ Main => Nearer
<1> SUFFICES ASSUME TypeOK, Placed, Main PROVE Nearer
  OBVIOUS
<1>1. CASE GetType
  <2>1. pc = "GetType" /\ at <= Len(infos) /\ infos' = infos
    BY <1>1 DEF GetType, lists
  <2>2. Show(name, TRUE) \/ (pc' = "name" /\ at' = at)
    BY <1>1 DEF GetType
  <2>3. QED
    BY <2>1, <2>2, ShowNearer, StageNearer
<1>2. CASE GetNameByType
  <2>1. pc = "name" /\ infos' = infos
    BY <1>2 DEF GetNameByType, lists
  <2>2. at <= Len(infos)
    BY <2>1, Lengths
  <2>3. Show(name, TRUE) \/ (pc' \in {"wait", "query"} /\ at' = at)
    BY <1>2 DEF GetNameByType
  <2>4. QED
    BY <2>1, <2>2, <2>3, ShowNearer, StageNearer
<1>3. CASE Waited \/ \E fate \in {"gone", "finished", "locked"} : Timeout(fate)
  <2>1. pc = "wait" /\ infos' = infos
    BY <1>3 DEF Waited, Timeout, lists
  <2>2. at <= Len(infos)
    BY <2>1, Lengths DEF Asked
  <2>3. Show("", FALSE) \/ (pc' \in {"query", "locked"} /\ at' = at)
    BY <1>3 DEF Waited, Timeout
  <2>4. QED
    BY <2>1, <2>2, <2>3, ShowNearer, StageNearer
<1>4. CASE Query
  <2>1. pc = "query" /\ infos' = infos /\ (Show(name, TRUE) \/ Show(handle, FALSE))
    BY <1>4 DEF Query, lists
  <2>2. at <= Len(infos)
    BY <2>1, Lengths DEF Asked
  <2>3. QED
    BY <2>1, <2>2, ShowNearer
<1>5. QED
  BY <1>1, <1>2, <1>3, <1>4, ListNearer DEF Main

LEMMA LeftBounded == ASSUME TypeOK, Placed PROVE Left \in 0..5 * N + 3
<1>1. N \in Nat /\ at \in Nat /\ at >= 1 /\ Len(infos) \in Nat /\ Len(infos) <= N
  BY Numbers DEF Placed
<1>2. CASE pc = "snapshot"
  BY <1>1, <1>2 DEF Left
<1>3. CASE pc = "filter"
  <2>1. at <= N + 1 /\ Len(infos) < at
    BY <1>3 DEF Placed
  <2>2. Left = 5 * (N + 1 - at) + 4 * Len(infos) + 2
    BY <1>3 DEF Left
  <2>3. QED
    BY <1>1, <2>1, <2>2
<1>4. CASE pc = "GetType"
  <2>1. at <= Len(infos) + 1
    BY <1>4 DEF Placed
  <2>2. Left = 4 * (Len(infos) + 1 - at) + 1
    BY <1>4 DEF Left
  <2>3. QED
    BY <1>1, <2>1, <2>2
<1>5. CASE pc \in {"name", "wait", "query"}
  <2>1. at <= Len(infos)
    BY <1>5, Lengths DEF Asked
  <2>2. PICK stage \in 2..4 : Left = 4 * (Len(infos) - at) + stage
    BY <1>5 DEF Left
  <2>3. QED
    BY <1>1, <2>1, <2>2
<1>6. CASE pc \notin {"snapshot", "filter", "GetType", "name", "wait", "query"}
  <2>1. Left = 0
    BY <1>6 DEF Left
  <2>2. QED
    BY <1>1, <2>1
<1>7. QED
  BY <1>2, <1>3, <1>4, <1>5, <1>6

\* WhoUses takes 5 N + 3 steps of its own at most, for N handles: each one lowers the number that
\* is left, and no step of the thread or of another process changes it, whatever they do.  What
\* remains of its end is that it is not held up for ever, which Finishes says.
THEOREM StepsBounded ==
  Spec => /\ [](Left \in 0..5 * N + 3)
          /\ [][IF Main THEN Left' < Left ELSE Left' = Left]_vars
<1>1. Init => Placed
  <2>1. SUFFICES ASSUME Init PROVE Placed
    OBVIOUS
  <2>2. pc = "snapshot" /\ at = 1 /\ infos = <<>>
    BY <2>1 DEF Init
  <2>3. Len(infos) = 0 /\ N \in Nat
    BY <2>2, EmptySeq, WhoUsesAssumption
  <2>4. QED
    BY <2>2, <2>3 DEF Placed
<1>2. ASSUME TypeOK, Placed, [Next]_vars
      PROVE  Placed' /\ IF Main THEN Left' < Left ELSE Left' = Left
  <2>1. CASE Main
    BY <1>2, <2>1, MainNearer DEF Nearer
  <2>2. CASE ~Main
    <3>1. UNCHANGED <<pc, at, infos>>
      BY <1>2, <2>2 DEF Next, Answers, Assign, Others, Changes, Blocks, vars, lists
    <3>2. QED
      BY <1>2, <2>2, <3>1 DEF Placed, Left
  <2>3. QED
    BY <2>1, <2>2
<1>3. TypeOK /\ Placed => Left \in 0..5 * N + 3
  BY LeftBounded
<1>4. TypeOK /\ Placed /\ [Next]_vars => Placed' /\ [IF Main THEN Left' < Left ELSE Left' = Left]_vars
  BY <1>2
<1>5. QED
  BY <1>1, <1>3, <1>4, TypeCorrect, PTL DEF Spec
=============================================================================
