------------------------- MODULE Enrollment_proofs -------------------------
(***************************************************************************)
(* The properties of Enrollment, for any set of program runs.              *)
(***************************************************************************)
EXTENDS Enrollment, TLAPS

\* What a run can be at each place, and the key it holds there.
Placed ==
  \A p \in Runs :
    /\ pc[p] \in {"load", "announce", "prove"} => kind[p] = "login"
    /\ pc[p] \in {"register", "confirm"} => kind[p] = "enrol"
    /\ pc[p] \in {"create", "fill"} => kind[p] \in {"enrol", "login"}
    /\ pc[p] = "get" => kind[p] = "list"
    /\ pc[p] \in {"create", "fill", "register", "confirm", "announce", "prove"}
         => mine[p] \in Keys

Gone == registry = NoKey /\ removed

Registered ==
  \A p \in Runs : pc[p] \in {"confirm", "get"} => registry # NoKey \/ Gone

\* Without a disturbance a torn file is one that is just being written.
TornUnderWay == file = Torn /\ ~disturbed => \E p \in Runs : pc[p] = "fill"

Writer(p) == Active(p) /\ kind[p] # "list"

\* A clean run under way is the only one; without a disturbance all are clean.
CleanAlone ==
  /\ \A p \in clean : pc[p] # "idle" /\ kind[p] # "list"
  /\ \A p \in clean, q \in Runs : Writer(p) /\ Writer(q) => p = q
  /\ ~disturbed => \A p \in Runs : Writer(p) => p \in clean

\* What a clean run has written so far is still there.
CleanProgress ==
  \A p \in clean :
    /\ pc[p] = "register" => file = mine[p]
    /\ kind[p] = "login" /\ pc[p] \in {"create", "fill"} => registry = mine[p] \/ Gone
    /\ kind[p] = "login" /\ pc[p] \in {"announce", "create"} => file = Absent

ProverKnown ==
  \A p \in Runs : ~disturbed /\ pc[p] = "prove" => mine[p] = registry \/ Gone

EnrollmentInv ==
  /\ EnrollmentTypeOK /\ Placed /\ Registered /\ TornUnderWay
  /\ CleanAlone /\ CleanProgress /\ AgreeAtRest /\ ProverKnown

\* The steps of a run, by what they do.
Starts(p) == StartEnrol(p) \/ StartLogin(p) \/ StartList(p)
Files(p) == CreateFile(p) \/ CreateFails(p) \/ FillFile(p) \/ FillFails(p)
Stores(p) == Register(p) \/ RegisterFails(p) \/ Announce(p)
Rests(p) == Load(p) \/ Confirm(p) \/ Prove(p) \/ GetListed(p) \/ Crash(p)

\* Every step is one of these.
LEMMA StepKinds ==
  ASSUME NEW p \in Runs, Step(p)
  PROVE  Starts(p) \/ Files(p) \/ Stores(p) \/ Rests(p)
  BY DEF Step, Starts, Files, Stores, Rests

-----------------------------------------------------------------------------
(***************************************************************************)
(* The bookkeeping of overlaps.                                            *)
(***************************************************************************)
LEMMA OverlapCases ==
  ASSUME NEW p \in Runs, Overlap(p)
  PROVE  /\ disturbed' \in BOOLEAN
         /\ \/ clean' = {} /\ disturbed'
            \/ /\ \A q \in Runs \ {p} : ~Writer(q)
               /\ clean' = clean \cup {p} /\ (disturbed' <=> disturbed)
  <1> DEFINE others == {q \in Runs \ {p} : Active(q) /\ kind[q] # "list"}
  <1>1. CASE others = {}
    <2>1. clean' = clean \cup {p}
      BY <1>1 DEF Overlap
    <2>2. disturbed' = (disturbed \/ others # {})
      BY DEF Overlap
    <2>3. \A q \in Runs \ {p} : ~Writer(q)
      BY <1>1 DEF Writer
    <2> HIDE DEF others
    <2>. QED
      BY <2>1, <2>2, <2>3, <1>1, Zenon
  <1>2. CASE others # {}
    <2>1. clean' = {}
      BY <1>2 DEF Overlap
    <2>2. disturbed' = (disturbed \/ others # {})
      BY DEF Overlap
    <2>. QED
      BY <2>1, <2>2, <1>2
  <1>. QED
    BY <1>1, <1>2

\* Whatever a step does about clean and disturbed keeps their types.
LEMMA MarksTyped ==
  ASSUME EnrollmentTypeOK, NEW p \in Runs,
         \/ Spoil(p) \/ Unmarked \/ Overlap(p)
         \/ \E b \in BOOLEAN : disturbed' = (disturbed /\ b) /\ clean' = clean
  PROVE  clean' \subseteq Runs /\ disturbed' \in BOOLEAN
  <1>1. CASE Spoil(p)
    BY <1>1 DEF EnrollmentTypeOK, Spoil
  <1>2. CASE Unmarked
    BY <1>2 DEF EnrollmentTypeOK, Unmarked
  <1>3. CASE Overlap(p)
    BY <1>3, OverlapCases DEF EnrollmentTypeOK
  <1>4. CASE \E b \in BOOLEAN : disturbed' = (disturbed /\ b) /\ clean' = clean
    BY <1>4, Zenon DEF EnrollmentTypeOK
  <1>. QED
    BY <1>1, <1>2, <1>3, <1>4

(***************************************************************************)
(* Types.                                                                  *)
(***************************************************************************)
LEMMA StepType ==
  ASSUME EnrollmentInv, NEW p \in Runs, Step(p)
  PROVE  EnrollmentTypeOK'
  <1>1. clean' \subseteq Runs /\ disturbed' \in BOOLEAN
    <2>1. \/ Spoil(p) \/ Unmarked \/ Overlap(p)
          \/ \E b \in BOOLEAN : disturbed' = (disturbed /\ b) /\ clean' = clean
      BY DEF Step, StartEnrol, StartLogin, StartList, CreateFile, CreateFails,
             FillFile, FillFails, Register, RegisterFails, Announce, Load,
             Confirm, Prove, GetListed, Crash
    <2>. QED
      BY <2>1, MarksTyped DEF EnrollmentInv
  <1>2. /\ file' \in Keys \cup {Absent, Torn}
        /\ registry' \in Keys \cup {NoKey} /\ removed' \in BOOLEAN
        /\ mine' \in [Runs -> Keys \cup {NoKey}]
    <2>. USE DEF EnrollmentInv, EnrollmentTypeOK, Placed, Keys, entry
    <2>1. CASE Starts(p)
      BY <2>1 DEF Starts, StartEnrol, StartLogin, StartList
    <2>2. CASE Files(p)
      BY <2>2 DEF Files, CreateFile, CreateFails, FillFile, FillFails
    <2>3. CASE Stores(p)
      BY <2>3 DEF Stores, Register, RegisterFails, Announce
    <2>4. CASE Rests(p)
      BY <2>4 DEF Rests, Load, Confirm, Prove, GetListed, Crash
    <2>. QED
      BY <2>1, <2>2, <2>3, <2>4, StepKinds
  <1>3. /\ kind' \in [Runs -> {"enrol", "login", "list"}]
        /\ pc' \in [Runs -> Resting \cup {"create", "fill", "register", "confirm",
                                        "load", "announce", "prove", "get"}]
    BY DEF EnrollmentInv, EnrollmentTypeOK, Resting, Answers, Goto, Enter,
           AfterFile, OnError, Step, StartEnrol, StartLogin, StartList,
           CreateFile, CreateFails, FillFile, FillFails, Register,
           RegisterFails, Announce, Load, Confirm, Prove, GetListed, Crash,
           Bank!Lookup
  <1>. QED
    BY <1>1, <1>2, <1>3 DEF EnrollmentTypeOK

\* Where a run is, and the key it holds there.
LEMMA StepPlaced ==
  ASSUME EnrollmentInv, NEW p \in Runs, Step(p)
  PROVE  Placed'
  <1>1. CASE Starts(p)
    BY <1>1, EnrollmentAssumption
    DEF EnrollmentInv, EnrollmentTypeOK, Placed, Keys, Goto, Enter,
        StartEnrol, StartLogin, StartList, Starts
  <1>2. CASE Files(p)
    BY <1>2, EnrollmentAssumption
    DEF EnrollmentInv, EnrollmentTypeOK, Placed, Goto, AfterFile, OnError,
        CreateFile, CreateFails, FillFile, FillFails, Files
  <1>3. CASE Stores(p)
    BY <1>3, EnrollmentAssumption
    DEF EnrollmentInv, EnrollmentTypeOK, Placed, Goto, Register,
        RegisterFails, Announce, Stores
  <1>4. CASE Rests(p)
    BY <1>4, EnrollmentAssumption
    DEF EnrollmentInv, EnrollmentTypeOK, Placed, Goto, Bank!Lookup, Load,
        Confirm, Prove, GetListed, Crash, Rests
  <1>. QED
    BY <1>1, <1>2, <1>3, <1>4, StepKinds

\* A run that has registered or listed the user finds its key, unless the
\* user has been removed.
LEMMA StepRegistered ==
  ASSUME EnrollmentInv, NEW p \in Runs, Step(p)
  PROVE  Registered'
  <1>1. CASE Starts(p)
    BY <1>1, EnrollmentAssumption
    DEF EnrollmentInv, EnrollmentTypeOK, entry, Gone, Registered, Goto, Enter,
        StartEnrol, StartLogin, StartList, Starts
  <1>2. CASE Files(p)
    BY <1>2, EnrollmentAssumption
    DEF EnrollmentInv, EnrollmentTypeOK, entry, Gone, Registered, Goto,
        AfterFile, OnError, CreateFile, CreateFails, FillFile, FillFails, Files
  <1>3. CASE Stores(p)
    BY <1>3, EnrollmentAssumption
    DEF EnrollmentInv, EnrollmentTypeOK, entry, Gone, Placed, Registered, Goto,
        Register, RegisterFails, Announce, Stores
  <1>4. CASE Rests(p)
    BY <1>4, EnrollmentAssumption
    DEF EnrollmentInv, EnrollmentTypeOK, entry, Gone, Registered, Goto,
        Bank!Lookup, Load, Confirm, Prove, GetListed, Crash, Rests
  <1>. QED
    BY <1>1, <1>2, <1>3, <1>4, StepKinds

\* Whoever leaves a torn file behind disturbs.
LEMMA StepTorn ==
  ASSUME EnrollmentInv, NEW p \in Runs, Step(p)
  PROVE  TornUnderWay'
  <1>1. CASE Starts(p)
    BY <1>1, OverlapCases, EnrollmentAssumption
    DEF EnrollmentInv, EnrollmentTypeOK, entry, Gone, TornUnderWay, Goto,
        Unmarked, Enter, StartEnrol, StartLogin, StartList, Starts
  <1>2. CASE Files(p)
    BY <1>2, EnrollmentAssumption
    DEF EnrollmentInv, EnrollmentTypeOK, entry, Gone, Placed, TornUnderWay,
        Keys, Goto, Spoil, Unmarked, AfterFile, OnError, CreateFile,
        CreateFails, FillFile, FillFails, Files
  <1>3. CASE Stores(p)
    BY <1>3, EnrollmentAssumption
    DEF EnrollmentInv, EnrollmentTypeOK, entry, Gone, Placed, CleanProgress,
        TornUnderWay, Keys, Goto, Spoil, Unmarked, Register, RegisterFails,
        Announce, Stores
  <1>4. CASE Rests(p)
    BY <1>4, EnrollmentAssumption
    DEF EnrollmentInv, EnrollmentTypeOK, entry, Gone, TornUnderWay, Midway,
        Goto, Spoil, Unmarked, Load, Confirm, Prove, GetListed, Crash, Rests
  <1>. QED
    BY <1>1, <1>2, <1>3, <1>4, StepKinds

\* A run is clean only while it is alone.
LEMMA StepClean ==
  ASSUME EnrollmentInv, NEW p \in Runs, Step(p)
  PROVE  CleanAlone'
  <1>1. CASE Starts(p)
    <2>1. CASE StartList(p)
      BY <2>1 DEF EnrollmentInv, EnrollmentTypeOK, entry, Gone, CleanAlone,
                  Writer, Active, Resting, Answers, Goto, Enter, Unmarked,
                  StartList
    <2>2. CASE StartEnrol(p) \/ StartLogin(p)
      <3>1. Overlap(p) /\ pc[p] = "idle"
        BY <2>2 DEF StartEnrol, StartLogin, Enter
      <3>2. /\ \A q \in Runs \ {p} : pc'[q] = pc[q] /\ kind'[q] = kind[q]
            /\ pc'[p] # "idle" /\ kind'[p] # "list"
        BY <2>2 DEF EnrollmentInv, EnrollmentTypeOK, entry, Gone, Goto, Enter,
                    StartEnrol, StartLogin
      <3>. QED
        BY <3>1, <3>2, OverlapCases
        DEF EnrollmentInv, EnrollmentTypeOK, entry, Gone, CleanAlone, Writer,
            Active, Resting, Answers
    <2>. QED
      BY <1>1, <2>1, <2>2 DEF Starts
  <1>2. CASE Files(p)
    BY <1>2, EnrollmentAssumption
    DEF EnrollmentInv, EnrollmentTypeOK, entry, Gone, CleanAlone, Writer,
        Active, Resting, Answers, Goto, Spoil, Unmarked, AfterFile, OnError,
        CreateFile, CreateFails, FillFile, FillFails, Files
  <1>3. CASE Stores(p)
    BY <1>3, EnrollmentAssumption
    DEF EnrollmentInv, EnrollmentTypeOK, entry, Gone, CleanAlone, Writer,
        Active, Resting, Answers, Goto, Spoil, Unmarked, Register,
        RegisterFails, Announce, Stores
  <1>4. CASE Rests(p)
    BY <1>4, EnrollmentAssumption
    DEF EnrollmentInv, EnrollmentTypeOK, entry, Gone, CleanAlone, Writer,
        Active, Resting, Answers, Goto, Spoil, Unmarked, Bank!Lookup, Load,
        Confirm, Prove, GetListed, Crash, Rests
  <1>. QED
    BY <1>1, <1>2, <1>3, <1>4, StepKinds

\* Nobody else writes while a clean run is under way.
LEMMA StepProgress ==
  ASSUME EnrollmentInv, NEW p \in Runs, Step(p)
  PROVE  CleanProgress'
  <1>1. CASE Starts(p)
    BY <1>1, EnrollmentAssumption
    DEF EnrollmentInv, EnrollmentTypeOK, entry, Gone, CleanProgress, Goto,
        Unmarked, Enter, Overlap, StartEnrol, StartLogin, StartList, Starts
  <1>2. CASE Files(p)
    BY <1>2, EnrollmentAssumption
    DEF EnrollmentInv, EnrollmentTypeOK, entry, Gone, Placed, CleanAlone,
        CleanProgress, Writer, Active, Resting, Answers, Goto, Spoil, Unmarked,
        AfterFile, OnError, CreateFile, CreateFails, FillFile, FillFails, Files
  <1>3. CASE Stores(p)
    BY <1>3, EnrollmentAssumption
    DEF EnrollmentInv, EnrollmentTypeOK, entry, Gone, Placed, CleanAlone,
        CleanProgress, Writer, Active, Resting, Answers, Goto, Spoil, Unmarked,
        Register, RegisterFails, Announce, Stores
  <1>4. CASE Rests(p)
    BY <1>4, EnrollmentAssumption
    DEF EnrollmentInv, EnrollmentTypeOK, entry, Gone, CleanProgress, Goto,
        Spoil, Unmarked, Bank!Lookup, Answers, Load, Confirm, Prove, GetListed,
        Crash, Rests
  <1>. QED
    BY <1>1, <1>2, <1>3, <1>4, StepKinds

\* The last write of a clean run makes both places agree.
LEMMA StepAgree ==
  ASSUME EnrollmentInv, NEW p \in Runs, Step(p)
  PROVE  AgreeAtRest'
  <1>1. CASE Starts(p)
    BY <1>1, EnrollmentAssumption
    DEF EnrollmentInv, EnrollmentTypeOK, entry, Gone, AgreeAtRest, Midway, Goto,
        Unmarked, Enter, Overlap, StartEnrol, StartLogin, StartList, Starts
  <1>2. CASE Files(p)
    BY <1>2, EnrollmentAssumption
    DEF EnrollmentInv, EnrollmentTypeOK, entry, Gone, Placed, CleanAlone,
        CleanProgress, AgreeAtRest, Writer, Active, Resting, Answers, Midway,
        Goto, Spoil, Unmarked, AfterFile, CreateFile, CreateFails, FillFile,
        FillFails, Files
  <1>3. CASE Stores(p)
    BY <1>3, EnrollmentAssumption
    DEF EnrollmentInv, EnrollmentTypeOK, entry, Gone, Placed, CleanAlone,
        CleanProgress, AgreeAtRest, Writer, Active, Resting, Answers, Midway,
        Goto, Spoil, Register, RegisterFails, Announce, Stores
  <1>4. CASE Rests(p)
    BY <1>4, EnrollmentAssumption
    DEF EnrollmentInv, EnrollmentTypeOK, entry, Gone, AgreeAtRest, Midway,
        Goto, Spoil, Unmarked, Load, Confirm, Prove, GetListed, Crash, Rests
  <1>. QED
    BY <1>1, <1>2, <1>3, <1>4, StepKinds

\* A login authenticates with the registered key.
LEMMA StepProver ==
  ASSUME EnrollmentInv, NEW p \in Runs, Step(p)
  PROVE  ProverKnown'
  <1>1. CASE Starts(p)
    BY <1>1, EnrollmentAssumption
    DEF EnrollmentInv, EnrollmentTypeOK, entry, Gone, ProverKnown, Goto,
        Unmarked, Enter, Overlap, StartEnrol, StartLogin, StartList, Starts
  <1>2. CASE Files(p)
    BY <1>2, EnrollmentAssumption
    DEF EnrollmentInv, EnrollmentTypeOK, entry, Gone, Placed, CleanAlone,
        CleanProgress, ProverKnown, Writer, Active, Resting, Answers, Goto,
        Spoil, Unmarked, AfterFile, OnError, CreateFile, CreateFails, FillFile,
        FillFails, Files
  <1>3. CASE Stores(p)
    BY <1>3, EnrollmentAssumption
    DEF EnrollmentInv, EnrollmentTypeOK, entry, Gone, Placed, CleanAlone,
        ProverKnown, Writer, Active, Resting, Answers, Goto, Spoil, Unmarked,
        Register, RegisterFails, Announce, Stores
  <1>4. CASE Rests(p)
    BY <1>4, EnrollmentAssumption
    DEF EnrollmentInv, EnrollmentTypeOK, entry, Gone, Placed, CleanAlone,
        AgreeAtRest, ProverKnown, Writer, Active, Resting, Answers, Midway,
        Goto, Spoil, Unmarked, Bank!Lookup, Load, Confirm, Prove, GetListed,
        Crash, Rests
  <1>. QED
    BY <1>1, <1>2, <1>3, <1>4, StepKinds

-----------------------------------------------------------------------------
(***************************************************************************)
(* The inductive invariant.                                                *)
(***************************************************************************)
LEMMA InitEnrollment == Init => EnrollmentInv
  BY EnrollmentAssumption
  DEF Init, EnrollmentInv, EnrollmentTypeOK, Placed, Registered, TornUnderWay,
      CleanAlone, CleanProgress, AgreeAtRest, ProverKnown, Writer, Active,
      Resting, Answers, Midway, Gone, Keys

\* A removal is the last change of the registry, and changes nothing else.
LEMMA RemoveKeeps ==
  ASSUME EnrollmentInv, Remove
  PROVE  EnrollmentInv'
  BY EnrollmentAssumption
  DEF Remove, Unmarked, EnrollmentInv, EnrollmentTypeOK, Placed, Registered,
      TornUnderWay, CleanAlone, CleanProgress, AgreeAtRest, ProverKnown, Writer,
      Active, Resting, Answers, Midway, Gone, Keys

\* Every step keeps the inductive invariant.
LEMMA NextEnrollment == EnrollmentInv /\ [Next]_vars => EnrollmentInv'
  <1>. SUFFICES ASSUME EnrollmentInv, [Next]_vars PROVE EnrollmentInv'
    OBVIOUS
  <1>1. ASSUME NEW p \in Runs, Step(p) PROVE EnrollmentInv'
    BY <1>1, StepType, StepPlaced, StepRegistered, StepTorn, StepClean,
       StepProgress, StepAgree, StepProver DEF EnrollmentInv
  <1>2. CASE Remove
    BY <1>2, RemoveKeeps
  <1>3. CASE UNCHANGED vars
    BY <1>3
    DEF vars, EnrollmentInv, EnrollmentTypeOK, Placed, Registered, TornUnderWay,
        CleanAlone, CleanProgress, AgreeAtRest, ProverKnown, Writer, Active,
        Resting, Answers, Midway, Gone
  <1>. QED
    BY <1>1, <1>2, <1>3 DEF Next

\* So it holds of every behaviour.
LEMMA InductiveEnrollment == Spec => []EnrollmentInv
  BY InitEnrollment, NextEnrollment, PTL DEF Spec

(***************************************************************************)
(* The key file, the registry entry and every run stay in their domains,   *)
(* whatever the runs do and wherever they are killed.                      *)
(***************************************************************************)
THEOREM EnrollmentTypeCorrect == Spec => []EnrollmentTypeOK
  <1>1. EnrollmentInv => EnrollmentTypeOK
    BY DEF EnrollmentInv
  <1>. QED
    BY <1>1, InductiveEnrollment, PTL

(***************************************************************************)
(* enroll_user's assertion (:77) and the unwrap of its --list (:54) fail   *)
(* only after a removal between the two statements, and hex_decode only on *)
(* a file that a disturbance has left torn.                                *)
(***************************************************************************)
THEOREM PanicsHaveCause == Spec => PanicHasCause
  <1>1. ASSUME EnrollmentInv, [Next]_vars, NEW p \in Runs,
               pc[p] # "panicked", pc'[p] = "panicked"
        PROVE  \/ pc[p] \in {"confirm", "get"} /\ removed
               \/ pc[p] = "load" /\ disturbed
    <2>1. PICK q \in Runs : Step(q)
      BY <1>1 DEF Next, vars, Remove
    <2>2. ~Starts(q) /\ ~Files(q) /\ ~Stores(q)
      BY <1>1, <2>1
      DEF EnrollmentInv, EnrollmentTypeOK, Goto, Enter, AfterFile, OnError,
          Starts, StartEnrol, StartLogin, StartList, Files, Stores, CreateFile,
          CreateFails, FillFile, FillFails, Register, RegisterFails, Announce
    <2>3. \/ Confirm(q) \/ GetListed(q)
          \/ Load(q) /\ file = Torn
      BY <1>1, <2>1, <2>2, StepKinds
      DEF EnrollmentInv, EnrollmentTypeOK, Goto, Rests, Load, Prove, Crash,
          Bank!Lookup
    <2>4. CASE Confirm(q) \/ GetListed(q)
      BY <1>1, <2>4
      DEF Confirm, GetListed, Goto, EnrollmentInv, EnrollmentTypeOK,
          Registered, Gone
    <2>5. CASE Load(q) /\ file = Torn
      <3>1. q = p /\ pc[p] = "load"
        BY <1>1, <2>5 DEF Load, Goto, EnrollmentInv, EnrollmentTypeOK
      <3>2. ASSUME ~disturbed PROVE FALSE
        <4>1. PICK r \in Runs : pc[r] = "fill"
          BY <1>1, <3>2, <2>5 DEF EnrollmentInv, TornUnderWay
        <4>2. Writer(p) /\ Writer(r)
          BY <1>1, <3>1, <4>1
            DEF EnrollmentInv, Placed, Writer, Active, Resting, Answers
        <4>. QED
          BY <1>1, <3>1, <3>2, <4>1, <4>2 DEF EnrollmentInv, CleanAlone
      <3>. QED
        BY <3>1, <3>2
    <2>. QED
      BY <2>3, <2>4, <2>5
  <1>2. EnrollmentInv /\ [Next]_vars =>
          (\A p \in Runs : pc[p] # "panicked" /\ pc'[p] = "panicked"
             => \/ pc[p] \in {"confirm", "get"} /\ removed
                \/ pc[p] = "load" /\ disturbed)
    BY <1>1
  <1>. QED
    BY <1>2, InductiveEnrollment, PTL DEF Spec, PanicHasCause

(***************************************************************************)
(* Key file and registry agree whenever no run is between its writes,      *)
(* unless runs overlapped or one was interrupted and no clean enrolment    *)
(* followed.                                                               *)
(***************************************************************************)
THEOREM FileAndRegistryAgree == Spec => []AgreeAtRest
  <1>1. EnrollmentInv => AgreeAtRest
    BY DEF EnrollmentInv
  <1>. QED
    BY <1>1, InductiveEnrollment, PTL

(***************************************************************************)
(* A login is told of a mismatch only after such a disturbance, and that   *)
(* its user is not registered only after that or a removal.                *)
(***************************************************************************)
THEOREM LoginsHonoured == Spec => LoginHonoured
  <1>1. ASSUME EnrollmentInv, [Next]_vars, NEW p \in Runs, pc[p] = "prove",
               pc'[p] \in {"mismatch", "unregistered"}, ~disturbed
        PROVE  pc'[p] = "unregistered" /\ removed
    <2>1. mine[p] \in Keys /\ (mine[p] = registry \/ Gone)
      BY <1>1 DEF EnrollmentInv, ProverKnown, Placed
    <2>2. PICK q \in Runs : Step(q)
      BY <1>1 DEF Next, vars, Remove
    <2>3. ~Starts(q)
      BY <1>1, <2>2
      DEF EnrollmentInv, EnrollmentTypeOK, Goto, Enter, Starts, StartEnrol,
          StartLogin, StartList
    <2>4. ~Files(q) /\ ~Stores(q)
      BY <1>1, <2>2
      DEF EnrollmentInv, EnrollmentTypeOK, Goto, AfterFile, OnError, Files,
          Stores, CreateFile, CreateFails, FillFile, FillFails, Register,
          RegisterFails, Announce
    <2>5. q = p /\ Prove(p)
      BY <1>1, <2>2, <2>3, <2>4, StepKinds
      DEF EnrollmentInv, EnrollmentTypeOK, Goto, Rests, Load, Confirm, Prove,
          GetListed, Crash
    <2>6. \E dbError \in BOOLEAN :
             pc'[p] = Bank!Lookup([pk |-> mine[p]], registry, dbError)
      BY <1>1, <2>5 DEF Prove, Goto, EnrollmentInv, EnrollmentTypeOK
    <2>. QED
      BY <1>1, <2>1, <2>6, EnrollmentAssumption DEF Bank!Lookup, Gone
  <1>2. EnrollmentInv /\ [Next]_vars =>
          (\A p \in Runs : pc[p] = "prove" =>
             /\ pc'[p] = "mismatch" => disturbed
             /\ pc'[p] = "unregistered" => disturbed \/ removed)
    BY <1>1
  <1>. QED
    BY <1>2, InductiveEnrollment, PTL DEF Spec, LoginHonoured

(***************************************************************************)
(* A login overwrites a key file only when another run wrote it after the  *)
(* login had looked for one.                                               *)
(***************************************************************************)
THEOREM KeyFilesKept == Spec => KeyFileKept
  <1>1. ASSUME EnrollmentInv, NEW p \in Runs,
               kind[p] = "login", pc[p] = "create", file # Absent
        PROVE  p \notin clean /\ disturbed
    BY <1>1
    DEF EnrollmentInv, EnrollmentTypeOK, CleanAlone, CleanProgress, Writer,
        Active, Resting, Answers
  <1>2. EnrollmentInv /\ [Next]_vars =>
          (\A p \in Runs :
             kind[p] = "login" /\ pc[p] = "create" /\ pc'[p] = "fill" /\ file # Absent
               => p \notin clean /\ disturbed)
    BY <1>1
  <1>. QED
    BY <1>2, InductiveEnrollment, PTL DEF Spec, KeyFileKept
=============================================================================
