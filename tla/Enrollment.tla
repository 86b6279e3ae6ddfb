----------------------------- MODULE Enrollment -----------------------------
(***************************************************************************)
(* The key of one user in its two places: the key file <user>.key and the  *)
(* registry.  Any number of program runs write them, unaware of each other *)
(* (bin/enroll_user.rs, and the auto-enrolment that starts user_client.rs  *)
(* and kafka_prover.rs):                                                   *)
(*   enrol   generates a key, writes the file, registers the key and       *)
(*           checks the registration; any error ends it                    *)
(*   login   loads the file if there is one, or else generates a key,      *)
(*           registers it and writes the file, ignoring all errors; then   *)
(*           it authenticates with its key                                 *)
(*   list    reads the registry twice: the users, then their keys          *)
(* Meanwhile the bank may remove the user (UserRegistry::remove, which     *)
(* these programs do not call).                                            *)
(*                                                                         *)
(* fs::write truncates the file and then fills it, so another run, or a    *)
(* failure, may find it torn.  Keys are fresh: the key a run generates is  *)
(* named after the run.                                                    *)
(***************************************************************************)
CONSTANTS
  Runs,        \* bound: program runs, each started once
  Prior,       \* a key enrolled before
  NoKey,       \* the user is not registered
  Absent,      \* there is no key file
  Torn         \* a key file that holds no whole key

Keys == Runs \cup {Prior}

ASSUME EnrollmentAssumption ==
  Prior \notin Runs /\ {NoKey, Absent, Torn} \cap Keys = {} /\ Absent # Torn

VARIABLES
  file, registry,
  removed,     \* history: the registry's last change was a removal
  kind,        \* what a run does: "enrol", "login", "list"
  pc,          \* where it stands
  mine,        \* the secret key it holds in memory
  clean,       \* history: runs under way that met neither another run nor an error
  disturbed    \* history: an overlap or an interrupted run, not yet repaired

vars == <<file, registry, removed, kind, pc, mine, clean, disturbed>>
entry == <<registry, removed>>

Bank == INSTANCE AuthRequests WITH Users <- {}, Nonces <- {}, Timestamps <- {}

\* What the look-up says to a login: AuthRequests' Lookup.
Answers == {"match", "unregistered", "mismatch", "storage"}
Resting == {"idle", "done", "failed", "panicked"} \cup Answers
Active(p) == pc[p] \notin Resting

Goto(p, l) == pc' = [pc EXCEPT ![p] = l]
Spoil(p) == clean' = clean \ {p} /\ disturbed' = TRUE
Unmarked == UNCHANGED <<clean, disturbed>>

Init == /\ \/ file = Absent /\ registry = NoKey
           \/ file = Prior /\ registry = Prior
        /\ kind = [p \in Runs |-> "list"]
        /\ pc = [p \in Runs |-> "idle"]
        /\ mine = [p \in Runs |-> NoKey]
        /\ clean = {} /\ disturbed = FALSE /\ removed = FALSE
-----------------------------------------------------------------------------
Enter(p, k, l) ==
  /\ pc[p] = "idle"
  /\ kind' = [kind EXCEPT ![p] = k]
  /\ Goto(p, l)

\* Runs that only list count for nothing.
Overlap(p) ==
  LET others == {q \in Runs \ {p} : Active(q) /\ kind[q] # "list"} IN
  /\ clean' = IF others = {} THEN clean \cup {p} ELSE {}
  /\ disturbed' = (disturbed \/ others # {})

StartEnrol(p) ==
  /\ Enter(p, "enrol", "create") /\ Overlap(p)
  /\ mine' = [mine EXCEPT ![p] = p]
  /\ UNCHANGED <<file, entry>>

LoginGenerates(p) ==         \* no look for an existing key file
  /\ Enter(p, "login", "announce") /\ Overlap(p)
  /\ mine' = [mine EXCEPT ![p] = p]
  /\ UNCHANGED <<file, entry>>

\* fs::metadata(..).is_ok(): any file will do, also a torn one.
StartLogin(p) ==
  /\ \/ /\ file # Absent /\ Enter(p, "login", "load")
        /\ UNCHANGED mine
     \/ /\ file = Absent /\ Enter(p, "login", "announce")
        /\ mine' = [mine EXCEPT ![p] = p]
  /\ Overlap(p)
  /\ UNCHANGED <<file, entry>>

LoadUnparsed(p) ==           \* whatever the file holds is taken for a key
  /\ pc[p] = "load"
  /\ mine' = [mine EXCEPT ![p] = file] /\ Goto(p, "prove")
  /\ UNCHANGED <<file, entry, kind>> /\ Unmarked

\* hex_decode returns an error, or slices beyond the end of an odd text.
Load(p) ==
  /\ pc[p] = "load"
  /\ IF file \in Keys THEN mine' = [mine EXCEPT ![p] = file] /\ Goto(p, "prove")
     ELSE /\ UNCHANGED mine
          /\ Goto(p, "failed") \/ (file = Torn /\ Goto(p, "panicked"))
  /\ UNCHANGED <<file, entry, kind>> /\ Unmarked

(***************************************************************************)
(* fs::write in its two steps.  enrol passes an error on, login goes on.   *)
(***************************************************************************)
AfterFile(p) == IF kind[p] = "enrol" THEN "register" ELSE "prove"
OnError(p) == IF kind[p] = "enrol" THEN "failed" ELSE "prove"

CreateFile(p) ==
  /\ pc[p] = "create"
  /\ file' = Torn /\ Goto(p, "fill")
  /\ UNCHANGED <<entry, kind, mine>> /\ Unmarked

CreateFails(p) ==
  /\ pc[p] = "create"
  /\ Goto(p, OnError(p))
  /\ IF kind[p] = "enrol" THEN Unmarked ELSE Spoil(p)
  /\ UNCHANGED <<file, entry, kind, mine>>

\* The last write of a clean login: its key is in both places.
FillFile(p) ==
  /\ pc[p] = "fill"
  /\ file' = mine[p] /\ Goto(p, AfterFile(p))
  /\ disturbed' = (disturbed /\ ~(kind[p] = "login" /\ p \in clean))
  /\ UNCHANGED <<entry, kind, mine, clean>>

FillFails(p) ==
  /\ pc[p] = "fill"
  /\ Goto(p, OnError(p)) /\ Spoil(p)
  /\ UNCHANGED <<file, entry, kind, mine>>

(***************************************************************************)
(* UserRegistry::register, an upsert.                                      *)
(***************************************************************************)
RegisterKeepsOld(p) ==       \* ON CONFLICT DO NOTHING
  /\ pc[p] = "register"
  /\ registry' = (IF registry = NoKey THEN mine[p] ELSE registry)
  /\ removed' = FALSE /\ Goto(p, "confirm")
  /\ disturbed' = (disturbed /\ p \notin clean)
  /\ UNCHANGED <<file, kind, mine, clean>>

Register(p) ==
  /\ pc[p] = "register"
  /\ registry' = mine[p] /\ removed' = FALSE /\ Goto(p, "confirm")
  /\ disturbed' = (disturbed /\ p \notin clean)
  /\ UNCHANGED <<file, kind, mine, clean>>

RegisterErrorIgnored(p) ==   \* let _ = registry.register(..)
  /\ pc[p] = "register"
  /\ Goto(p, "confirm") /\ Spoil(p)
  /\ UNCHANGED <<file, entry, kind, mine>>

RegisterFails(p) ==
  /\ pc[p] = "register"
  /\ Goto(p, "failed") /\ Spoil(p)
  /\ UNCHANGED <<file, entry, kind, mine>>

\* assert!(registry.is_registered(..)?)
Confirm(p) ==
  /\ pc[p] = "confirm"
  /\ \/ Goto(p, IF registry = NoKey THEN "panicked" ELSE "done")
     \/ Goto(p, "failed")
  /\ UNCHANGED <<file, entry, kind, mine>> /\ Unmarked

AnnounceFileOnly(p) ==       \* the user is never enrolled
  /\ pc[p] = "announce"
  /\ Goto(p, "create")
  /\ UNCHANGED <<file, entry, kind, mine>> /\ Unmarked

\* Auto-enrolment: neither open nor register need succeed.
Announce(p) ==
  /\ pc[p] = "announce" /\ Goto(p, "create")
  /\ \/ registry' = mine[p] /\ removed' = FALSE /\ Unmarked
     \/ UNCHANGED entry /\ Spoil(p)
  /\ UNCHANGED <<file, kind, mine>>
-----------------------------------------------------------------------------
(***************************************************************************)
(* The login connects and sends a request that names its key: the front    *)
(* end's look-up answers it, which a storage error ends before the keys    *)
(* are compared; or the verifier cannot be reached, or does not answer.    *)
(* On a match the proof decides: see BankServer and KafkaPipeline.         *)
(***************************************************************************)
Prove(p) ==
  /\ pc[p] = "prove"
  /\ \/ \E dbError \in BOOLEAN :
          Goto(p, Bank!Lookup([pk |-> mine[p]], registry, dbError))
     \/ Goto(p, "failed")
  /\ UNCHANGED <<file, entry, kind, mine>> /\ Unmarked

\* --list: an empty registry, or the one user, whose key is read next.
StartList(p) ==
  /\ Enter(p, "list", IF registry = NoKey THEN "done" ELSE "get")
  /\ UNCHANGED <<file, entry, mine>> /\ Unmarked

\* get_public_key(..)?.unwrap()
GetListed(p) ==
  /\ pc[p] = "get"
  /\ \/ Goto(p, IF registry = NoKey THEN "panicked" ELSE "done")
     \/ Goto(p, "failed")
  /\ UNCHANGED <<file, entry, kind, mine>> /\ Unmarked

(***************************************************************************)
(* UserRegistry::remove, whoever calls it.                                 *)
(***************************************************************************)
Remove ==
  /\ registry # NoKey
  /\ registry' = NoKey /\ removed' = TRUE
  /\ UNCHANGED <<file, kind, pc, mine>> /\ Unmarked

\* A run is killed; between its first and its last write that leaves a trace.
Midway(p) == \/ pc[p] \in {"fill", "register"}
             \/ pc[p] = "create" /\ kind[p] = "login"

Crash(p) ==
  /\ Active(p)
  /\ Goto(p, "failed")
  /\ IF Midway(p) THEN Spoil(p) ELSE Unmarked
  /\ UNCHANGED <<file, entry, kind, mine>>

Step(p) ==
  \/ StartEnrol(p) \/ StartLogin(p) \/ StartList(p)
  \/ Load(p) \/ CreateFile(p) \/ CreateFails(p) \/ FillFile(p) \/ FillFails(p)
  \/ Register(p) \/ RegisterFails(p) \/ Confirm(p) \/ Announce(p)
  \/ Prove(p) \/ GetListed(p) \/ Crash(p)

Next == Remove \/ \E p \in Runs : Step(p)

Spec == Init /\ [][Next]_vars
-----------------------------------------------------------------------------
EnrollmentTypeOK ==
  /\ file \in Keys \cup {Absent, Torn}
  /\ registry \in Keys \cup {NoKey}
  /\ kind \in [Runs -> {"enrol", "login", "list"}]
  /\ pc \in [Runs -> Resting \cup {"create", "fill", "register", "confirm",
                                  "load", "announce", "prove", "get"}]
  /\ mine \in [Runs -> Keys \cup {NoKey}]
  /\ clean \subseteq Runs /\ disturbed \in BOOLEAN /\ removed \in BOOLEAN

(***************************************************************************)
(* The programs panic for two reasons only.  The assertion that ends       *)
(* enroll_user (:77) and the unwrap of --list (:54) fail only if the user  *)
(* was removed after the same run had registered or listed it, and not     *)
(* registered again; overlapping enrolments and errors do not make them    *)
(* fail.  A login panics in hex_decode only on a file that an overlapping  *)
(* or an interrupted run left torn and no clean run has written since.     *)
(***************************************************************************)
PanicHasCause ==
  [][\A p \in Runs :
       pc[p] # "panicked" /\ pc'[p] = "panicked"
         => \/ pc[p] \in {"confirm", "get"} /\ removed
            \/ pc[p] = "load" /\ disturbed]_vars

(***************************************************************************)
(* When no run is between its two writes, both hold the same key, or none, *)
(* or the user has been removed; unless runs overlapped or one was         *)
(* interrupted between its two writes.  One clean enrolment afterwards     *)
(* puts that right again.                                                  *)
(***************************************************************************)
AgreeAtRest ==
  ~disturbed /\ (\A p \in Runs : ~Midway(p))
    => file = registry \/ (registry = NoKey /\ (file = Absent \/ removed))

(***************************************************************************)
(* A login is told that its key does not match only after such a           *)
(* disturbance, and that its user is not registered only after that or a   *)
(* removal.  (It may also be told of a storage error, at any time.)        *)
(***************************************************************************)
LoginHonoured ==
  [][\A p \in Runs : pc[p] = "prove" =>
       /\ pc'[p] = "mismatch" => disturbed
       /\ pc'[p] = "unregistered" => disturbed \/ removed]_vars

(***************************************************************************)
(* A login destroys no key file that was there: it overwrites another key  *)
(* only if some other run wrote that key after this one had looked.        *)
(***************************************************************************)
KeyFileKept ==
  [][\A p \in Runs :
       kind[p] = "login" /\ pc[p] = "create" /\ pc'[p] = "fill" /\ file # Absent
         => p \notin clean /\ disturbed]_vars
=============================================================================
