---------------------------- MODULE FrameChannel ----------------------------
(***************************************************************************)
(* What one direction of a framed connection promises: the reader gets the *)
(* writer's items in order, each as its own type reads it, without loss or *)
(* repetition, up to the first item that it refuses or to the place where  *)
(* the stream was cut.                                                     *)
(***************************************************************************)
EXTENDS Integers, Sequences

CONSTANTS
  Items,       \* what the writer sends
  Meaning,     \* item -> what the reader makes of it, or Refused
  Refused

VARIABLES
  writer,      \* "open", "closed" after its last item, or "cut" anywhere
  sent,        \* items sent
  yielded,     \* what the reader was given
  reader       \* "open", "over" at the end of the stream, or "failed"
fvars == <<writer, sent, yielded, reader>>

Init == /\ writer = "open" /\ reader = "open"
        /\ sent = <<>> /\ yielded = <<>>

Upcoming == sent[Len(yielded) + 1]
Pending == Len(yielded) < Len(sent)

Send(m) == /\ writer = "open"
           /\ sent' = Append(sent, m)
           /\ UNCHANGED <<writer, yielded, reader>>

Close == /\ writer = "open" /\ writer' \in {"closed", "cut"}
         /\ UNCHANGED <<sent, yielded, reader>>

Yield == /\ reader = "open" /\ Pending /\ Meaning[Upcoming] # Refused
         /\ yielded' = Append(yielded, Meaning[Upcoming])
         /\ UNCHANGED <<writer, sent, reader>>

Fail == /\ reader = "open"
        /\ writer = "cut" \/ (Pending /\ Meaning[Upcoming] = Refused)
        /\ reader' = "failed"
        /\ UNCHANGED <<writer, sent, yielded>>

End == /\ reader = "open"
       /\ writer = "cut" \/ (writer = "closed" /\ ~Pending)
       /\ reader' = "over"
       /\ UNCHANGED <<writer, sent, yielded>>

Next == (\E m \in Items : Send(m)) \/ Close \/ Yield \/ Fail \/ End

Spec == Init /\ [][Next]_fvars
=============================================================================
