------------------------------ MODULE LogSpec ------------------------------
(***************************************************************************)
(* What the daemon's log promises: messages are accepted one at a time,    *)
(* and the log grows by the oldest message accepted and not logged yet,    *)
(* whole.  Logging may end, once and for good; the messages not logged     *)
(* then, and the latest of those that were, may be lost, but never is a    *)
(* message logged twice, out of order or after the end.                    *)
(***************************************************************************)
EXTENDS Naturals, Sequences

CONSTANT Message

VARIABLES queue, log, ended

Init == queue = <<>> /\ log = <<>> /\ ended = FALSE

Accept(m) ==
    /\ ~ended
    /\ queue' = Append(queue, m)
    /\ UNCHANGED <<log, ended>>

Record ==
    /\ ~ended /\ queue # <<>>
    /\ log' = Append(log, Head(queue))
    /\ queue' = Tail(queue)
    /\ UNCHANGED ended

End ==
    /\ ~ended /\ ended' = TRUE
    /\ queue' = <<>>
    /\ \E n \in 0..Len(log) : log' = SubSeq(log, 1, n)

Next == (\E m \in Message : Accept(m)) \/ Record \/ End

Spec == Init /\ [][Next]_<<queue, log, ended>>
=============================================================================
