------------------------------ MODULE LogSink ------------------------------
(***************************************************************************)
(* What the callers of log::info, log::warn and log::error may rely on: a  *)
(* line is accepted at once and written later, in the order of acceptance; *)
(* the process ends its logging only when every accepted line is written.  *)
(***************************************************************************)
EXTENDS Sequences

CONSTANT Lines

VARIABLES pending,  \* accepted lines that are not written yet
          written,  \* what is on stdout
          closed    \* log::shutdown() has returned

vars == <<pending, written, closed>>

Init ==
    /\ pending = <<>>
    /\ written = <<>>
    /\ closed = FALSE

Accept(line) ==
    /\ ~closed
    /\ pending' = Append(pending, line)
    /\ UNCHANGED <<written, closed>>

Write ==
    /\ pending # <<>>
    /\ written' = Append(written, Head(pending))
    /\ pending' = Tail(pending)
    /\ UNCHANGED closed

Close ==
    /\ pending = <<>>
    /\ closed' = TRUE
    /\ UNCHANGED <<pending, written>>

Next == (\E line \in Lines : Accept(line)) \/ Write \/ Close

Spec == Init /\ [][Next]_vars
=============================================================================
