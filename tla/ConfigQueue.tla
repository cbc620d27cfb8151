---------------------------- MODULE ConfigQueue ----------------------------
(***************************************************************************)
(* What UdpControl promises the callers of Client.config: blocking AT      *)
(* commands go out one at a time, in the order they were submitted, and    *)
(* each is settled once, by an acknowledgement ("ok") or by a timeout.     *)
(* Nothing here mentions the blocked state, the ACK timer or the resending *)
(* of CTRL, which are how UdpControl achieves it.                          *)
(***************************************************************************)
EXTENDS Naturals, Sequences

CONSTANTS
  Cmds,   \* the blocking commands a session may submit
  NONE    \* no command

VARIABLES
  queue,    \* submitted, not yet sent
  current,  \* the command the link is busy with, or NONE
  calls     \* calls[c]: how c's callback was called so far

vars == <<queue, current, calls>>

Fresh(c) ==
  /\ c # current
  /\ calls[c] = <<>>
  /\ \A i \in 1 .. Len(queue) : queue[i] # c

Init ==
  /\ queue = <<>>
  /\ current = NONE
  /\ calls = [c \in Cmds |-> <<>>]

Submit(c) ==
  /\ Fresh(c)
  /\ queue' = Append(queue, c)
  /\ UNCHANGED <<current, calls>>

Send ==
  /\ current = NONE
  /\ queue # <<>>
  /\ current' = Head(queue)
  /\ queue' = Tail(queue)
  /\ UNCHANGED calls

\* Only the current command is settled, and only if it was not before. A
\* timeout frees the link at once; an acknowledged command keeps it until
\* Release.
Settle(outcome) ==
  /\ current # NONE
  /\ calls[current] = <<>>
  /\ calls' = [calls EXCEPT ![current] = <<outcome>>]
  /\ current' = IF outcome = "timeout" THEN NONE ELSE current
  /\ UNCHANGED queue

Release ==
  /\ current # NONE
  /\ calls[current] # <<>>
  /\ current' = NONE
  /\ UNCHANGED <<queue, calls>>

Next ==
  \/ \E c \in Cmds : Submit(c)
  \/ Send
  \/ \E outcome \in {"ok", "timeout"} : Settle(outcome)
  \/ Release

Spec == Init /\ [][Next]_vars
=============================================================================
