----------------------------- MODULE ByteQueue -----------------------------
(***************************************************************************)
(* What the user of a buffy Reader counts on: what it has still to read is *)
(* an end of what was written, however that was cut into chunks, and what  *)
(* was read once is not read again. Where the bytes are kept is the        *)
(* Reader's business.                                                      *)
(***************************************************************************)
EXTENDS Naturals, Sequences

VARIABLES
  written,  \* all bytes ever written
  unread    \* those still to be read

vars == <<written, unread>>

Init == written = <<>> /\ unread = <<>>

\* The bytes of s after its first n.
After(s, n) == [i \in 1 .. Len(s) - n |-> s[n + i]]

Extends(longer, s) ==
  Len(s) <= Len(longer) /\ \A i \in 1 .. Len(s) : longer[i] = s[i]

\* Some bytes are written, some are read.
Next ==
  /\ Extends(written', written)
  /\ \E n \in Len(written) - Len(unread) .. Len(written') :
       unread' = After(written', n)

Spec == Init /\ [][Next]_vars
=============================================================================
