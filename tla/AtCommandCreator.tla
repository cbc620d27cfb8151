-------------------------- MODULE AtCommandCreator --------------------------
(***************************************************************************)
(* node drone/ar-drone/lib/control/AtCommandCreator.js: the arguments of   *)
(* the commands that carry the client's flags, as the drone reads them.    *)
(*                                                                         *)
(* The options of pcmd() are the keys of an object with their values, in   *)
(* the order in which the keys were set, which is the order of for-in. A   *)
(* speed is an integer here, as in the command, which has the 32 bits of   *)
(* the float in it.                                                        *)
(***************************************************************************)
EXTENDS Integers, Sequences

REF_FLAGS == [emergency |-> 2^8, takeoff |-> 2^9]

PCMD_FLAGS == [progressive |-> 2^0]

PCMD_ALIASES ==
  [left             |-> [index |-> 1, invert |-> TRUE],
   right            |-> [index |-> 1, invert |-> FALSE],
   front            |-> [index |-> 2, invert |-> TRUE],
   back             |-> [index |-> 2, invert |-> FALSE],
   up               |-> [index |-> 3, invert |-> FALSE],
   down             |-> [index |-> 3, invert |-> TRUE],
   clockwise        |-> [index |-> 4, invert |-> FALSE],
   counterClockwise |-> [index |-> 4, invert |-> TRUE]]

Keys == DOMAIN PCMD_ALIASES
Axis(key) == PCMD_ALIASES[key].index

\* ref(options): the flags are different bits, so "|" adds them.
Ref(options) ==
  (IF options.fly THEN REF_FLAGS.takeoff ELSE 0)
  + (IF options.emergency THEN REF_FLAGS.emergency ELSE 0)

\* The argument that one key gives.
Value(option) ==
  IF PCMD_ALIASES[option.key].invert THEN 0 - option.value ELSE option.value

\* pcmd(options): flags, leftRight, frontBack, upDown, clockWise. Of two keys
\* with the same index the later one is sent.
Pcmd(options) ==
  LET Keyed(i) == {n \in DOMAIN options : Axis(options[n].key) = i}
      flags == IF options = <<>> THEN 0 ELSE PCMD_FLAGS.progressive
      arg(i) ==
        IF Keyed(i) = {} THEN 0
        ELSE Value(options[CHOOSE n \in Keyed(i) : \A m \in Keyed(i) : m <= n])
  IN  <<flags, arg(1), arg(2), arg(3), arg(4)>>

\* The argument of the command that is for a key's axis.
ArgOf(pcmd, key) == pcmd[Axis(key) + 1]
=============================================================================
