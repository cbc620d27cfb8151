----------------------------- MODULE UdpControl -----------------------------
(***************************************************************************)
(* node drone/ar-drone/lib/control/UdpControl.js: AT commands are queued   *)
(* and flushed as UDP datagrams. A non-blocking command is sent and        *)
(* forgotten. A blocking one (CONFIG) holds the blocking queue back until  *)
(* the drone acknowledges it and has then cleared its ACK bit, or until    *)
(* the ACK timer fires.                                                    *)
(*                                                                         *)
(* Node runs each callback to its end, so a method, a timer callback and a *)
(* handler of an event is one action. A timer handle is named by the       *)
(* command it was created for: a command is sent once and acknowledged     *)
(* once, so it starts at most one ACK timeout and one CTRL interval.       *)
(*                                                                         *)
(* Abstracted: sequence numbers and the text of commands; the length of    *)
(* the timeouts (a live timer may fire at any time); a callback is user    *)
(* code, of which only its being called is kept. A callback that submits   *)
(* another command is the action followed by Config.                       *)
(***************************************************************************)
EXTENDS Naturals, Sequences

CONSTANTS
  Cmds,     \* command objects with blocks = true, one per call of config()
  Kinds,    \* types of non-blocking commands; CTRL is one of them
  NONE,     \* null
  MaxCmds   \* bound: PushCmd adds no command to a longer _cmds

ASSUME UdpAssumption ==
  /\ NONE \notin Cmds
  /\ "CTRL" \in Kinds
  /\ MaxCmds \in Nat

VARIABLES
  cmds,          \* this._cmds
  blockingCmds,  \* this._blockingCmds
  state,         \* this._blocked.state
  cmd,           \* this._blocked.cmd
  ackTimer,      \* this._blocked.ackTimer
  ctrlTimer,     \* this._blocked.ctrlTimer
  timeouts,      \* ACK timeouts pending in the event loop
  intervals,     \* CTRL intervals running in the event loop
  calls          \* calls[c]: the arguments c's callback was called with

control == <<cmds, blockingCmds, state, cmd, ackTimer, ctrlTimer,
             timeouts, intervals, calls>>

NOT_BLOCKED == "NOT_BLOCKED"
WAITING_FOR_ACK == "WAITING_FOR_ACK"
WAITING_FOR_ACK_RESET == "WAITING_FOR_ACK_RESET"
States == {NOT_BLOCKED, WAITING_FOR_ACK, WAITING_FOR_ACK_RESET}

UdpTypeOK ==
  /\ cmds \in Seq(Kinds)
  /\ blockingCmds \in Seq(Cmds)
  /\ state \in States
  /\ cmd \in Cmds \cup {NONE}
  /\ ackTimer \in Cmds \cup {NONE}
  /\ ctrlTimer \in Cmds \cup {NONE}
  /\ timeouts \subseteq Cmds
  /\ intervals \subseteq Cmds
  /\ calls \in [Cmds -> Seq({"ok", "timeout"})]

\* The constructor's initial values, except for _cmds.
Idle ==
  /\ blockingCmds = <<>>
  /\ state = NOT_BLOCKED
  /\ cmd = NONE
  /\ ackTimer = NONE
  /\ ctrlTimer = NONE
  /\ timeouts = {}
  /\ intervals = {}
  /\ calls = [c \in Cmds |-> <<>>]

UdpInit == cmds = <<>> /\ Idle

-----------------------------------------------------------------------------
\* ref(), pcmd(), ctrl(), ftrim(), calibrate(): a command with blocks = false.
PushCmd(k) ==
  /\ Len(cmds) < MaxCmds
  /\ cmds' = Append(cmds, k)
  /\ UNCHANGED <<blockingCmds, state, cmd, ackTimer, ctrlTimer,
                 timeouts, intervals, calls>>

\* config() creates a new command object every time it is called.
Fresh(c) ==
  /\ c # cmd
  /\ calls[c] = <<>>
  /\ \A i \in 1 .. Len(blockingCmds) : blockingCmds[i] # c

\* Mutant of Config: a command jumps the queue.
ConfigFirst(c) ==
  /\ Fresh(c)
  /\ blockingCmds' = <<c>> \o blockingCmds
  /\ UNCHANGED <<cmds, state, cmd, ackTimer, ctrlTimer,
                 timeouts, intervals, calls>>

\* config(), animate(), animateLeds(): a command with blocks = true.
Config(c) ==
  /\ Fresh(c)
  /\ blockingCmds' = Append(blockingCmds, c)
  /\ UNCHANGED <<cmds, state, cmd, ackTimer, ctrlTimer,
                 timeouts, intervals, calls>>

\* Mutants of CanSendBlocking: does not wait at all, or not for the ACK reset.
CanAlwaysSend == blockingCmds # <<>>
CanSendBeforeReset == state # WAITING_FOR_ACK /\ blockingCmds # <<>>

CanSendBlocking == state = NOT_BLOCKED /\ blockingCmds # <<>>

\* The datagrams flush() hands to the socket: one with all of _cmds, then one
\* with a single blocking command.
Datagrams ==
  (IF cmds # <<>> THEN <<cmds>> ELSE <<>>)
    \o (IF CanSendBlocking THEN << <<Head(blockingCmds)>> >> ELSE <<>>)

\* Mutant of SetTimeout: a timer that never fires.
SetNoTimeout(c) == ackTimer' = c /\ UNCHANGED timeouts

SetTimeout(c) == ackTimer' = c /\ timeouts' = timeouts \cup {c}

SendBlocking ==
  /\ CanSendBlocking
  /\ cmd' = Head(blockingCmds)
  /\ blockingCmds' = Tail(blockingCmds)
  /\ state' = WAITING_FOR_ACK
  /\ SetTimeout(cmd')

HoldBlocking ==
  /\ ~CanSendBlocking
  /\ UNCHANGED <<blockingCmds, state, cmd, ackTimer, timeouts>>

Flush ==
  /\ cmds' = <<>>
  /\ SendBlocking \/ HoldBlocking
  /\ UNCHANGED <<ctrlTimer, intervals, calls>>

\* ack() and ackReset() do nothing unless the state expects them.
Awaits(s) == state = s

\* Mutant of ClearTimeout: forgets the timer instead of stopping it.
ForgetTimeout == ackTimer' = NONE /\ UNCHANGED timeouts

ClearTimeout == ackTimer' = NONE /\ timeouts' = timeouts \ {ackTimer}

\* ack(): the last navdata had the drone's ACK bit set.
Ack ==
  /\ Awaits(WAITING_FOR_ACK)
  /\ ClearTimeout
  /\ calls' = [calls EXCEPT ![cmd] = Append(@, "ok")]
  /\ state' = WAITING_FOR_ACK_RESET
  /\ cmds' = Append(cmds, "CTRL")
  /\ ctrlTimer' = cmd
  /\ intervals' = intervals \cup {cmd}
  /\ UNCHANGED <<blockingCmds, cmd>>

\* ackReset(): the last navdata had the drone's ACK bit cleared.
AckReset ==
  /\ Awaits(WAITING_FOR_ACK_RESET)
  /\ cmd' = NONE
  /\ state' = NOT_BLOCKED
  /\ UNCHANGED <<cmds, blockingCmds, ackTimer, ctrlTimer,
                 timeouts, intervals, calls>>

\* _handleAckTimeout(), called by the pending timeout t. It acts on whatever
\* command is current when it runs.
AckTimeout(t) ==
  /\ t \in timeouts
  /\ timeouts' = timeouts \ {t}
  /\ ackTimer' = NONE
  /\ calls' = [calls EXCEPT ![cmd] = Append(@, "timeout")]
  /\ cmd' = NONE
  /\ state' = NOT_BLOCKED
  /\ UNCHANGED <<cmds, blockingCmds, ctrlTimer, intervals>>

\* The callback of the CTRL interval t. Its condition reads self.state, a
\* property no UdpControl has, so it is never WAITING_FOR_ACK_RESET and the
\* callback always takes the other branch: it stops the interval that
\* ctrlTimer refers to now, which need not be t.
CtrlTick(t) ==
  /\ t \in intervals
  /\ intervals' = intervals \ {ctrlTimer}
  /\ ctrlTimer' = NONE
  /\ UNCHANGED <<cmds, blockingCmds, state, cmd, ackTimer, timeouts, calls>>

UdpNext ==
  \/ \E k \in Kinds : PushCmd(k)
  \/ \E c \in Cmds : Config(c)
  \/ Flush
  \/ Ack
  \/ AckReset
  \/ \E t \in Cmds : AckTimeout(t)
  \/ \E t \in Cmds : CtrlTick(t)

\* Client flushes from a setInterval and the event loop runs expired timers.
\* Nothing obliges a caller to submit commands or the drone to answer.
UdpFairness ==
  /\ WF_control(Flush)
  /\ \A t \in Cmds : WF_control(AckTimeout(t)) /\ WF_control(CtrlTick(t))

UdpSpec == UdpInit /\ [][UdpNext]_control
UdpFairSpec == UdpSpec /\ UdpFairness

-----------------------------------------------------------------------------
\* The assert() calls of ack(), ackReset() and _handleAckTimeout() never fail,
\* in whatever order calls, navdata and timers come.
AssertionsHold ==
  /\ state = WAITING_FOR_ACK => cmd # NONE /\ ackTimer # NONE
  /\ state = WAITING_FOR_ACK_RESET => cmd # NONE
  /\ timeouts # {} => state = WAITING_FOR_ACK

\* The timeout that is pending was started for the command that is waiting
\* for its ACK: no command is timed out by the timer of an earlier one.
TimeoutIsForCurrent ==
  timeouts = IF state = WAITING_FOR_ACK THEN {cmd} ELSE {}

\* A callback is called at most once: never both for an ACK and a timeout.
SettledOnce == \A c \in Cmds : Len(calls[c]) <= 1

\* Blocking commands are sent one at a time, in order, each settled once.
Abstract ==
  INSTANCE ConfigQueue WITH queue <- blockingCmds, current <- cmd
ImplementsConfigQueue == Abstract!Spec

\* A command that was sent gets its callback called, even if no navdata comes.
SentIsSettled ==
  \A c \in Cmds : (cmd = c /\ calls[c] = <<>>) ~> calls[c] # <<>>
=============================================================================
