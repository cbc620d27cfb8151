------------------------- MODULE ControlLinkProofs -------------------------
(***************************************************************************)
(* UdpControl alone and in the link, for any set of commands.              *)
(*                                                                         *)
(* UdpControl is type correct, none of its assertions fails, a command is  *)
(* never settled twice nor timed out by another's timer, and it implements *)
(* ConfigQueue. None of these is inductive. Shape ties the blocked state   *)
(* to what is pending in the event loop; Queued says that a queued command *)
(* is a new one: it occurs once, is not the one in flight and was never    *)
(* settled. Together with the types they are (UdpIInv).                    *)
(*                                                                         *)
(* In the link, over a network that loses datagrams and navdata, a         *)
(* callback is told of an ACK only if the drone received the command, or a *)
(* stale bit explains it. AckMeansReceived is not inductive either.        *)
(* Excused is the case in which a stale bit may be about, and once true it *)
(* stays so. Without it, Honest says what a set bit anywhere in the loop   *)
(* means: while the client waits for an ACK, that the drone has the        *)
(* current command; while it waits for the reset, that it was not cleared  *)
(* yet; otherwise there is none. OnceInAir says that a command is on its   *)
(* way once, after it was sent and before the drone has it, so that no     *)
(* late copy sets the bit again.                                           *)
(***************************************************************************)
EXTENDS ControlLink, SequenceTheorems, TLAPS

Shape ==
  /\ state = NOT_BLOCKED <=> cmd = NONE
  /\ state = WAITING_FOR_ACK =>
       ackTimer = cmd /\ timeouts = {cmd} /\ calls[cmd] = <<>>
  /\ state # WAITING_FOR_ACK => ackTimer = NONE /\ timeouts = {}
  /\ state = WAITING_FOR_ACK_RESET => calls[cmd] # <<>>

Queued ==
  \A i \in 1 .. Len(blockingCmds) :
    /\ calls[blockingCmds[i]] = <<>>
    /\ blockingCmds[i] # cmd
    /\ \A j \in 1 .. Len(blockingCmds) : i # j => blockingCmds[i] # blockingCmds[j]

UdpIInv == UdpTypeOK /\ Shape /\ Queued /\ SettledOnce

-----------------------------------------------------------------------------
\* Calling a callback for the first time leaves one call, and leaves the
\* callbacks of all other commands alone.
LEMMA CallOnce ==
  ASSUME UdpTypeOK, SettledOnce, NEW c \in Cmds, calls[c] = <<>>,
         NEW outcome \in {"ok", "timeout"},
         calls' = [calls EXCEPT ![c] = Append(@, outcome)]
  PROVE  /\ calls' \in [Cmds -> Seq({"ok", "timeout"})]
         /\ calls'[c] = <<outcome>>
         /\ \A d \in Cmds : d # c => calls'[d] = calls[d]
         /\ SettledOnce'
<1>1. Append(calls[c], outcome) = <<outcome>>
  OBVIOUS
<1>2. <<outcome>> \in Seq({"ok", "timeout"}) /\ Len(<<outcome>>) = 1
  OBVIOUS
<1>3. calls' = [calls EXCEPT ![c] = <<outcome>>]
  BY <1>1
<1> QED
  BY <1>2, <1>3 DEF UdpTypeOK, SettledOnce

\* The initial state satisfies the invariant, whatever is in _cmds.
LEMMA UdpIdle ==
  ASSUME cmds \in Seq(Kinds), Idle
  PROVE  UdpIInv
BY UdpAssumption DEF Idle, UdpIInv, UdpTypeOK, Shape, Queued,
     SettledOnce, States, NOT_BLOCKED, WAITING_FOR_ACK, WAITING_FOR_ACK_RESET

\* Every step preserves the invariant.
LEMMA UdpStep == UdpIInv /\ [UdpNext]_control => UdpIInv'
<1> SUFFICES ASSUME UdpIInv, [UdpNext]_control PROVE UdpIInv'
  OBVIOUS
<1> USE UdpAssumption DEF UdpIInv, States, NOT_BLOCKED, WAITING_FOR_ACK,
      WAITING_FOR_ACK_RESET
<1>1. ASSUME NEW k \in Kinds, PushCmd(k) PROVE UdpIInv'
  <2> USE <1>1 DEF PushCmd
  <2>1. UdpTypeOK'
    BY DEF UdpTypeOK
  <2>2. Shape' /\ SettledOnce' /\ Queued'
    BY DEF Shape, SettledOnce, Queued
  <2> QED
    BY <2>1, <2>2
<1>2. ASSUME NEW c \in Cmds, Config(c) PROVE UdpIInv'
  <2> USE <1>2 DEF Config, Fresh
  <2>1. UdpTypeOK'
    BY DEF UdpTypeOK
  <2>2. Shape' /\ SettledOnce'
    BY DEF Shape, SettledOnce
  <2>3. /\ Len(blockingCmds') = Len(blockingCmds) + 1
        /\ blockingCmds'[Len(blockingCmds) + 1] = c
        /\ \A i \in 1 .. Len(blockingCmds) : blockingCmds'[i] = blockingCmds[i]
        /\ Len(blockingCmds) \in Nat
    BY DEF UdpTypeOK
  <2>4. \A i \in 1 .. Len(blockingCmds) + 1 :
          i \in 1 .. Len(blockingCmds) \/ i = Len(blockingCmds) + 1
    BY <2>3
  <2>5. Queued'
    BY <2>3, <2>4 DEF Queued
  <2> QED
    BY <2>1, <2>2, <2>5
<1>3. CASE Flush /\ SendBlocking
  <2> USE <1>3 DEF Flush, SendBlocking, CanSendBlocking, SetTimeout
  <2> DEFINE c == Head(blockingCmds)
  <2>1. /\ c = blockingCmds[1] /\ c \in Cmds
        /\ Len(Tail(blockingCmds)) = Len(blockingCmds) - 1
        /\ \A i \in 1 .. Len(blockingCmds) - 1 :
             Tail(blockingCmds)[i] = blockingCmds[i + 1]
        /\ Len(blockingCmds) \in Nat \ {0}
    BY DEF UdpTypeOK
  <2>2. UdpTypeOK'
    BY <2>1 DEF UdpTypeOK
  <2>3. calls[c] = <<>>
    BY <2>1 DEF Queued
  <2>4. Shape' /\ SettledOnce'
    BY <2>1, <2>3 DEF Shape, SettledOnce
  <2>5. Queued'
    BY <2>1 DEF Queued
  <2> QED
    BY <2>2, <2>4, <2>5
<1>4. CASE Flush /\ HoldBlocking
  BY <1>4 DEF Flush, HoldBlocking, UdpTypeOK, Shape, Queued, SettledOnce
<1>5. CASE Ack
  <2> USE <1>5 DEF Ack, Awaits, ClearTimeout
  <2>1. cmd \in Cmds /\ calls[cmd] = <<>>
    BY DEF UdpTypeOK, Shape
  <2>2. /\ calls' \in [Cmds -> Seq({"ok", "timeout"})]
        /\ calls'[cmd] = <<"ok">>
        /\ \A d \in Cmds : d # cmd => calls'[d] = calls[d]
        /\ SettledOnce'
    BY <2>1, CallOnce
  <2>3. UdpTypeOK'
    BY <2>1, <2>2 DEF UdpTypeOK
  <2>4. Shape'
    BY <2>1, <2>2 DEF Shape, UdpTypeOK
  <2>5. Queued'
    BY <2>2 DEF Queued, UdpTypeOK
  <2> QED
    BY <2>2, <2>3, <2>4, <2>5
<1>6. CASE AckReset
  BY <1>6 DEF AckReset, Awaits, UdpTypeOK, Shape, Queued, SettledOnce
<1>7. ASSUME NEW t \in Cmds, AckTimeout(t) PROVE UdpIInv'
  <2> USE <1>7 DEF AckTimeout
  <2>1. /\ state = WAITING_FOR_ACK /\ t = cmd
        /\ cmd \in Cmds /\ calls[cmd] = <<>>
    BY DEF UdpTypeOK, Shape
  <2>2. /\ calls' \in [Cmds -> Seq({"ok", "timeout"})]
        /\ \A d \in Cmds : d # cmd => calls'[d] = calls[d]
        /\ SettledOnce'
    BY <2>1, CallOnce
  <2>3. UdpTypeOK'
    BY <2>2 DEF UdpTypeOK
  <2>4. Shape'
    BY <2>1 DEF Shape
  <2>5. Queued'
    BY <2>2 DEF Queued, UdpTypeOK
  <2> QED
    BY <2>2, <2>3, <2>4, <2>5
<1>8. ASSUME NEW t \in Cmds, CtrlTick(t) PROVE UdpIInv'
  BY <1>8 DEF CtrlTick, UdpTypeOK, Shape, Queued, SettledOnce
<1>9. CASE UNCHANGED control
  BY <1>9 DEF control, UdpTypeOK, Shape, Queued, SettledOnce
<1> QED
  BY <1>1, <1>2, <1>3, <1>4, <1>5, <1>6, <1>7, <1>8, <1>9 DEF UdpNext, Flush

\* So does that of UdpControl alone.
LEMMA UdpStart == UdpInit => UdpIInv
<1>1. UdpInit => cmds \in Seq(Kinds) /\ Idle
  BY DEF UdpInit
<1> QED
  BY <1>1, UdpIdle

\* The inductive invariant holds in every reachable state.
THEOREM UdpInvariant == UdpSpec => []UdpIInv
BY UdpStart, UdpStep, PTL DEF UdpSpec

\* Every variable keeps its type, for any number of commands.
THEOREM UdpTypeCorrect == UdpSpec => []UdpTypeOK
BY UdpInvariant, PTL DEF UdpIInv

\* The assertions of ack(), ackReset() and _handleAckTimeout() never fail: a
\* state that waits has a command and a timer, and no timer outlives the wait.
THEOREM NoAssertionFails == UdpSpec => []AssertionsHold
<1>1. UdpIInv => AssertionsHold
  BY UdpAssumption DEF UdpIInv, UdpTypeOK, Shape, AssertionsHold, States,
       NOT_BLOCKED, WAITING_FOR_ACK, WAITING_FOR_ACK_RESET
<1> QED
  BY <1>1, UdpInvariant, PTL

\* No command is timed out by the timer of an earlier one.
THEOREM TimeoutsAreCurrent == UdpSpec => []TimeoutIsForCurrent
<1>1. UdpIInv => TimeoutIsForCurrent
  BY DEF UdpIInv, Shape, TimeoutIsForCurrent
<1> QED
  BY <1>1, UdpInvariant, PTL

\* No callback is called twice, for an ACK and a timeout or for two of either.
THEOREM EachSettledOnce == UdpSpec => []SettledOnce
BY UdpInvariant, PTL DEF UdpIInv

-----------------------------------------------------------------------------
\* Each step of UdpControl is a step of ConfigQueue or leaves the queue, the
\* current command and the calls alone.
LEMMA StepImplements == UdpIInv /\ [UdpNext]_control => [Abstract!Next]_(Abstract!vars)
<1> SUFFICES ASSUME UdpIInv, [UdpNext]_control
             PROVE  Abstract!Next \/ UNCHANGED Abstract!vars
  OBVIOUS
<1> USE UdpAssumption DEF UdpIInv, States, NOT_BLOCKED, WAITING_FOR_ACK,
      WAITING_FOR_ACK_RESET
<1>1. ASSUME NEW c \in Cmds, Config(c) PROVE Abstract!Next
  BY <1>1 DEF Config, Fresh, Abstract!Fresh, Abstract!Submit, Abstract!Next
<1>2. CASE Flush /\ SendBlocking
  BY <1>2 DEF Flush, SendBlocking, CanSendBlocking, Shape, Abstract!Send,
       Abstract!Next
<1>3. CASE Ack
  <2>1. cmd \in Cmds /\ calls[cmd] = <<>>
    BY <1>3 DEF Ack, Awaits, UdpTypeOK, Shape
  <2>2. Append(calls[cmd], "ok") = <<"ok">>
    BY <2>1
  <2>3. Abstract!Settle("ok")
    BY <1>3, <2>1, <2>2 DEF Ack, Abstract!Settle
  <2> QED
    BY <2>3 DEF Abstract!Next
<1>4. CASE AckReset
  BY <1>4 DEF AckReset, Awaits, Shape, Abstract!Release, Abstract!Next
<1>5. ASSUME NEW t \in Cmds, AckTimeout(t) PROVE Abstract!Next
  <2>1. cmd \in Cmds /\ calls[cmd] = <<>>
    BY <1>5 DEF AckTimeout, UdpTypeOK, Shape
  <2>2. Append(calls[cmd], "timeout") = <<"timeout">>
    BY <2>1
  <2>3. Abstract!Settle("timeout")
    BY <1>5, <2>1, <2>2 DEF AckTimeout, Abstract!Settle
  <2> QED
    BY <2>3 DEF Abstract!Next
<1>6. ASSUME \/ \E k \in Kinds : PushCmd(k)
             \/ Flush /\ HoldBlocking
             \/ \E t \in Cmds : CtrlTick(t)
             \/ UNCHANGED control
      PROVE  UNCHANGED Abstract!vars
  BY <1>6 DEF PushCmd, Flush, HoldBlocking, CtrlTick, control, Abstract!vars
<1> QED
  BY <1>1, <1>2, <1>3, <1>4, <1>5, <1>6 DEF UdpNext, Flush

\* UdpControl implements ConfigQueue: blocking commands go out one at a time,
\* in the order of their submission, each settled once before the next.
THEOREM Refinement == UdpSpec => ImplementsConfigQueue
<1>1. UdpInit => Abstract!Init
  BY DEF UdpInit, Idle, Abstract!Init
<1> QED
  BY <1>1, StepImplements, UdpInvariant, PTL DEF UdpSpec, ImplementsConfigQueue,
       Abstract!Spec

-----------------------------------------------------------------------------
Excused == leftOver \/ \E d \in received : calls[d] = <<"timeout">>

\* No bit is set, at the drone or on its way.
Clear == ~ackBit /\ \A i \in 1 .. Len(chan) : ~chan[i]

\* After a bit that was cleared again, none is set.
FallsOnce ==
  \A i, j \in 1 .. Len(chan) :
    i < j /\ chan[i] /\ ~chan[j] => ~ackBit /\ \A k \in j .. Len(chan) : ~chan[k]

Honest ==
  /\ \A c \in Cmds : calls[c] = <<"ok">> => c \in received
  /\ state = "NOT_BLOCKED" => Clear
  /\ state = "WAITING_FOR_ACK" => Clear \/ (cmd \in received /\ FallsOnce)
  /\ state = "WAITING_FOR_ACK_RESET" =>
       \A i \in 1 .. Len(chan) :
         ~chan[i] => ~ackBit /\ \A j \in i .. Len(chan) : ~chan[j]

OnceInAir ==
  /\ \A i \in 1 .. Len(air) :
       \/ Commands(air[i]) = {"CTRL"}
       \/ \E c \in Cmds : Commands(air[i]) = {c}
  /\ \A i \in 1 .. Len(air) : \A c \in Commands(air[i]) \cap Cmds :
       /\ c \notin received
       /\ calls[c] # <<>> \/ cmd = c
       /\ \A j \in 1 .. Len(air) : c \in Commands(air[j]) => i = j
  /\ \A c \in received : calls[c] # <<>> \/ cmd = c

\* The types of the link and of its network.
LinkTypeOK ==
  /\ chan \in Seq(BOOLEAN)
  /\ got \in BOOLEAN \cup {NONE}
  /\ air \in Seq(Seq(Kinds) \cup Seq(Cmds))
  /\ ackBit \in BOOLEAN
  /\ received \subseteq Cmds
  /\ reliable \in BOOLEAN
  /\ leftOver \in BOOLEAN

IInv == LinkTypeOK /\ UdpIInv /\ OnceInAir /\ (Excused \/ Honest)

-----------------------------------------------------------------------------
\* UdpControl under the link takes its own steps, and keeps its invariant.
LEMMA ControlStep == Next => UdpNext \/ UNCHANGED control
<1>1. ASSUME NEW c \in Cmds, ClientConfig(c) PROVE UdpNext
  BY <1>1 DEF ClientConfig, UdpNext
<1>2. SendCommands => UdpNext
  BY DEF SendCommands, UdpNext
<1>3. TimerFires => UdpNext
  BY DEF TimerFires, UdpNext
<1>4. ASSUME NEW i \in DOMAIN chan, NavdataArrives(i)
      PROVE  UdpNext \/ UNCHANGED control
  BY <1>4 DEF NavdataArrives, HandleAckBit, UdpNext
<1>5. ASSUME \/ \E i \in DOMAIN chan : NavdataLost(i)
             \/ DroneSendsNavdata
             \/ \E i \in DOMAIN air : DroneReceives(i) \/ DatagramLost(i)
      PROVE  UNCHANGED control
  BY <1>5 DEF NavdataLost, DroneSendsNavdata, DroneReceives, DatagramLost
<1> QED
  BY <1>1, <1>2, <1>3, <1>4, <1>5 DEF Next

-----------------------------------------------------------------------------
\* What RemoveAt leaves, and where it was.
LEMMA Removed ==
  ASSUME NEW S, NEW s \in Seq(S), NEW k \in 1 .. Len(s)
  PROVE  /\ RemoveAt(s, k) \in Seq(S)
         /\ Len(RemoveAt(s, k)) = Len(s) - 1
         /\ \A i \in 1 .. Len(s) - 1 :
              RemoveAt(s, k)[i] = s[IF i < k THEN i ELSE i + 1]
<1> DEFINE a == SubSeq(s, 1, k - 1)
           b == SubSeq(s, k + 1, Len(s))
<1>1. /\ a \in Seq(S) /\ Len(a) = k - 1
      /\ \A i \in 1 .. k - 1 : a[i] = s[i]
  OBVIOUS
<1>2. /\ b \in Seq(S) /\ Len(b) = Len(s) - k
      /\ \A i \in 1 .. Len(s) - k : b[i] = s[i + k]
  OBVIOUS
<1>3. Len(s) \in Nat /\ k \in 1 .. Len(s)
  OBVIOUS
<1> HIDE DEF a, b
<1>4. /\ a \o b \in Seq(S) /\ Len(a \o b) = Len(a) + Len(b)
      /\ \A i \in 1 .. Len(a) + Len(b) :
           (a \o b)[i] = IF i <= Len(a) THEN a[i] ELSE b[i - Len(a)]
  BY <1>1, <1>2, ConcatProperties
<1>5. Len(a \o b) = Len(s) - 1
  BY <1>1, <1>2, <1>3, <1>4
<1>6. ASSUME NEW i \in 1 .. Len(s) - 1
      PROVE  (a \o b)[i] = s[IF i < k THEN i ELSE i + 1]
  <2>1. (a \o b)[i] = IF i <= k - 1 THEN a[i] ELSE b[i - (k - 1)]
    BY <1>1, <1>2, <1>3, <1>4, SMTT(30)
  <2>2. CASE i < k
    <3>1. i \in 1 .. k - 1
      BY <2>2, <1>3
    <3> QED
      BY <2>1, <2>2, <3>1, <1>1
  <2>3. CASE i >= k
    <3>1. i - (k - 1) \in 1 .. Len(s) - k /\ (i - (k - 1)) + k = i + 1
      BY <2>3, <1>3
    <3>2. ~(i <= k - 1) /\ ~(i < k)
      BY <2>3, <1>3
    <3> QED
      BY <2>1, <3>1, <3>2, <1>2
  <2>4. i < k \/ i >= k
    BY <1>3
  <2> QED
    BY <2>2, <2>3, <2>4
<1>7. RemoveAt(s, k) = a \o b
  BY DEF RemoveAt, a, b
<1> QED
  BY <1>4, <1>5, <1>6, <1>7

\* A callback that was called at most once was never called, or with one of
\* its two arguments.
LEMMA AtMostOneCall ==
  ASSUME NEW s \in Seq({"ok", "timeout"}), Len(s) <= 1
  PROVE  s \in {<<>>, <<"ok">>, <<"timeout">>}
<1>1. CASE s = <<>>
  BY <1>1
<1>2. CASE s # <<>>
  <2>1. Len(s) = 1
    <3>1. Len(s) \in Nat \ {0}
      BY <1>2, EmptySeq, Zenon
    <3> QED
      BY <3>1, SMTT(30)
  <2>2. s[1] \in {"ok", "timeout"}
    BY <2>1, ElementOfSeq
  <2>3. ASSUME NEW e \in {"ok", "timeout"}, s[1] = e PROVE s = <<e>>
    <3>1. <<e>> \in Seq({"ok", "timeout"}) /\ Len(<<e>>) = 1 /\ <<e>>[1] = e
      OBVIOUS
    <3>2. \A i \in 1 .. Len(s) : s[i] = <<e>>[i]
      BY <2>1, <2>3, <3>1
    <3> QED
      BY <2>1, <3>1, <3>2, SeqEqual
  <2> QED
    BY <2>2, <2>3
<1> QED
  BY <1>1, <1>2

\* What UdpControl's invariant says, in the words this module needs.
LEMMA ControlFacts ==
  ASSUME UdpIInv
  PROVE  /\ cmds \in Seq(Kinds) /\ blockingCmds \in Seq(Cmds)
         /\ state \in {"NOT_BLOCKED", "WAITING_FOR_ACK", "WAITING_FOR_ACK_RESET"}
         /\ cmd \in Cmds \cup {NONE}
         /\ calls \in [Cmds -> Seq({"ok", "timeout"})]
         /\ \A c \in Cmds : calls[c] \in {<<>>, <<"ok">>, <<"timeout">>}
         /\ state = "NOT_BLOCKED" <=> cmd = NONE
         /\ state = "WAITING_FOR_ACK" => timeouts = {cmd} /\ calls[cmd] = <<>>
         /\ state # "WAITING_FOR_ACK" => timeouts = {}
         /\ state = "WAITING_FOR_ACK_RESET" => calls[cmd] # <<>>
         /\ blockingCmds # <<>> =>
              /\ Head(blockingCmds) \in Cmds
              /\ calls[Head(blockingCmds)] = <<>>
<1> USE DEF UdpIInv, UdpTypeOK, Shape, States,
      NOT_BLOCKED, WAITING_FOR_ACK, WAITING_FOR_ACK_RESET
<1>1. ASSUME NEW c \in Cmds PROVE calls[c] \in {<<>>, <<"ok">>, <<"timeout">>}
  <2>1. calls[c] \in Seq({"ok", "timeout"}) /\ Len(calls[c]) <= 1
    BY DEF SettledOnce
  <2> QED
    BY <2>1, AtMostOneCall
<1>2. ASSUME blockingCmds # <<>>
      PROVE  Head(blockingCmds) \in Cmds /\ calls[Head(blockingCmds)] = <<>>
  <2>1. blockingCmds \in Seq(Cmds)
    OBVIOUS
  <2>2. 1 \in 1 .. Len(blockingCmds) /\ Head(blockingCmds) = blockingCmds[1]
    BY <1>2, <2>1
  <2> QED
    BY <2>1, <2>2 DEF Queued
<1>3. state = "NOT_BLOCKED" <=> cmd = NONE
  OBVIOUS
<1> QED
  BY <1>1, <1>2, <1>3

\* What a flush adds to the air: CTRLs in one datagram, then one new command.
LEMMA Flushed ==
  ASSUME UdpIInv, LinkTypeOK, air' = air \o Datagrams
  PROVE  /\ air' \in Seq(Seq(Kinds) \cup Seq(Cmds))
         /\ Len(air) \in Nat /\ Len(air') \in Nat
         /\ \A i \in 1 .. Len(air') :
              \/ i \in 1 .. Len(air) /\ air'[i] = air[i]
              \/ i > Len(air) /\ Commands(air'[i]) = {"CTRL"}
              \/ /\ i = Len(air') /\ i > Len(air)
                 /\ CanSendBlocking
                 /\ Commands(air'[i]) = {Head(blockingCmds)}
<1> DEFINE D == Seq(Kinds) \cup Seq(Cmds)
           ctrls == IF cmds # <<>> THEN <<cmds>> ELSE <<>>
           config == IF CanSendBlocking THEN << <<Head(blockingCmds)>> >>
                     ELSE <<>>
<1>0. /\ \A q \in Seq(Kinds) : q \in D
      /\ \A q \in Seq(Cmds) : q \in D
      /\ air \in Seq(D)
  BY DEF LinkTypeOK
<1> HIDE DEF D
<1>1. /\ ctrls \in Seq(D)
      /\ Len(ctrls) \in {0, 1}
      /\ \A i \in 1 .. Len(ctrls) : Commands(ctrls[i]) = {"CTRL"}
  <2>1. cmds \in Seq(Kinds) /\ cmds \in Seq({"CTRL"})
    BY ControlFacts, LinkAssumption
  <2>2. CASE cmds = <<>>
    BY <2>2
  <2>3. CASE cmds # <<>>
    <3>1. ctrls = <<cmds>>
      BY <2>3
    <3>2. Commands(cmds) = {"CTRL"}
      BY <2>1, <2>3 DEF Commands
    <3>3. Len(ctrls) = 1 /\ ctrls[1] = cmds
      BY <3>1
    <3>4. cmds \in D
      BY <2>1, <1>0
    <3>5. ctrls \in Seq(D)
      BY <3>1, <3>4
    <3> QED
      BY <3>2, <3>3, <3>5
  <2> QED
    BY <2>2, <2>3
<1>2. /\ config \in Seq(D)
      /\ Len(config) \in {0, 1}
      /\ \A i \in 1 .. Len(config) :
           CanSendBlocking /\ Commands(config[i]) = {Head(blockingCmds)}
  <2>1. CASE ~CanSendBlocking
    BY <2>1
  <2>2. CASE CanSendBlocking
    <3>1. config = << <<Head(blockingCmds)>> >> /\ Head(blockingCmds) \in Cmds
      BY <2>2, ControlFacts DEF CanSendBlocking
    <3>2. Commands(<<Head(blockingCmds)>>) = {Head(blockingCmds)}
      BY DEF Commands
    <3>3. <<Head(blockingCmds)>> \in D
      <4>1. <<Head(blockingCmds)>> \in Seq(Cmds)
        BY <3>1
      <4> QED
        BY <4>1, <1>0
    <3>4. Len(config) = 1 /\ config[1] = <<Head(blockingCmds)>>
      BY <3>1
    <3>5. config \in Seq(D)
      BY <3>1, <3>3
    <3> QED
      BY <2>2, <3>2, <3>4, <3>5
  <2> QED
    BY <2>1, <2>2
<1>3. air \in Seq(D)
  BY <1>0
<1>4. air' = air \o (ctrls \o config)
  BY DEF Datagrams
<1> HIDE DEF ctrls, config
<1> DEFINE flushed == ctrls \o config
<1>5. /\ flushed \in Seq(D) /\ Len(flushed) = Len(ctrls) + Len(config)
      /\ \A i \in 1 .. Len(flushed) :
           flushed[i] = IF i <= Len(ctrls) THEN ctrls[i] ELSE config[i - Len(ctrls)]
  BY <1>1, <1>2, ConcatProperties
<1>6. ASSUME NEW i \in 1 .. Len(flushed)
      PROVE  \/ Commands(flushed[i]) = {"CTRL"}
             \/ /\ i = Len(flushed) /\ CanSendBlocking
                /\ Commands(flushed[i]) = {Head(blockingCmds)}
  <2>1. CASE i <= Len(ctrls)
    <3>1. i \in 1 .. Len(ctrls)
      BY <2>1, <1>1
    <3> QED
      BY <2>1, <3>1, <1>1, <1>5
  <2>2. CASE i > Len(ctrls)
    <3>1. i - Len(ctrls) = 1 /\ Len(config) = 1 /\ i = Len(flushed)
      BY <2>2, <1>1, <1>2, <1>5, SMTT(30)
    <3>2. flushed[i] = config[1]
      BY <2>2, <3>1, <1>1, <1>5
    <3> QED
      BY <3>1, <3>2, <1>2
  <2>3. i <= Len(ctrls) \/ i > Len(ctrls)
    BY <1>1
  <2> QED
    BY <2>1, <2>2, <2>3
<1> HIDE DEF flushed
<1>7. /\ air' \in Seq(D) /\ Len(air') = Len(air) + Len(flushed)
      /\ Len(air) \in Nat /\ Len(flushed) \in Nat
      /\ \A i \in 1 .. Len(air') :
           air'[i] = IF i <= Len(air) THEN air[i] ELSE flushed[i - Len(air)]
  <2>1. air' = air \o flushed
    BY <1>4 DEF flushed
  <2>2. flushed \in Seq(D) /\ Len(flushed) \in Nat
    BY <1>1, <1>2, <1>5
  <2>3. /\ air \o flushed \in Seq(D)
        /\ Len(air \o flushed) = Len(air) + Len(flushed)
        /\ \A i \in 1 .. Len(air) + Len(flushed) :
             (air \o flushed)[i] = IF i <= Len(air) THEN air[i] ELSE flushed[i - Len(air)]
    BY <2>2, <1>3, ConcatProperties, Zenon
  <2>4. Len(air) \in Nat
    BY <1>3, LenProperties, Zenon
  <2> QED
    BY <2>1, <2>2, <2>3, <2>4
<1>8. ASSUME NEW i \in 1 .. Len(air'), i > Len(air)
      PROVE  \/ Commands(air'[i]) = {"CTRL"}
             \/ /\ i = Len(air') /\ CanSendBlocking
                /\ Commands(air'[i]) = {Head(blockingCmds)}
  <2>1. i - Len(air) \in 1 .. Len(flushed) /\ air'[i] = flushed[i - Len(air)]
    BY <1>7, <1>8
  <2>2. i - Len(air) = Len(flushed) => i = Len(air')
    BY <1>7
  <2> QED
    BY <2>1, <2>2, <1>6
<1>9. ASSUME NEW i \in 1 .. Len(air'), ~(i > Len(air))
      PROVE  i \in 1 .. Len(air) /\ air'[i] = air[i]
  BY <1>7, <1>9
<1>10. air' \in Seq(Seq(Kinds) \cup Seq(Cmds)) /\ Len(air') \in Nat
  BY <1>7 DEF D
<1> QED
  BY <1>7, <1>8, <1>9, <1>10

-----------------------------------------------------------------------------
\* A step that leaves the air and the drone alone, and takes back no command
\* that was sent, keeps every command once in the air.
LEMMA AirUndisturbed ==
  ASSUME OnceInAir, UNCHANGED <<air, received>>,
         \A c \in Cmds : calls[c] # <<>> \/ cmd = c => calls'[c] # <<>> \/ cmd' = c,
         received \subseteq Cmds
  PROVE  OnceInAir'
<1>1. \A c \in received : calls'[c] # <<>> \/ cmd' = c
  BY DEF OnceInAir
<1>2. \A i \in 1 .. Len(air) : \A c \in Commands(air[i]) \cap Cmds :
        calls'[c] # <<>> \/ cmd' = c
  BY DEF OnceInAir
<1>3. air' = air /\ received' = received
  OBVIOUS
<1>4. \A i \in 1 .. Len(air') :
        \/ Commands(air'[i]) = {"CTRL"}
        \/ \E c \in Cmds : Commands(air'[i]) = {c}
  BY <1>3 DEF OnceInAir
<1>5. \A i \in 1 .. Len(air') : \A c \in Commands(air'[i]) \cap Cmds :
        /\ c \notin received'
        /\ \A j \in 1 .. Len(air') : c \in Commands(air'[j]) => i = j
  BY <1>3, Zenon DEF OnceInAir
<1> QED
  BY <1>1, <1>2, <1>3, <1>4, <1>5 DEF OnceInAir

\* A datagram that leaves the air leaves the others as they are.
LEMMA AirRemoved ==
  ASSUME LinkTypeOK, OnceInAir, NEW k \in 1 .. Len(air), air' = RemoveAt(air, k),
         UNCHANGED <<calls, cmd>>,
         received' = received \/ received' = received \cup (Commands(air[k]) \ {"CTRL"})
  PROVE  /\ air' \in Seq(Seq(Kinds) \cup Seq(Cmds))
         /\ received' \subseteq Cmds
         /\ OnceInAir'
<1> DEFINE D == Seq(Kinds) \cup Seq(Cmds)
           at(i) == IF i < k THEN i ELSE i + 1
<1>1. air \in Seq(D) /\ received \subseteq Cmds
  BY DEF LinkTypeOK
<1> HIDE DEF D
<1>2. /\ air' \in Seq(D) /\ Len(air') = Len(air) - 1
      /\ \A i \in 1 .. Len(air) - 1 : air'[i] = air[at(i)]
  BY <1>1, Removed
<1>3. Len(air) \in Nat
  BY <1>1, LenProperties, Zenon
<1>4. \A i \in 1 .. Len(air') :
        at(i) \in 1 .. Len(air) /\ at(i) # k /\ air'[i] = air[at(i)]
  BY <1>2, <1>3
<1>5. \A i, j \in 1 .. Len(air') : at(i) = at(j) => i = j
  BY <1>2, <1>3
<1>6. Commands(air[k]) \ {"CTRL"} \subseteq Cmds
  <2>1. \/ Commands(air[k]) = {"CTRL"}
        \/ \E c \in Cmds : Commands(air[k]) = {c}
    BY DEF OnceInAir
  <2> QED
    BY <2>1
<1>7. received' \subseteq Cmds
  BY <1>1, <1>6
<1> HIDE DEF at
<1>8. \A c \in received' : calls'[c] # <<>> \/ cmd' = c
  BY <1>6 DEF OnceInAir
<1>9. ASSUME NEW i \in 1 .. Len(air'), NEW c \in Commands(air'[i]) \cap Cmds
      PROVE  /\ c \notin received'
             /\ calls'[c] # <<>> \/ cmd' = c
             /\ \A j \in 1 .. Len(air') : c \in Commands(air'[j]) => i = j
  <2>1. at(i) \in 1 .. Len(air) /\ at(i) # k /\ c \in Commands(air[at(i)]) \cap Cmds
    BY <1>4, <1>9
  <2>2. /\ c \notin received
        /\ calls[c] # <<>> \/ cmd = c
        /\ \A j \in 1 .. Len(air) : c \in Commands(air[j]) => at(i) = j
    BY <2>1 DEF OnceInAir
  <2>3. c \notin Commands(air[k])
    BY <2>1, <2>2
  <2>4. ASSUME NEW j \in 1 .. Len(air'), c \in Commands(air'[j]) PROVE i = j
    <3>1. at(j) \in 1 .. Len(air) /\ c \in Commands(air[at(j)])
      BY <1>4, <2>4
    <3>2. at(i) = at(j)
      BY <2>2, <3>1
    <3> QED
      BY <3>2, <1>5
  <2> QED
    BY <2>2, <2>3, <2>4
<1>10. ASSUME NEW i \in 1 .. Len(air')
       PROVE  \/ Commands(air'[i]) = {"CTRL"}
              \/ \E c \in Cmds : Commands(air'[i]) = {c}
  <2>1. at(i) \in 1 .. Len(air) /\ air'[i] = air[at(i)]
    BY <1>4
  <2> QED
    BY <2>1 DEF OnceInAir
<1>11. OnceInAir'
  BY <1>8, <1>9, <1>10 DEF OnceInAir, Commands
<1> QED
  BY <1>2, <1>7, <1>11 DEF D

\* The types of the link and the air, step by step.
LEMMA AirNext ==
  ASSUME LinkTypeOK, UdpIInv, OnceInAir, Next
  PROVE  LinkTypeOK' /\ OnceInAir'
<1> USE DEF LinkTypeOK
<1>1. ASSUME NEW c \in Cmds, ClientConfig(c) PROVE LinkTypeOK' /\ OnceInAir'
  BY <1>1, AirUndisturbed DEF ClientConfig, Config, navdata, drone, link
<1>2. CASE SendCommands
  <2> USE <1>2 DEF SendCommands, navdata, drone, link
  <2> DEFINE c == Head(blockingCmds)
  <2>1. /\ air' \in Seq(Seq(Kinds) \cup Seq(Cmds))
        /\ Len(air) \in Nat /\ Len(air') \in Nat
        /\ \A i \in 1 .. Len(air') :
             \/ i \in 1 .. Len(air) /\ air'[i] = air[i]
             \/ i > Len(air) /\ Commands(air'[i]) = {"CTRL"}
             \/ /\ i = Len(air') /\ i > Len(air)
                /\ CanSendBlocking
                /\ Commands(air'[i]) = {c}
    BY Flushed
  <2>2. UNCHANGED <<calls, received>>
    BY DEF Flush
  <2>3. CanSendBlocking =>
          c \in Cmds /\ calls[c] = <<>> /\ cmd = NONE /\ cmd' = c
    BY ControlFacts DEF CanSendBlocking, Flush,
         SendBlocking, HoldBlocking, NOT_BLOCKED
  <2>4. ~CanSendBlocking => cmd' = cmd
    BY DEF Flush, SendBlocking, HoldBlocking
  <2>5. \A d \in Cmds : calls[d] # <<>> \/ cmd = d => calls'[d] # <<>> \/ cmd' = d
    BY <2>2, <2>3, <2>4, LinkAssumption, UdpAssumption
  <2>6. CanSendBlocking =>
          /\ c \notin received
          /\ \A i \in 1 .. Len(air) : c \notin Commands(air[i])
    BY <2>3, LinkAssumption, UdpAssumption DEF OnceInAir
  <2> HIDE DEF c
  <2>7. \A d \in received' : calls'[d] # <<>> \/ cmd' = d
    BY <2>2, <2>5 DEF OnceInAir
  <2>8. ASSUME NEW i \in 1 .. Len(air')
        PROVE  Commands(air'[i]) = {"CTRL"} \/ \E d \in Cmds : Commands(air'[i]) = {d}
    BY <2>1, <2>3, ZenonT(30) DEF OnceInAir
  <2>9. ASSUME NEW i \in 1 .. Len(air'), NEW d \in Commands(air'[i]) \cap Cmds
        PROVE  /\ d \notin received'
               /\ calls'[d] # <<>> \/ cmd' = d
               /\ \A j \in 1 .. Len(air') : d \in Commands(air'[j]) => i = j
    <3>1. CASE i \in 1 .. Len(air) /\ air'[i] = air[i]
      <4>1. /\ d \notin received
            /\ calls[d] # <<>> \/ cmd = d
            /\ \A j \in 1 .. Len(air) : d \in Commands(air[j]) => i = j
        BY <3>1, <2>9 DEF OnceInAir
      <4>2. CanSendBlocking => d # c
        BY <3>1, <2>9, <2>6
      <4>3. ASSUME NEW j \in 1 .. Len(air'), d \in Commands(air'[j]) PROVE i = j
        BY <2>1, <2>9, <4>1, <4>2, <4>3, LinkAssumption, UdpAssumption, ZenonT(30)
      <4> QED
        BY <2>2, <2>5, <2>9, <4>1, <4>3
    <3>2. CASE /\ i = Len(air') /\ i > Len(air) /\ CanSendBlocking
               /\ Commands(air'[i]) = {c}
      <4>1. d = c
        BY <3>2, <2>9
      <4>2. ASSUME NEW j \in 1 .. Len(air'), d \in Commands(air'[j]) PROVE i = j
        BY <2>1, <2>3, <2>6, <3>2, <4>1, <4>2, LinkAssumption, UdpAssumption
      <4> QED
        BY <2>2, <2>3, <2>6, <3>2, <4>1, <4>2
    <3> QED
      BY <2>1, <2>9, <3>1, <3>2, LinkAssumption, UdpAssumption
  <2>10. OnceInAir'
    BY <2>7, <2>8, <2>9 DEF OnceInAir
  <2> QED
    BY <2>1, <2>10
<1>3. CASE TimerFires
  <2> USE <1>3 DEF TimerFires, navdata, drone, link
  <2>1. \A c \in Cmds : calls[c] # <<>> \/ cmd = c => calls'[c] # <<>> \/ cmd' = c
    BY ControlFacts DEF AckTimeout, CtrlTick
  <2> QED
    BY <2>1, AirUndisturbed
<1>4. ASSUME NEW i \in DOMAIN chan, NavdataArrives(i)
      PROVE  LinkTypeOK' /\ OnceInAir'
  <2> USE <1>4 DEF NavdataArrives, drone, link
  <2>1. chan' \in Seq(BOOLEAN) /\ got' \in BOOLEAN
    BY DEF Navdata!Emit
  <2>2. \A c \in Cmds : calls[c] # <<>> \/ cmd = c => calls'[c] # <<>> \/ cmd' = c
    BY ControlFacts DEF HandleAckBit, Ack, AckReset, Awaits,
         WAITING_FOR_ACK, WAITING_FOR_ACK_RESET, control
  <2> QED
    BY <2>1, <2>2, AirUndisturbed
<1>5. ASSUME NEW i \in DOMAIN chan, NavdataLost(i)
      PROVE  LinkTypeOK' /\ OnceInAir'
  <2> USE <1>5 DEF NavdataLost, control, drone, link
  <2>1. chan' \in Seq(BOOLEAN)
    BY DEF Navdata!Lose
  <2> QED
    BY <2>1, AirUndisturbed DEF Navdata!Lose
<1>6. CASE DroneSendsNavdata
  <2> USE <1>6 DEF DroneSendsNavdata, control, drone, link
  <2>1. chan' \in Seq(BOOLEAN)
    BY DEF Navdata!Send
  <2> QED
    BY <2>1, AirUndisturbed DEF Navdata!Send
<1>7. ASSUME NEW i \in DOMAIN air, DroneReceives(i)
      PROVE  LinkTypeOK' /\ OnceInAir'
  <2> USE <1>7 DEF DroneReceives, control, navdata, link
  <2>1. i \in 1 .. Len(air)
    OBVIOUS
  <2>2. /\ air' \in Seq(Seq(Kinds) \cup Seq(Cmds)) /\ received' \subseteq Cmds
        /\ OnceInAir'
    BY <2>1, AirRemoved
  <2> QED
    BY <2>2
<1>8. ASSUME NEW i \in DOMAIN air, DatagramLost(i)
      PROVE  LinkTypeOK' /\ OnceInAir'
  <2> USE <1>8 DEF DatagramLost, control, navdata, drone, link
  <2>1. i \in 1 .. Len(air)
    OBVIOUS
  <2>2. /\ air' \in Seq(Seq(Kinds) \cup Seq(Cmds)) /\ received' \subseteq Cmds
        /\ OnceInAir'
    BY <2>1, AirRemoved
  <2> QED
    BY <2>2
<1> QED
  BY <1>1, <1>2, <1>3, <1>4, <1>5, <1>6, <1>7, <1>8 DEF Next

-----------------------------------------------------------------------------
\* Once a stale bit may be about, it may be about for ever.
LEMMA ExcusedStays ==
  ASSUME LinkTypeOK, UdpIInv, Excused, Next
  PROVE  Excused'
<1>1. leftOver' = leftOver
  BY DEF Next, ClientConfig, SendCommands, TimerFires, NavdataArrives, NavdataLost,
       DroneSendsNavdata, DroneReceives, DatagramLost, link
<1>2. received \subseteq received'
  BY DEF Next, ClientConfig, SendCommands, TimerFires, NavdataArrives, NavdataLost,
       DroneSendsNavdata, DroneReceives, DatagramLost, drone
<1>3. ASSUME NEW d \in Cmds, calls[d] = <<"timeout">> PROVE calls'[d] = calls[d]
  <2>1. UdpNext \/ UNCHANGED control
    BY ControlStep
  <2>2. ASSUME Ack \/ \E t \in Cmds : AckTimeout(t)
        PROVE  calls'[d] = calls[d]
    <3>1. state = "WAITING_FOR_ACK"
      BY <2>2, ControlFacts DEF Ack, Awaits, AckTimeout,
           WAITING_FOR_ACK
    <3>2. d # cmd
      <4>1. <<>> # <<"timeout">>
        OBVIOUS
      <4> QED
        BY <3>1, <4>1, <1>3, ControlFacts
    <3> QED
      BY <2>2, <3>2, ControlFacts DEF Ack, AckTimeout
  <2> QED
    BY <2>1, <2>2 DEF UdpNext, PushCmd, Config, Flush,
         AckReset, CtrlTick, control
<1> QED
  BY <1>1, <1>2, <1>3 DEF Excused, LinkTypeOK

\* Navdata that is lost takes nothing from what the rest says.
LEMMA Thinned ==
  ASSUME Honest, LinkTypeOK, chan' \in Seq(BOOLEAN),
         NEW f \in [1 .. Len(chan') -> 1 .. Len(chan)],
         \A m, n \in 1 .. Len(chan') : m < n => f[m] < f[n],
         \A m \in 1 .. Len(chan') : chan'[m] = chan[f[m]],
         UNCHANGED <<state, cmd, calls, received, ackBit>>
  PROVE  Honest'
<1>0. Len(chan) \in Nat /\ Len(chan') \in Nat
  BY DEF LinkTypeOK
<1>1. Clear => Clear'
  BY DEF Clear
<1>2. FallsOnce => FallsOnce'
  <2> SUFFICES ASSUME FallsOnce, NEW i \in 1 .. Len(chan'), NEW j \in 1 .. Len(chan'),
                      i < j, chan'[i], ~chan'[j]
               PROVE  ~ackBit' /\ \A k \in j .. Len(chan') : ~chan'[k]
    BY DEF FallsOnce
  <2>1. f[i] < f[j] /\ chan[f[i]] /\ ~chan[f[j]]
    OBVIOUS
  <2>2. ~ackBit /\ \A k \in f[j] .. Len(chan) : ~chan[k]
    BY <2>1 DEF FallsOnce
  <2>3. ASSUME NEW k \in j .. Len(chan') PROVE ~chan'[k]
    <3>1. k \in 1 .. Len(chan') /\ (k = j \/ j < k)
      BY <1>0
    <3>2. f[k] \in f[j] .. Len(chan)
      BY <3>1, <1>0, SMTT(30)
    <3> QED
      BY <2>2, <3>1, <3>2
  <2> QED
    BY <2>2, <2>3
<1>3. ASSUME state = "WAITING_FOR_ACK_RESET", NEW i \in 1 .. Len(chan'), ~chan'[i]
      PROVE  ~ackBit' /\ \A j \in i .. Len(chan') : ~chan'[j]
  <2>1. ~ackBit /\ \A j \in f[i] .. Len(chan) : ~chan[j]
    BY <1>3 DEF Honest
  <2>2. ASSUME NEW j \in i .. Len(chan') PROVE ~chan'[j]
    <3>1. j \in 1 .. Len(chan') /\ (i = j \/ i < j)
      BY <1>0
    <3>2. f[j] \in f[i] .. Len(chan)
      BY <3>1, <1>0
    <3> QED
      BY <2>1, <3>1, <3>2
  <2> QED
    BY <2>1, <2>2
<1> QED
  BY <1>1, <1>2, <1>3 DEF Honest

\* Navdata that arrives leaves what was sent after it.
LEMMA Arrived ==
  ASSUME LinkTypeOK, NEW i \in 1 .. Len(chan), Navdata!Emit(i)
  PROVE  /\ Len(chan) \in Nat /\ Len(chan') = Len(chan) - i
         /\ chan' \in Seq(BOOLEAN)
         /\ \A m \in 1 .. Len(chan) - i : chan'[m] = chan[m + i]
BY DEF LinkTypeOK, Navdata!Emit

\* While no stale bit may be about, the set bits stay honest, or a command
\* that had timed out is received and the bit it sets is the stale one.
LEMMA HonestNext ==
  ASSUME LinkTypeOK, UdpIInv, OnceInAir, Honest, ~Excused, Next
  PROVE  Excused' \/ Honest'
<1> USE DEF LinkTypeOK
<1>1. ASSUME NEW c \in Cmds, ClientConfig(c) PROVE Honest'
  BY <1>1 DEF ClientConfig, Config, navdata, drone, link, Honest, Clear, FallsOnce
<1>2. CASE SendCommands
  <2> USE <1>2 DEF SendCommands, navdata, drone, link
  <2>1. UNCHANGED <<calls, received, chan, ackBit>>
    BY DEF Flush
  <2>2. CASE CanSendBlocking
    <3>1. state = "NOT_BLOCKED" /\ state' = "WAITING_FOR_ACK"
      BY <2>2 DEF CanSendBlocking, Flush, SendBlocking,
           HoldBlocking, NOT_BLOCKED, WAITING_FOR_ACK
    <3> QED
      BY <2>1, <3>1 DEF Honest, Clear
  <2>3. CASE ~CanSendBlocking
    <3>1. UNCHANGED <<state, cmd>>
      BY <2>3 DEF Flush, SendBlocking, HoldBlocking
    <3> QED
      BY <2>1, <3>1 DEF Honest, Clear, FallsOnce
  <2> QED
    BY <2>2, <2>3
<1>3. CASE TimerFires
  <2> USE <1>3 DEF TimerFires, navdata, drone, link
  <2>1. CASE \E t \in Cmds : CtrlTick(t)
    BY <2>1 DEF CtrlTick, Honest, Clear, FallsOnce
  <2>2. CASE \E t \in Cmds : AckTimeout(t)
    <3>1. /\ state = "WAITING_FOR_ACK" /\ cmd \in Cmds
          /\ calls[cmd] = <<>>
          /\ calls' = [calls EXCEPT ![cmd] = Append(@, "timeout")]
          /\ state' = "NOT_BLOCKED"
      BY <2>2, ControlFacts DEF AckTimeout, NOT_BLOCKED
    <3>2. Append(calls[cmd], "timeout") = <<"timeout">> /\ <<"timeout">> # <<"ok">>
      BY <3>1
    <3>3. calls'[cmd] = <<"timeout">> /\ \A d \in Cmds : d # cmd => calls'[d] = calls[d]
      BY <3>1, <3>2, ControlFacts
    <3>4. CASE cmd \in received
      BY <3>3, <3>4 DEF Excused
    <3>5. CASE cmd \notin received
      <4>1. Clear'
        BY <3>1, <3>5 DEF Honest, Clear
      <4>2. \A c \in Cmds : calls'[c] = <<"ok">> => c \in received'
        BY <3>2, <3>3 DEF Honest
      <4> QED
        BY <4>1, <4>2, <3>1 DEF Honest
    <3> QED
      BY <3>4, <3>5
  <2> QED
    BY <2>1, <2>2
<1>4. ASSUME NEW i \in DOMAIN chan, NavdataArrives(i) PROVE Honest'
  <2> USE <1>4 DEF NavdataArrives, drone, link
  <2>1. i \in 1 .. Len(chan)
    OBVIOUS
  <2>2. /\ Len(chan) \in Nat /\ Len(chan') = Len(chan) - i
        /\ chan' \in Seq(BOOLEAN)
        /\ \A m \in 1 .. Len(chan) - i : chan'[m] = chan[m + i]
    BY <2>1, Arrived
  <2>3. CASE UNCHANGED control
    <3> DEFINE f == [m \in 1 .. Len(chan') |-> m + i]
    <3>1. f \in [1 .. Len(chan') -> 1 .. Len(chan)]
      BY <2>1, <2>2
    <3>2. \A m, n \in 1 .. Len(chan') : m < n => f[m] < f[n]
      BY <2>1, <2>2
    <3>3. \A m \in 1 .. Len(chan') : chan'[m] = chan[f[m]]
      BY <2>2
    <3>4. UNCHANGED <<state, cmd, calls, received, ackBit>>
      BY <2>3 DEF control
    <3> HIDE DEF f
    <3> QED
      BY <2>2, <3>1, <3>2, <3>3, <3>4, Thinned
  <2>4. CASE chan[i] /\ Ack
    <3>1. /\ state = "WAITING_FOR_ACK" /\ state' = "WAITING_FOR_ACK_RESET"
          /\ cmd \in Cmds /\ calls[cmd] = <<>>
          /\ calls' = [calls EXCEPT ![cmd] = Append(@, "ok")]
      BY <2>4, ControlFacts DEF Ack, Awaits,
           WAITING_FOR_ACK, WAITING_FOR_ACK_RESET
    <3>2. \A d \in Cmds : d # cmd => calls'[d] = calls[d]
      BY <3>1, ControlFacts
    <3>3. cmd \in received /\ FallsOnce
      BY <2>1, <2>4, <3>1 DEF Honest, Clear
    <3>4. \A c \in Cmds : calls'[c] = <<"ok">> => c \in received'
      BY <3>2, <3>3 DEF Honest
    <3>5. ASSUME NEW m \in 1 .. Len(chan'), ~chan'[m]
          PROVE  ~ackBit' /\ \A n \in m .. Len(chan') : ~chan'[n]
      <4>1. m + i \in 1 .. Len(chan) /\ i < m + i /\ ~chan[m + i]
        BY <2>1, <2>2, <3>5
      <4>2. ~ackBit /\ \A k \in m + i .. Len(chan) : ~chan[k]
        BY <2>1, <2>4, <3>3, <4>1 DEF FallsOnce
      <4>3. ASSUME NEW n \in m .. Len(chan') PROVE ~chan'[n]
        <5>1. n \in 1 .. Len(chan) - i /\ n + i \in m + i .. Len(chan)
          BY <2>1, <2>2
        <5> QED
          BY <2>2, <4>2, <5>1
      <4> QED
        BY <4>2, <4>3
    <3> QED
      BY <3>1, <3>4, <3>5 DEF Honest
  <2>5. CASE ~chan[i] /\ AckReset
    <3>1. /\ state = "WAITING_FOR_ACK_RESET" /\ state' = "NOT_BLOCKED"
          /\ UNCHANGED <<calls, received, ackBit>>
      BY <2>5 DEF AckReset, Awaits, NOT_BLOCKED,
           WAITING_FOR_ACK_RESET
    <3>2. ~ackBit /\ \A j \in i .. Len(chan) : ~chan[j]
      BY <2>1, <2>5, <3>1 DEF Honest
    <3>3. \A m \in 1 .. Len(chan') : m + i \in i .. Len(chan) /\ m \in 1 .. Len(chan) - i
      BY <2>1, <2>2
    <3>4. Clear'
      BY <2>2, <3>1, <3>2, <3>3 DEF Clear
    <3> QED
      BY <3>1, <3>4 DEF Honest
  <2> QED
    BY <2>3, <2>4, <2>5 DEF HandleAckBit
<1>5. ASSUME NEW i \in DOMAIN chan, NavdataLost(i) PROVE Honest'
  <2> USE <1>5 DEF NavdataLost, control, drone, link
  <2>1. i \in 1 .. Len(chan) /\ Len(chan) \in Nat /\ chan' = RemoveAt(chan, i)
    BY DEF Navdata!Lose, RemoveAt
  <2>2. /\ chan' \in Seq(BOOLEAN) /\ Len(chan') = Len(chan) - 1
        /\ \A m \in 1 .. Len(chan) - 1 : chan'[m] = chan[IF m < i THEN m ELSE m + 1]
    BY <2>1, Removed
  <2> DEFINE f == [m \in 1 .. Len(chan') |-> IF m < i THEN m ELSE m + 1]
  <2>3. f \in [1 .. Len(chan') -> 1 .. Len(chan)]
    BY <2>1, <2>2
  <2>4. \A m, n \in 1 .. Len(chan') : m < n => f[m] < f[n]
    BY <2>1, <2>2
  <2>5. \A m \in 1 .. Len(chan') : chan'[m] = chan[f[m]]
    BY <2>2
  <2> HIDE DEF f
  <2> QED
    BY <2>2, <2>3, <2>4, <2>5, Thinned
<1>6. CASE DroneSendsNavdata
  <2> USE <1>6 DEF DroneSendsNavdata, control, drone, link
  <2>1. /\ Len(chan) \in Nat /\ Len(chan') = Len(chan) + 1
        /\ chan'[Len(chan')] = ackBit
        /\ \A m \in 1 .. Len(chan) : chan'[m] = chan[m]
        /\ UNCHANGED <<state, cmd, calls, received, ackBit>>
    BY DEF Navdata!Send
  <2>2. \A m \in 1 .. Len(chan') : m \in 1 .. Len(chan) \/ m = Len(chan')
    BY <2>1
  <2>3. Clear => Clear'
    BY <2>1, <2>2 DEF Clear
  <2>4. FallsOnce => FallsOnce'
    BY <2>1, <2>2 DEF FallsOnce
  <2>5. ASSUME state = "WAITING_FOR_ACK_RESET", NEW m \in 1 .. Len(chan'), ~chan'[m]
        PROVE  ~ackBit' /\ \A n \in m .. Len(chan') : ~chan'[n]
    BY <2>1, <2>2, <2>5 DEF Honest
  <2> QED
    BY <2>1, <2>3, <2>4, <2>5 DEF Honest
<1>7. ASSUME NEW i \in DOMAIN air, DroneReceives(i) PROVE Excused' \/ Honest'
  <2> USE <1>7 DEF DroneReceives, control, navdata, link
  <2>1. i \in 1 .. Len(air) /\ UNCHANGED <<state, cmd, calls, chan>>
    OBVIOUS
  <2>2. CASE Commands(air[i]) = {"CTRL"}
    <3>1. ackBit' = FALSE /\ received' = received
      BY <2>2
    <3> QED
      BY <2>1, <3>1 DEF Honest, Clear, FallsOnce
  <2>3. ASSUME NEW c \in Cmds, Commands(air[i]) = {c} PROVE Excused' \/ Honest'
    <3>1. ackBit' = TRUE /\ received' = received \cup {c}
      BY <2>3, LinkAssumption, UdpAssumption
    <3>2. c \notin received /\ (calls[c] # <<>> \/ cmd = c)
      BY <2>1, <2>3 DEF OnceInAir
    <3>3. CASE calls[c] = <<"timeout">>
      BY <2>1, <3>1, <3>3 DEF Excused
    <3>4. CASE calls[c] = <<"ok">>
      BY <3>2, <3>4 DEF Honest
    <3>5. CASE calls[c] = <<>>
      <4>1. cmd = c /\ state = "WAITING_FOR_ACK"
        BY <3>2, <3>5, ControlFacts, LinkAssumption, UdpAssumption
      <4>2. \A m \in 1 .. Len(chan) : ~chan[m]
        BY <3>2, <4>1 DEF Honest, Clear
      <4>3. FallsOnce'
        BY <2>1, <4>2 DEF FallsOnce
      <4> QED
        BY <2>1, <3>1, <4>1, <4>3 DEF Honest
    <3> QED
      BY <3>3, <3>4, <3>5, ControlFacts
  <2> QED
    BY <2>1, <2>2, <2>3 DEF OnceInAir
<1>8. ASSUME NEW i \in DOMAIN air, DatagramLost(i) PROVE Honest'
  BY <1>8 DEF DatagramLost, control, navdata, drone, link, Honest, Clear, FallsOnce
<1> QED
  BY <1>1, <1>2, <1>3, <1>4, <1>5, <1>6, <1>7, <1>8 DEF Next

-----------------------------------------------------------------------------
\* The initial states satisfy the invariant: a bit that is set at the start is
\* left over.
LEMMA InitInv == Init => IInv
<1> SUFFICES ASSUME Init PROVE IInv
  OBVIOUS
<1> USE DEF Init
<1>1. UdpIInv
  <2>1. cmds \in Seq(Kinds)
    BY LinkAssumption
  <2> QED
    BY <2>1, UdpIdle
<1>2. chan = <<>> /\ got = NONE
  BY DEF Navdata!Init
<1>3. LinkTypeOK
  BY <1>2 DEF LinkTypeOK
<1>4. OnceInAir
  BY DEF OnceInAir
<1>5. Excused \/ Honest
  BY <1>2 DEF Excused, Honest, Clear, Idle, NOT_BLOCKED
<1> QED
  BY <1>1, <1>3, <1>4, <1>5 DEF IInv

\* Every step preserves the invariant.
LEMMA NextInv == IInv /\ [Next]_vars => IInv'
<1> SUFFICES ASSUME IInv, [Next]_vars PROVE IInv'
  OBVIOUS
<1> USE DEF IInv
<1>1. CASE Next
  <2>1. UdpIInv'
    BY <1>1, ControlStep, UdpStep
  <2>2. LinkTypeOK' /\ OnceInAir'
    BY <1>1, AirNext
  <2>3. Excused' \/ Honest'
    BY <1>1, ExcusedStays, HonestNext
  <2> QED
    BY <2>1, <2>2, <2>3
<1>2. CASE UNCHANGED vars
  <2> USE <1>2 DEF vars, control, navdata, drone, link
  <2>1. UdpIInv'
    BY UdpStep
  <2>2. LinkTypeOK' /\ OnceInAir'
    BY AirUndisturbed DEF LinkTypeOK
  <2>3. (Excused \/ Honest)'
    BY DEF Excused, Honest, Clear, FallsOnce
  <2> QED
    BY <2>1, <2>2, <2>3
<1> QED
  BY <1>1, <1>2

\* The invariant holds in every reachable state.
THEOREM Invariant == Spec => []IInv
BY InitInv, NextInv, PTL DEF Spec

\* The link is type correct, for any number of commands.
THEOREM TypeCorrect == Spec => []TypeOK
<1>1. IInv => TypeOK
  BY DEF IInv, LinkTypeOK, TypeOK, UdpIInv
<1> QED
  BY <1>1, Invariant, PTL

\* Over a network that loses, an "ok" means that the drone received that very
\* command, unless a command that had timed out, or an earlier session, left
\* its ACK bit behind: one bit serves any number of commands.
THEOREM OkMeansReceived == Spec => []AckMeansReceived
<1>1. IInv => AckMeansReceived
  BY DEF IInv, Honest, Excused, AckMeansReceived
<1> QED
  BY <1>1, Invariant, PTL

\* Under the link, as alone, blocking commands go out one at a time, in the
\* order of their submission, each settled once before the next.
THEOREM LinkRefinement == Spec => ImplementsConfigQueue
<1>1. Init => Abstract!Init
  BY DEF Init, Idle, Abstract!Init
<1>2. IInv /\ [Next]_vars => [Abstract!Next]_(Abstract!vars)
  <2>1. [Next]_vars => [UdpNext]_control
    BY ControlStep DEF vars
  <2> QED
    BY <2>1, StepImplements DEF IInv
<1> QED
  BY <1>1, <1>2, Invariant, PTL DEF Spec, ImplementsConfigQueue, Abstract!Spec
=============================================================================
