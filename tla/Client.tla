------------------------------- MODULE Client -------------------------------
(***************************************************************************)
(* node drone/ar-drone/lib/Client.js: the program calls methods that only  *)
(* change the flags this._ref and this._pcmd; an interval sends the flags  *)
(* as they are at that moment, every 30 ms, and repeats the commands that  *)
(* have no acknowledgement; navdata drives the emergency bit and the       *)
(* events the callbacks of takeoff() and land() wait for.                  *)
(*                                                                         *)
(* Node runs each method, interval callback and event handler to its end:  *)
(* each is one action.                                                     *)
(*                                                                         *)
(* A callback that throws ends the process: nothing catches. animate() and *)
(* animateLeds() look their animation up only when a tick repeats them.    *)
(*                                                                         *)
(* Abstracted: of the speeds and of the four opposing pairs CONSTANTS      *)
(* choose some; the blocking commands are modules UdpControl and           *)
(* ControlLink, the video streams module VideoPipeline; the battery and    *)
(* altitude events only copy values.                                       *)
(***************************************************************************)
EXTENDS AtCommandCreator, FiniteSets, Positions

CONSTANTS
  Pairs,      \* pcmdOptions: opposing directions, <<"up", "down">>, ...
  Speeds,     \* speeds the program asks for
  Callbacks,  \* the callbacks the program passes to takeoff() and land()
  Calls,      \* calls of ftrim() and animate(), each with a repeater
  Times,      \* how often _repeat repeats a command: 10 in the code
  MaxCmds     \* bound: Calibrate adds no command to a longer _cmds

ASSUME ConstantsAssumption ==
  /\ Pairs \subseteq Keys \X Keys
  /\ \A p, q \in Pairs : p[1] # p[2] /\ (Axis(p[1]) = Axis(q[2]) <=> p = q)
  /\ Speeds \subseteq Nat
  /\ Times \in Nat \ {0}
  /\ MaxCmds \in Nat

ControlStates == {"CTRL_LANDED", "CTRL_HOVERING", "CTRL_FLYING"}
Events == {"landed", "hovering"}
Directions == UNION {{p[1], p[2]} : p \in Pairs}
Option == [key : Directions, value : Speeds]
NoMove == <<>>
NoDatagram == <<>>

\* What a repeated method creates: a command that does not block, one that
\* does, or none, since it throws.
Types == {"FTRIM", "CONFIG", "UNKNOWN"}

VARIABLES
  running,           \* resume() has set the interval and the handlers
  ref,               \* this._ref
  pcmd,              \* this._pcmd: its keys and values, in order
  repeaters,         \* this._repeaters
  disableEmergency,  \* this._disableEmergency
  lastState,         \* this._lastState
  listeners,         \* listeners[e]: callbacks registered with once(e)
  cmds,              \* types of the commands in this._udpControl._cmds
  alive,             \* the process has not ended with an exception
  told,              \* the REF and the PCMD of the datagram this step sent
  asked,             \* history: each pair's last movement since stop()
  reported,          \* history: emergencyLanding of the last navdata
  requested,         \* history: disableEmergency() was called since the last
                     \* navdata without an emergency
  airborne,          \* history: ticks since takeoff(), up to Times + 1
  repeated           \* history: how often each call's method was called

flags == <<running, ref, pcmd, disableEmergency>>
history == <<asked, reported, requested, airborne, repeated>>
vars == <<running, ref, pcmd, repeaters, disableEmergency, lastState,
          listeners, cmds, alive, told, history>>

TypeOK ==
  /\ running \in BOOLEAN
  /\ ref \in [fly : BOOLEAN, emergency : BOOLEAN]
  /\ pcmd \in Seq(Option)
  /\ repeaters \in Seq([call : Calls, times : 0 .. Times, type : Types])
  /\ alive => \A i \in DOMAIN repeaters : repeaters[i].times > 0
  /\ disableEmergency \in BOOLEAN
  /\ lastState \in ControlStates
  /\ listeners \in [Events -> SUBSET Callbacks]
  /\ cmds \in Seq({"FTRIM", "CALIB", "CTRL"})
  /\ alive \in BOOLEAN
  /\ told # NoDatagram => told.ref \in Nat /\ told.pcmd \in [1 .. 5 -> Int]
  /\ asked \in [Pairs -> Option \cup {NoMove}]
  /\ {reported, requested} \subseteq BOOLEAN
  /\ airborne \in 0 .. Times + 1
  /\ repeated \in [Calls -> 0 .. Times]

Init ==
  /\ running = FALSE
  /\ ref = [fly |-> FALSE, emergency |-> FALSE]
  /\ pcmd = <<>>
  /\ repeaters = <<>>
  /\ disableEmergency = FALSE
  /\ lastState = "CTRL_LANDED"
  /\ listeners = [e \in Events |-> {}]
  /\ cmds = <<>>
  /\ alive = TRUE
  /\ told = NoDatagram
  /\ asked = [p \in Pairs |-> NoMove]
  /\ reported = FALSE
  /\ requested = FALSE
  /\ airborne = 0
  /\ repeated = [c \in Calls |-> 0]

-----------------------------------------------------------------------------
(* The methods the program calls.                                          *)

\* createClient() calls resume() once, before it returns the client.
Resume ==
  /\ ~running
  /\ running' = TRUE
  /\ cmds' = Append(cmds, "CTRL")
  /\ disableEmergency' = TRUE
  /\ requested' = TRUE
  /\ UNCHANGED <<ref, pcmd, repeaters, lastState, listeners,
                 asked, reported, airborne, repeated>>

DisableEmergency ==
  /\ running
  /\ disableEmergency' = TRUE
  /\ requested' = TRUE
  /\ UNCHANGED <<running, ref, pcmd, repeaters, lastState, listeners,
                 cmds, asked, reported, airborne, repeated>>

\* this.once(event, cb). A callback object is passed once.
Once(event, cb) ==
  /\ \A e \in Events : cb \notin listeners[e]
  /\ listeners' = [listeners EXCEPT ![event] = @ \cup {cb}]

SetFly(fly, event, cb) ==
  /\ running
  /\ Once(event, cb)
  /\ ref' = [ref EXCEPT !.fly = fly]
  /\ airborne' = (IF fly THEN airborne ELSE 0)
  /\ UNCHANGED <<running, pcmd, repeaters, disableEmergency, lastState,
                 cmds, asked, reported, requested, repeated>>

Takeoff(cb) == SetFly(TRUE, "hovering", cb)
Land(cb) == SetFly(FALSE, "landed", cb)

SetPcmd(options) ==
  /\ running
  /\ pcmd' = options
  /\ UNCHANGED <<running, ref, repeaters, disableEmergency, lastState,
                 listeners, cmds, reported, requested, airborne, repeated>>

\* options[key] = value: a key that is there keeps its place.
Put(options, key, value) ==
  IF \E i \in DOMAIN options : options[i].key = key
  THEN [i \in DOMAIN options |->
          IF options[i].key = key THEN [options[i] EXCEPT !.value = value]
                                  ELSE options[i]]
  ELSE Append(options, [key |-> key, value |-> value])

Without(options, key) == Kept(options, {i \in DOMAIN options : options[i].key # key})

\* Mutant of Options: the opposing direction stays.
OptionsKeepingOther(key, other, speed) == Put(pcmd, key, speed)

Options(key, other, speed) == Without(Put(pcmd, key, speed), other)

\* client[key](speed), with other the key of the opposing direction. A speed
\* that is no number changes nothing.
Move(key, other, speed) ==
  /\ SetPcmd(Options(key, other, speed))
  /\ asked' = [p \in Pairs |-> IF key \in {p[1], p[2]}
                               THEN [key |-> key, value |-> speed] ELSE asked[p]]

Stop ==
  /\ SetPcmd(<<>>)
  /\ asked' = [p \in Pairs |-> NoMove]

Calibrate ==
  /\ running
  /\ Len(cmds) < MaxCmds
  /\ cmds' = Append(cmds, "CALIB")
  /\ UNCHANGED <<flags, repeaters, lastState, listeners, history>>

\* _repeat(10, fn), with fn known by the type of command it creates.
Repeat(c, type) ==
  /\ repeated[c] = 0
  /\ \A i \in DOMAIN repeaters : repeaters[i].call # c
  /\ repeaters' = Append(repeaters, [call |-> c, times |-> Times, type |-> type])
  /\ UNCHANGED <<flags, lastState, listeners, cmds, history>>

\* Mutant of CanTrim: flying is not looked at.
CanAlwaysTrim == running

CanTrim == running /\ ~ref.fly

Ftrim(c) == CanTrim /\ Repeat(c, "FTRIM")

\* animate(), animateLeds(), with an animation of the tables or another name.
Animate(c, type) == running /\ type # "FTRIM" /\ Repeat(c, type)

-----------------------------------------------------------------------------
(* The callbacks of the event loop.                                        *)

\* The REF and the PCMD of a tick, which end its datagram: the flags as they
\* are now, not as they were when they were set.
RefAndPcmd == [ref |-> Ref(ref), pcmd |-> Pcmd(pcmd)]

\* The repeaters before the first that throws are called; that one has
\* counted down before it throws, and leaves the others as they are.
Thrower == {i \in DOMAIN repeaters : repeaters[i].type = "UNKNOWN"}
Called(i) == \A t \in Thrower : i < t
CountsDown(i) == \A t \in Thrower : i <= t

\* What the repeaters push once the flags are flushed. An FTRIM does not
\* block, so it goes to _cmds and out with the next datagram.
Trims ==
  LET due == {i \in DOMAIN repeaters : Called(i) /\ repeaters[i].type = "FTRIM"}
  IN  [n \in 1 .. Cardinality(due) |-> "FTRIM"]

Spent(r) == [r EXCEPT !.times = @ - 1]

\* Mutants of HasTimes: repeats once too often, or once too seldom.
HasTimesOrNone(r) == r.times >= 0
HasMoreThanOne(r) == r.times > 1

HasTimes(r) == r.times > 0

Countdown ==
  LET counted == [i \in DOMAIN repeaters |->
                    IF CountsDown(i) THEN Spent(repeaters[i]) ELSE repeaters[i]]
  IN  IF Thrower = {}
      THEN Kept(counted, {i \in DOMAIN counted : HasTimes(counted[i])})
      ELSE counted

\* Mutant of Ticks: the interval does nothing while nothing is queued.
TicksWhenQueued == running /\ cmds # <<>>

Ticks == running

\* _sendCommands()
SendCommands ==
  /\ Ticks
  /\ told' = RefAndPcmd
  /\ cmds' = Trims
  /\ repeated' = [c \in Calls |->
       repeated[c] + Cardinality({i \in DOMAIN repeaters :
                                    Called(i) /\ repeaters[i].call = c})]
  /\ repeaters' = Countdown
  /\ alive' = (Thrower = {})
  /\ airborne' = (IF ref.fly /\ airborne <= Times THEN airborne + 1 ELSE airborne)
  /\ UNCHANGED <<flags, lastState, listeners, asked, reported, requested>>

\* The event a control state emits when it was not the last one.
Emits(cstate) ==
  {e \in Events : /\ cstate # lastState
                  /\ cstate = (IF e = "landed" THEN "CTRL_LANDED"
                                               ELSE "CTRL_HOVERING")}

\* A listener registered with once() is removed before it is called.
Emit(events) ==
  listeners' = [e \in Events |-> IF e \in events THEN {} ELSE listeners[e]]

\* Mutant of UpdateEmergency: a healthy drone leaves the request open.
UpdateEmergencyBit(emergencyLanding) ==
  /\ ref' = [ref EXCEPT !.emergency = emergencyLanding /\ disableEmergency]
  /\ UNCHANGED disableEmergency

\* An emergency keeps the request open; no emergency settles it.
UpdateEmergency(emergencyLanding) ==
  /\ ref' = [ref EXCEPT !.emergency = emergencyLanding /\ disableEmergency]
  /\ disableEmergency' = (emergencyLanding /\ disableEmergency)

\* What the histories keep of navdata.
Observe(emergencyLanding) ==
  /\ reported' = emergencyLanding
  /\ requested' = (requested /\ emergencyLanding)

\* _handleNavdata(navdata), with navdata.demo of control state cstate.
HandleNavdata(emergencyLanding, cstate) ==
  /\ running
  /\ UpdateEmergency(emergencyLanding)
  /\ Emit(Emits(cstate))
  /\ lastState' = cstate
  /\ Observe(emergencyLanding)
  /\ UNCHANGED <<running, pcmd, repeaters, cmds, asked, airborne, repeated>>

\* _handleNavdata(navdata), with navdata that has no demo option.
HandleBareNavdata(emergencyLanding) ==
  /\ running
  /\ UpdateEmergency(emergencyLanding)
  /\ Observe(emergencyLanding)
  /\ UNCHANGED <<running, pcmd, repeaters, lastState, listeners,
                 cmds, asked, airborne, repeated>>

Step ==
  \/ Resume
  \/ DisableEmergency
  \/ \E cb \in Callbacks : Takeoff(cb)
  \/ \E cb \in Callbacks : Land(cb)
  \/ \E p \in Pairs, s \in Speeds : Move(p[1], p[2], s)
  \/ \E p \in Pairs, s \in Speeds : Move(p[2], p[1], s)
  \/ Stop
  \/ Calibrate
  \/ \E c \in Calls : Ftrim(c)
  \/ \E c \in Calls, t \in Types : Animate(c, t)
  \/ \E e \in BOOLEAN, s \in ControlStates : HandleNavdata(e, s)
  \/ \E e \in BOOLEAN : HandleBareNavdata(e)

Next ==
  \/ alive /\ Step /\ told' = NoDatagram /\ UNCHANGED alive
  \/ alive /\ SendCommands

\* The interval keeps firing once resume() has set it.
Fairness == WF_vars(alive /\ SendCommands)

Spec == Init /\ [][Next]_vars
FairSpec == Spec /\ Fairness

-----------------------------------------------------------------------------
TimesLeft(c) ==
  LET mine == {i \in DOMAIN repeaters : repeaters[i].call = c}
  IN  IF mine = {} THEN 0 ELSE repeaters[CHOOSE i \in mine : TRUE].times

\* A repeated command is repeated exactly Times times, whatever other calls
\* start or end their repetitions on the same ticks: what was done and what is
\* left add up to Times from the call of _repeat on.
RepeatsExact ==
  alive => \A c \in Calls : repeated[c] + TimesLeft(c) \in {0, Times}

\* And it is repeated to the end: no other call's end drops it from the list.
\* Only an animation nobody knows stops it, and the whole process with it.
EachRepeated ==
  \A c \in Calls :
    (TimesLeft(c) > 0) ~> (repeated[c] = Times \/ (~alive /\ Thrower # {}))

\* The emergency bit stops the motors of a healthy drone. A datagram has it only
\* if the last navdata reported an emergency and someone asked to disable it
\* after the last navdata that reported none: a request made before an earlier
\* emergency was over is not taken up again in a later one.
HasEmergency(word) == (word \div REF_FLAGS.emergency) % 2 = 1
EmergencyIsRequested ==
  [][told' # NoDatagram /\ HasEmergency(told'.ref) => reported /\ requested]_vars

\* "You can't ftrim when you fly", but the repetitions of an ftrim() called on
\* the ground go on after takeoff(). They come to an end: from the tick number
\* Times + 1 after takeoff() on no FTRIM is repeated or waits to be sent, whatever
\* landings, takeoffs and other calls of ftrim() came before.
TrimsEnd ==
  alive /\ airborne > Times =>
    /\ \A i \in DOMAIN repeaters : repeaters[i].type # "FTRIM"
    /\ \A i \in DOMAIN cmds : cmds[i] # "FTRIM"

\* A PCMD tells the drone, on each axis, the movement that was asked for last
\* since stop(), and none where none was, however the calls of up(), down(),
\* ... and stop() fall between two ticks: two opposing keys in _pcmd would be
\* one argument, and the older key, not the older call, would lose.
AxisIsAsked(pair, args) ==
  IF asked[pair] = NoMove THEN ArgOf(args, pair[1]) = 0
  ELSE ArgOf(args, asked[pair].key) = Value(asked[pair])
ToldIsAsked ==
  [][told' # NoDatagram => \A p \in Pairs : AxisIsAsked(p, told'.pcmd)]_vars
=============================================================================
