---------------------------- MODULE ClientProofs ----------------------------
(***************************************************************************)
(* For any pairs of directions, speeds, callbacks, repeated calls and any  *)
(* number of repetitions: the emergency bit, which toggles the drone's     *)
(* motors, is sent only for an emergency the last navdata reported and a   *)
(* request made since the last navdata without one; a PCMD tells on each   *)
(* axis what was asked for last; a repeated command is repeated exactly as *)
(* often as it should be, until the process ends; and those of ftrim() end *)
(* soon after takeoff().                                                   *)
(*                                                                         *)
(* None is inductive. EmergencyIsOwed says of the flags what is then said  *)
(* of a datagram, and that an open request was made: the bit is set from   *)
(* it. PcmdIsAsked says of the flags what ToldIsAsked says of a datagram:  *)
(* _pcmd has the entry that was asked for last on an axis and no other,    *)
(* wherever it is among the keys. Counted adds to RepeatsExact that a call *)
(* has one repeater, so that a tick calls it once, and that the repeaters  *)
(* that are kept keep their counts. TrimsFit weighs what a repeater of an  *)
(* FTRIM has left against the ticks since takeoff().                       *)
(***************************************************************************)
EXTENDS Client, SequenceLemmas

\* What the handler of navdata works on.
Handled ==
  /\ ref \in [fly : BOOLEAN, emergency : BOOLEAN]
  /\ disableEmergency \in BOOLEAN
  /\ reported \in BOOLEAN
  /\ requested \in BOOLEAN
  /\ lastState \in ControlStates
  /\ listeners \in [Events -> SUBSET Callbacks]

\* A request is open, or the emergency bit set, only where there is reason to.
EmergencyIsOwed ==
  /\ disableEmergency => requested
  /\ ref.emergency => reported /\ requested

\* The entries of an object's keys, in whatever order.
Entries(options) == {options[i] : i \in DOMAIN options}

\* Of the two keys of a pair, this._pcmd has the one that was asked for last,
\* with its speed, or none if there was none since stop().
PcmdIsAsked ==
  \A p \in Pairs :
    {o \in Entries(pcmd) : o.key \in {p[1], p[2]}}
      = IF asked[p] = NoMove THEN {} ELSE {asked[p]}

\* While the process runs, a call has at most one repeater, and what that
\* repeater has done and has left add up; a call without one was repeated to
\* the end or not at all.
Counted ==
  alive =>
    /\ \A i, j \in DOMAIN repeaters : repeaters[i].call = repeaters[j].call => i = j
    /\ \A i \in DOMAIN repeaters :
         /\ repeaters[i].times > 0
         /\ repeated[repeaters[i].call] + repeaters[i].times = Times
    /\ \A c \in Calls :
         (\A i \in DOMAIN repeaters : repeaters[i].call # c) => repeated[c] \in {0, Times}

\* In flight the repetitions of an FTRIM that are left, and the ticks since
\* takeoff(), are at most Times together.
TrimsFit ==
  /\ airborne \in 0 .. Times + 1
  /\ ~ref.fly => airborne = 0
  /\ alive => \A i \in DOMAIN repeaters :
       repeaters[i].type = "FTRIM" => repeaters[i].times + airborne <= Times
  /\ (\E i \in DOMAIN cmds : cmds[i] = "FTRIM") => airborne <= Times

Repeater == [call : Calls, times : 0 .. Times, type : Types]
Repeating == repeaters \in Seq(Repeater) /\ repeated \in [Calls -> 0 .. Times]

\* The rest of the types.
Waiting == cmds \in Seq({"FTRIM", "CALIB", "CTRL"})
Told == told # NoDatagram => told.ref \in Nat /\ told.pcmd \in [1 .. 5 -> Int]
Steered == pcmd \in Seq(Option) /\ asked \in [Pairs -> Option \cup {NoMove}]

IInv == TypeOK /\ EmergencyIsOwed /\ PcmdIsAsked /\ Counted /\ TrimsFit

\* The parts of the invariant that navdata is about.
Answering == Handled /\ EmergencyIsOwed

-----------------------------------------------------------------------------
\* At first nothing was reported.
LEMMA AnsweringInit == Init => Answering
<1> SUFFICES ASSUME Init PROVE Answering
  OBVIOUS
<1> USE DEF Init
<1>1. listeners \in [Events -> SUBSET Callbacks]
  OBVIOUS
<1>2. ref \in [fly : BOOLEAN, emergency : BOOLEAN] /\ ~ref.emergency
  OBVIOUS
<1>3. lastState \in ControlStates
  BY DEF ControlStates
<1> QED
  BY <1>1, <1>2, <1>3 DEF Answering, Handled, EmergencyIsOwed

\* A handler of navdata settles the bit and the request together.
LEMMA EmergencyUpdated ==
  ASSUME Handled, EmergencyIsOwed, NEW e \in BOOLEAN, UpdateEmergency(e), Observe(e)
  PROVE  /\ ref' \in [fly : BOOLEAN, emergency : BOOLEAN]
         /\ disableEmergency' \in BOOLEAN
         /\ reported' \in BOOLEAN /\ requested' \in BOOLEAN
         /\ EmergencyIsOwed'
BY DEF Handled, UpdateEmergency, Observe, EmergencyIsOwed

\* Navdata and takeoff() and land() change what navdata works on; the rest
\* leaves it alone.
LEMMA AnsweringNext == Answering /\ [Next]_vars => Answering'
<1> SUFFICES ASSUME Answering, [Next]_vars PROVE Answering'
  OBVIOUS
<1> USE DEF Answering, history, flags
<1>1. ASSUME Resume \/ DisableEmergency PROVE Answering'
  BY <1>1 DEF Resume, DisableEmergency, Handled, EmergencyIsOwed
<1>2. ASSUME NEW fly \in BOOLEAN, NEW e \in Events, NEW cb \in Callbacks,
             SetFly(fly, e, cb)
      PROVE  Answering'
  <2>1. listeners' \in [Events -> SUBSET Callbacks]
    BY <1>2 DEF SetFly, Once, Handled
  <2>2. /\ ref' \in [fly : BOOLEAN, emergency : BOOLEAN]
        /\ ref'.emergency = ref.emergency
    BY <1>2 DEF SetFly, Handled
  <2> QED
    BY <1>2, <2>1, <2>2 DEF SetFly, Handled, EmergencyIsOwed
<1>3. ASSUME \/ \E p \in Pairs, s \in Speeds : Move(p[1], p[2], s)
             \/ \E p \in Pairs, s \in Speeds : Move(p[2], p[1], s)
             \/ Stop
      PROVE  Answering'
  BY <1>3 DEF Move, Stop, SetPcmd, Handled, EmergencyIsOwed
<1>4. ASSUME \/ Calibrate
             \/ \E c \in Calls : Ftrim(c)
             \/ \E c \in Calls, t \in Types : Animate(c, t)
             \/ SendCommands
      PROVE  Answering'
  <2>1. UNCHANGED <<ref, disableEmergency, reported, requested, lastState, listeners>>
    BY <1>4 DEF Calibrate, Ftrim, Animate, Repeat, SendCommands
  <2> QED
    BY <2>1 DEF Handled, EmergencyIsOwed
<1>5. ASSUME NEW e \in BOOLEAN, NEW s \in ControlStates, HandleNavdata(e, s)
      PROVE  Answering'
  <2>1. listeners' \in [Events -> SUBSET Callbacks]
    BY <1>5 DEF HandleNavdata, Emit, Handled
  <2>2. /\ ref' \in [fly : BOOLEAN, emergency : BOOLEAN]
        /\ disableEmergency' \in BOOLEAN
        /\ reported' \in BOOLEAN /\ requested' \in BOOLEAN
        /\ EmergencyIsOwed'
    BY <1>5, EmergencyUpdated DEF HandleNavdata
  <2> QED
    BY <1>5, <2>1, <2>2 DEF HandleNavdata, Handled
<1>6. ASSUME NEW e \in BOOLEAN, HandleBareNavdata(e) PROVE Answering'
  <2>1. /\ ref' \in [fly : BOOLEAN, emergency : BOOLEAN]
        /\ disableEmergency' \in BOOLEAN
        /\ reported' \in BOOLEAN /\ requested' \in BOOLEAN
        /\ EmergencyIsOwed'
    BY <1>6, EmergencyUpdated DEF HandleBareNavdata
  <2> QED
    BY <1>6, <2>1 DEF HandleBareNavdata, Handled
<1>7. CASE UNCHANGED vars
  BY <1>7 DEF vars, Handled, EmergencyIsOwed
<1>8. ASSUME NEW cb \in Callbacks, Takeoff(cb) \/ Land(cb) PROVE Answering'
  BY <1>8, <1>2 DEF Takeoff, Land, Events
<1> QED
  BY <1>1, <1>3, <1>4, <1>5, <1>6, <1>7, <1>8 DEF Next, Step

-----------------------------------------------------------------------------
\* No key is in two pairs: each pair has an axis of its own.
LEMMA PairsApart ==
  ASSUME NEW p \in Pairs
  PROVE  /\ p[1] \in Directions /\ p[2] \in Directions /\ p[1] # p[2]
         /\ \A d \in Directions :
              Axis(d) = Axis(p[1]) <=> d \in {p[1], p[2]}
         /\ \A q \in Pairs : q[1] \in {p[1], p[2]} \/ q[2] \in {p[1], p[2]} => p = q
<1>1. \A q, r \in Pairs : q[1] # q[2] /\ (Axis(q[1]) = Axis(r[2]) <=> q = r)
  BY ConstantsAssumption
<1>2. ASSUME NEW d \in Directions PROVE \E q \in Pairs : d \in {q[1], q[2]}
  BY DEF Directions
<1>3. p[1] \in Directions /\ p[2] \in Directions
  BY DEF Directions
<1>4. \A q \in Pairs : Axis(q[1]) = Axis(q[2])
  BY <1>1
<1>5. \A q \in Pairs : q[1] \in {p[1], p[2]} \/ q[2] \in {p[1], p[2]} => p = q
  BY <1>1, <1>4
<1>6. \A d \in Directions : Axis(d) = Axis(p[1]) <=> d \in {p[1], p[2]}
  BY <1>1, <1>2, <1>4
<1> QED
  BY <1>1, <1>3, <1>5, <1>6

\* Setting a key replaces its entry and leaves the others.
LEMMA PutEntries ==
  ASSUME NEW s \in Seq(Option), NEW key \in Directions, NEW speed \in Speeds
  PROVE  /\ Put(s, key, speed) \in Seq(Option)
         /\ Entries(Put(s, key, speed))
              = {o \in Entries(s) : o.key # key} \cup {[key |-> key, value |-> speed]}
<1> DEFINE new == [key |-> key, value |-> speed]
           t == Put(s, key, speed)
<1>1. new \in Option /\ new.key = key /\ Len(s) \in Nat /\ DOMAIN s = 1 .. Len(s)
  BY DEF Option
<1>2. \A i \in DOMAIN s : s[i] \in Option
  OBVIOUS
<1>3. \A o \in Option : o.key = key => [o EXCEPT !.value = speed] = new
  BY DEF Option
<1> HIDE DEF new
<1>4. CASE \E i \in DOMAIN s : s[i].key = key
  <2>1. t = [i \in 1 .. Len(s) |-> IF s[i].key = key THEN new ELSE s[i]]
    BY <1>1, <1>2, <1>3, <1>4 DEF Put
  <2>2. \A i \in 1 .. Len(s) :
          /\ t[i] = IF s[i].key = key THEN new ELSE s[i]
          /\ t[i] \in Option
    BY <1>1, <1>2, <2>1
  <2>3. t \in Seq(Option) /\ DOMAIN t = 1 .. Len(s)
    BY <1>1, <2>1, <2>2
  <2> HIDE DEF t
  <2>4. Entries(t) = {o \in Entries(s) : o.key # key} \cup {new}
    BY <1>1, <1>4, <2>2, <2>3 DEF Entries
  <2> QED
    BY <2>3, <2>4 DEF t, new
<1>5. CASE \A i \in DOMAIN s : s[i].key # key
  <2>1. t = Append(s, new)
    BY <1>5 DEF Put, new
  <2>2. /\ t \in Seq(Option) /\ DOMAIN t = 1 .. Len(s) + 1
        /\ t[Len(s) + 1] = new
        /\ \A i \in 1 .. Len(s) : t[i] = s[i]
    BY <1>1, <2>1
  <2>3. 1 .. Len(s) + 1 = (1 .. Len(s)) \cup {Len(s) + 1}
    BY <1>1
  <2> HIDE DEF t
  <2>4. Entries(t) = {o \in Entries(s) : o.key # key} \cup {new}
    BY <1>1, <1>5, <2>2, <2>3 DEF Entries
  <2> QED
    BY <2>2, <2>4 DEF t, new
<1> QED
  BY <1>4, <1>5

\* Deleting a key removes its entry and leaves the others.
LEMMA WithoutEntries ==
  ASSUME NEW s \in Seq(Option), NEW key
  PROVE  /\ Without(s, key) \in Seq(Option)
         /\ Entries(Without(s, key)) = {o \in Entries(s) : o.key # key}
<1> DEFINE P == {i \in DOMAIN s : s[i].key # key}
           t == Kept(s, P)
<1>1. P \in SUBSET DOMAIN s
  OBVIOUS
<1>2. {s[i] : i \in P} = {o \in Entries(s) : o.key # key}
  BY DEF Entries
<1>3. Without(s, key) = t
  BY DEF Without
<1> HIDE DEF P
<1>4. /\ t \in Seq(Option) /\ Len(t) = Cardinality(P)
      /\ \A k \in 1 .. Cardinality(P) :
           Ascending(P)[k] \in P /\ t[k] = s[Ascending(P)[k]]
      /\ \A i \in P : \E k \in 1 .. Cardinality(P) : Ascending(P)[k] = i
  BY <1>1, KeptProperties
<1> HIDE DEF t
<1>5. DOMAIN t = 1 .. Cardinality(P)
  BY <1>4
<1>6. Entries(t) = {s[i] : i \in P}
  <2>1. \A k \in DOMAIN t : \E i \in P : t[k] = s[i]
    BY <1>4, <1>5
  <2>2. \A i \in P : \E k \in DOMAIN t : t[k] = s[i]
    BY <1>4, <1>5
  <2> QED
    BY <2>1, <2>2 DEF Entries
<1> QED
  BY <1>2, <1>3, <1>4, <1>6

\* No movement is no option.
LEMMA NoMoveIsNone == \A o \in Option : o # NoMove
<1>1. ASSUME NEW o \in Option PROVE DOMAIN o = {"key", "value"}
  BY DEF Option
<1>2. DOMAIN NoMove = {}
  BY DEF NoMove
<1> QED
  BY <1>1, <1>2

\* A movement settles its own axis and leaves the others.
LEMMA MoveSteers ==
  ASSUME pcmd \in Seq(Option), asked \in [Pairs -> Option \cup {NoMove}],
         PcmdIsAsked, NEW q \in Pairs, NEW key, NEW other, {key, other} = {q[1], q[2]},
         NEW speed \in Speeds, Move(key, other, speed)
  PROVE  /\ pcmd' \in Seq(Option) /\ asked' \in [Pairs -> Option \cup {NoMove}]
         /\ PcmdIsAsked'
<1> DEFINE new == [key |-> key, value |-> speed]
           set == Put(pcmd, key, speed)
<1>1. /\ key \in Directions /\ other \in Directions /\ key # other
      /\ \A p \in Pairs : key \in {p[1], p[2]} <=> p = q
      /\ \A p \in Pairs : other \in {p[1], p[2]} <=> p = q
  <2>1. q[1] \in Directions /\ q[2] \in Directions /\ q[1] # q[2]
    BY PairsApart
  <2>2. \A p \in Pairs : q[1] \in {p[1], p[2]} => p = q
    BY PairsApart
  <2>3. \A p \in Pairs : q[2] \in {p[1], p[2]} => p = q
    BY PairsApart
  <2>4. (key = q[1] /\ other = q[2]) \/ (key = q[2] /\ other = q[1])
    BY <2>1
  <2> QED
    BY <2>1, <2>2, <2>3, <2>4
<1>2. new \in Option /\ new # NoMove /\ new.key = key
  BY <1>1, NoMoveIsNone DEF Option
<1>3. /\ set \in Seq(Option)
      /\ Entries(set) = {o \in Entries(pcmd) : o.key # key} \cup {new}
  BY <1>1, PutEntries
<1>4. pcmd' = Without(set, other)
  BY DEF Move, SetPcmd, Options
<1> HIDE DEF new, set
<1>5. /\ pcmd' \in Seq(Option)
      /\ Entries(pcmd') = {o \in Entries(set) : o.key # other}
  BY <1>3, <1>4, WithoutEntries
<1>6. Entries(pcmd') = {o \in Entries(pcmd) : o.key \notin {key, other}} \cup {new}
  BY <1>1, <1>2, <1>3, <1>5
<1>7. asked' = [p \in Pairs |-> IF p = q THEN new ELSE asked[p]]
  BY <1>1 DEF Move, new
<1>8. ASSUME NEW p \in Pairs
      PROVE  {o \in Entries(pcmd') : o.key \in {p[1], p[2]}}
               = IF asked'[p] = NoMove THEN {} ELSE {asked'[p]}
  <2>1. CASE p = q
    BY <1>1, <1>2, <1>6, <1>7, <2>1
  <2>2. CASE p # q
    <3>1. asked'[p] = asked[p] /\ new.key \notin {p[1], p[2]}
      BY <1>1, <1>2, <1>7, <2>2
    <3>2. \A d \in {p[1], p[2]} : d \notin {key, other}
      BY <1>1, <2>2
    <3>3. {o \in Entries(pcmd') : o.key \in {p[1], p[2]}}
            = {o \in Entries(pcmd) : o.key \in {p[1], p[2]}}
      BY <1>6, <3>1, <3>2
    <3> QED
      BY <3>1, <3>3 DEF PcmdIsAsked
  <2> QED
    BY <2>1, <2>2
<1> QED
  BY <1>2, <1>5, <1>7, <1>8 DEF PcmdIsAsked

\* stop() settles every axis.
LEMMA StopSteers ==
  ASSUME Stop
  PROVE  /\ pcmd' \in Seq(Option) /\ asked' \in [Pairs -> Option \cup {NoMove}]
         /\ PcmdIsAsked'
<1>1. pcmd' = <<>> /\ asked' = [p \in Pairs |-> NoMove]
  BY DEF Stop, SetPcmd
<1>2. Entries(pcmd') = {}
  BY <1>1 DEF Entries
<1> QED
  BY <1>1, <1>2 DEF PcmdIsAsked

-----------------------------------------------------------------------------
\* The argument for an axis is the value of a key on that axis, if there is
\* one.
Argument(options, i) ==
  LET Keyed == {n \in DOMAIN options : Axis(options[n].key) = i}
  IN  IF Keyed = {} THEN 0
      ELSE Value(options[CHOOSE n \in Keyed : \A m \in Keyed : m <= n])

LEMMA PcmdArguments ==
  ASSUME NEW s \in Seq(Option)
  PROVE  /\ Pcmd(s) \in [1 .. 5 -> Int]
         /\ \A i \in 1 .. 4 : Pcmd(s)[i + 1] = Argument(s, i)
<1>1. ASSUME NEW i PROVE Argument(s, i) \in Int
  <2> DEFINE Keyed == {n \in DOMAIN s : Axis(s[n].key) = i}
  <2>1. CASE Keyed = {}
    BY <2>1 DEF Argument
  <2>2. CASE Keyed # {}
    <3>1. Len(s) \in Nat /\ Keyed \in SUBSET (0 .. Len(s)) /\ DOMAIN s = 1 .. Len(s)
      OBVIOUS
    <3>2. \E n \in Keyed : \A m \in Keyed : m <= n
      BY <2>2, <3>1, GreatestNumber
    <3> DEFINE n == CHOOSE n \in Keyed : \A m \in Keyed : m <= n
    <3>3. n \in Keyed
      BY <3>2
    <3> HIDE DEF n
    <3>4. s[n] \in Option /\ s[n].value \in Nat
      <4>1. n \in DOMAIN s
        BY <3>3
      <4>2. s[n] \in Option
        BY <4>1
      <4> QED
        BY <4>2, ConstantsAssumption DEF Option
    <3>5. Value(s[n]) \in Int
      BY <3>4 DEF Value
    <3> QED
      BY <2>2, <3>5 DEF Argument, n
  <2> QED
    BY <2>1, <2>2
<1>2. Pcmd(s) = <<IF s = <<>> THEN 0 ELSE PCMD_FLAGS.progressive, Argument(s, 1),
                  Argument(s, 2), Argument(s, 3), Argument(s, 4)>>
  BY DEF Pcmd, Argument
<1>3. PCMD_FLAGS.progressive \in Int
  BY DEF PCMD_FLAGS
<1> QED
  BY <1>1, <1>2, <1>3

\* What a PCMD carries for the axis of a pair is what was asked for last.
LEMMA AxisTells ==
  ASSUME pcmd \in Seq(Option), PcmdIsAsked, NEW p \in Pairs
  PROVE  AxisIsAsked(p, Pcmd(pcmd))
<1> DEFINE i == Axis(p[1])
           Mine == {o \in Entries(pcmd) : o.key \in {p[1], p[2]}}
           Keyed == {n \in DOMAIN pcmd : Axis(pcmd[n].key) = i}
<1>1. i \in 1 .. 4 /\ Axis(p[2]) = i
  <2>1. p[1] \in Keys
    BY ConstantsAssumption
  <2>2. i \in 1 .. 4
    BY <2>1 DEF Axis, Keys, PCMD_ALIASES
  <2> QED
    BY <2>2, ConstantsAssumption
<1>2. \A n \in DOMAIN pcmd : Axis(pcmd[n].key) = i <=> pcmd[n].key \in {p[1], p[2]}
  <2>1. ASSUME NEW n \in DOMAIN pcmd PROVE pcmd[n].key \in Directions
    <3>1. pcmd[n] \in Option
      OBVIOUS
    <3> QED
      BY <3>1 DEF Option
  <2> QED
    BY <2>1, PairsApart
<1>3. \A n \in Keyed : pcmd[n] \in Mine
  BY <1>2 DEF Entries
<1>4. Mine # {} => Keyed # {}
  BY <1>2 DEF Entries
<1>5. Mine = IF asked[p] = NoMove THEN {} ELSE {asked[p]}
  BY DEF PcmdIsAsked
<1>6. Pcmd(pcmd)[i + 1] = Argument(pcmd, i)
  BY <1>1, PcmdArguments
<1>7. CASE asked[p] = NoMove
  <2>1. Keyed = {}
    BY <1>3, <1>5, <1>7
  <2>2. Argument(pcmd, i) = 0
    BY <2>1 DEF Argument
  <2> QED
    BY <1>6, <1>7, <2>2 DEF AxisIsAsked, ArgOf
<1>8. CASE asked[p] # NoMove
  <2>1. Keyed # {} /\ asked[p] \in Mine
    BY <1>4, <1>5, <1>8
  <2>2. \A n \in Keyed : pcmd[n] = asked[p]
    BY <1>3, <1>5, <1>8
  <2>3. \E n \in Keyed : \A m \in Keyed : m <= n
    <3>1. Len(pcmd) \in Nat /\ Keyed \in SUBSET (0 .. Len(pcmd))
      OBVIOUS
    <3> QED
      BY <2>1, <3>1, GreatestNumber
  <2>4. Argument(pcmd, i) = Value(asked[p])
    <3> DEFINE n == CHOOSE n \in Keyed : \A m \in Keyed : m <= n
    <3>1. n \in Keyed
      BY <2>3
    <3>2. Argument(pcmd, i) = Value(pcmd[n])
      BY <2>1 DEF Argument
    <3> HIDE DEF n
    <3> QED
      BY <2>2, <3>1, <3>2
  <2>5. Axis(asked[p].key) = i
    BY <1>1, <2>1
  <2> QED
    BY <1>6, <1>8, <2>4, <2>5 DEF AxisIsAsked, ArgOf
<1> QED
  BY <1>7, <1>8

-----------------------------------------------------------------------------
\* A call of ftrim() or animate() starts a count.
LEMMA RepeatCounts ==
  ASSUME Repeating, Counted, alive, NEW c \in Calls, NEW t \in Types,
         Repeat(c, t), alive' = alive
  PROVE  Repeating' /\ Counted'
<1> DEFINE new == [call |-> c, times |-> Times, type |-> t]
           n == Len(repeaters)
<1>1. new \in Repeater /\ new.call = c /\ new.times = Times /\ Times \in Nat \ {0}
  BY ConstantsAssumption DEF Repeater
<1>2. /\ n \in Nat /\ DOMAIN repeaters = 1 .. n
      /\ \A i \in 1 .. n : repeaters[i] \in Repeater
      /\ repeated \in [Calls -> 0 .. Times]
  BY DEF Repeating
<1>3. /\ repeaters' = Append(repeaters, new) /\ repeated' = repeated /\ repeated[c] = 0
      /\ \A i \in 1 .. n : repeaters[i].call # c
  BY <1>2 DEF Repeat, history
<1> HIDE DEF new
<1>4. /\ repeaters' \in Seq(Repeater) /\ DOMAIN repeaters' = 1 .. n + 1
      /\ repeaters'[n + 1] = new
      /\ \A i \in 1 .. n : repeaters'[i] = repeaters[i]
  BY <1>1, <1>2, <1>3 DEF Repeating
<1>5. Repeating'
  BY <1>2, <1>3, <1>4 DEF Repeating
<1>6. \A i \in DOMAIN repeaters' : i \in 1 .. n \/ i = n + 1
  BY <1>2, <1>4
<1>7. ASSUME NEW i \in DOMAIN repeaters', NEW j \in DOMAIN repeaters',
             repeaters'[i].call = repeaters'[j].call
      PROVE  i = j
  BY <1>1, <1>2, <1>3, <1>4, <1>6, <1>7 DEF Counted
<1>8. ASSUME NEW i \in DOMAIN repeaters'
      PROVE  /\ repeaters'[i].times > 0
             /\ repeated'[repeaters'[i].call] + repeaters'[i].times = Times
  <2>1. CASE i \in 1 .. n
    BY <1>2, <1>3, <1>4, <2>1 DEF Counted
  <2>2. CASE i = n + 1
    BY <1>1, <1>3, <1>4, <2>2
  <2> QED
    BY <1>6, <2>1, <2>2
<1>9. ASSUME NEW d \in Calls, \A i \in DOMAIN repeaters' : repeaters'[i].call # d
      PROVE  repeated'[d] \in {0, Times}
  <2>1. ASSUME NEW i \in DOMAIN repeaters PROVE repeaters[i].call # d
    <3>1. i \in 1 .. n /\ i \in DOMAIN repeaters'
      BY <1>2, <1>4
    <3> QED
      BY <1>4, <1>9, <3>1
  <2> QED
    BY <1>3, <2>1 DEF Counted
<1> QED
  BY <1>5, <1>7, <1>8, <1>9 DEF Counted

\* How often the tick calls the method of c: once if c has a repeater that is
\* called.
LEMMA CalledOnce ==
  ASSUME Repeating, Counted, alive, NEW c \in Calls
  PROVE  LET mine == {i \in DOMAIN repeaters : Called(i) /\ repeaters[i].call = c}
         IN  Cardinality(mine) = IF mine = {} THEN 0 ELSE 1
<1> DEFINE mine == {i \in DOMAIN repeaters : Called(i) /\ repeaters[i].call = c}
<1>1. CASE mine = {}
  BY <1>1, FS_EmptySet
<1>2. CASE mine # {}
  <2>1. PICK i \in mine : TRUE
    BY <1>2
  <2>2. mine = {i}
    BY <2>1 DEF Counted
  <2>3. Cardinality({i}) = 1
    BY FS_Singleton
  <2> QED
    BY <1>2, <2>2, <2>3
<1> QED
  BY <1>1, <1>2

\* A tick takes one from the count of each repeater it calls.
LEMMA TickCounts ==
  ASSUME Repeating, Counted, alive, SendCommands
  PROVE  Repeating' /\ Counted'
<1> DEFINE Mine(c) == {i \in DOMAIN repeaters : Called(i) /\ repeaters[i].call = c}
           counted == [i \in DOMAIN repeaters |->
                         IF CountsDown(i) THEN Spent(repeaters[i]) ELSE repeaters[i]]
           n == Len(repeaters)
<1>1. /\ n \in Nat /\ DOMAIN repeaters = 1 .. n /\ Times \in Nat \ {0}
      /\ \A i \in 1 .. n : /\ repeaters[i].call \in Calls
                           /\ repeaters[i].times \in 1 .. Times
                           /\ repeaters[i].type \in Types
                           /\ repeaters[i] \in Repeater
  <2>1. /\ n \in Nat /\ DOMAIN repeaters = 1 .. n /\ Times \in Nat \ {0}
        /\ \A i \in 1 .. n : repeaters[i] \in Repeater /\ repeaters[i].times > 0
    BY ConstantsAssumption DEF Repeating, Counted
  <2> QED
    BY <2>1 DEF Repeater
<1>2. repeated \in [Calls -> 0 .. Times]
  BY DEF Repeating
<1>3. ASSUME NEW c \in Calls
      PROVE  repeated'[c] = repeated[c] + (IF Mine(c) = {} THEN 0 ELSE 1)
  <2>1. repeated'[c] = repeated[c] + Cardinality(Mine(c))
    BY DEF SendCommands
  <2>2. Cardinality(Mine(c)) = IF Mine(c) = {} THEN 0 ELSE 1
    BY CalledOnce
  <2> QED
    BY <2>1, <2>2
<1>4. repeated' \in [Calls -> 0 .. Times]
  <2>1. ASSUME NEW c \in Calls PROVE repeated'[c] \in 0 .. Times
    <3>1. CASE Mine(c) = {}
      BY <1>1, <1>2, <1>3, <3>1
    <3>2. CASE Mine(c) # {}
      <4>1. PICK i \in 1 .. n : repeaters[i].call = c
        BY <1>1, <3>2
      <4>2. /\ repeaters[i].times \in 1 .. Times
            /\ repeated[c] + repeaters[i].times = Times
            /\ repeated[c] \in 0 .. Times
        BY <1>1, <1>2, <4>1 DEF Counted
      <4> DEFINE t == repeaters[i].times
                 r == repeated[c]
      <4>3. t \in Nat /\ t >= 1 /\ r \in Nat /\ r + t = Times
        BY <1>1, <4>2
      <4> HIDE DEF t, r
      <4>4. r + 1 \in 0 .. Times
        BY <1>1, <4>3
      <4> QED
        BY <1>3, <3>2, <4>4 DEF r
    <3> QED
      BY <3>1, <3>2
  <2>2. repeated' = [c \in Calls |-> repeated'[c]]
    BY DEF SendCommands
  <2> HIDE DEF Mine
  <2> QED
    BY <2>1, <2>2
<1>5. /\ counted \in Seq(Repeater) /\ DOMAIN counted = 1 .. n /\ Len(counted) = n
      /\ \A i \in 1 .. n : /\ counted[i].call = repeaters[i].call
                           /\ counted[i].times = IF CountsDown(i)
                                                 THEN repeaters[i].times - 1
                                                 ELSE repeaters[i].times
  <2>1. ASSUME NEW i \in 1 .. n
        PROVE  /\ counted[i] \in Repeater
               /\ counted[i].call = repeaters[i].call
               /\ counted[i].times = IF CountsDown(i) THEN repeaters[i].times - 1
                                                      ELSE repeaters[i].times
    <3>1. /\ Spent(repeaters[i]) \in Repeater
          /\ Spent(repeaters[i]).call = repeaters[i].call
          /\ Spent(repeaters[i]).times = repeaters[i].times - 1
      BY <1>1 DEF Spent, Repeater
    <3> QED
      BY <1>1, <3>1
  <2> QED
    BY <1>1, <2>1
<1> HIDE DEF counted
<1>6. CASE Thrower # {}
  <2>1. repeaters' = counted /\ ~alive'
    BY <1>6 DEF SendCommands, Countdown, counted
  <2> QED
    BY <1>4, <1>5, <2>1 DEF Repeating, Counted
<1>7. CASE Thrower = {}
  <2> DEFINE P == {i \in DOMAIN counted : HasTimes(counted[i])}
  <2>1. repeaters' = Kept(counted, P)
    BY <1>7 DEF SendCommands, Countdown, counted
  <2>2. \A i \in 1 .. n : /\ Called(i)
                          /\ counted[i].times = repeaters[i].times - 1
    BY <1>5, <1>7 DEF Called, CountsDown
  <2>3. ASSUME NEW c \in Calls, NEW i \in 1 .. n, repeaters[i].call = c
        PROVE  repeated'[c] + counted[i].times = Times
    <3>1. i \in Mine(c)
      BY <1>1, <2>2, <2>3
    <3>2. repeated'[c] = repeated[c] + 1
      BY <1>3, <3>1
    <3>3. repeated[c] + repeaters[i].times = Times
      BY <1>1, <2>3 DEF Counted
    <3> DEFINE t == repeaters[i].times
               r == repeated[c]
               u == counted[i].times
               q == repeated'[c]
    <3>4. t \in Int /\ r \in Int /\ r + t = Times /\ u = t - 1 /\ q = r + 1
      BY <1>1, <1>2, <2>2, <3>2, <3>3
    <3> HIDE DEF t, r, u, q
    <3>5. q + u = Times
      BY <1>1, <3>4
    <3> QED
      BY <3>5 DEF q, u
  <2>4. ASSUME NEW c \in Calls, \A i \in 1 .. n : repeaters[i].call # c
        PROVE  repeated'[c] \in {0, Times}
    <3>1. Mine(c) = {}
      BY <1>1, <2>4
    <3>2. repeated[c] \in {0, Times}
      BY <1>1, <2>4 DEF Counted
    <3> QED
      BY <1>1, <1>2, <1>3, <3>1, <3>2
  <2>5. P \in SUBSET DOMAIN counted
    OBVIOUS
  <2>6. \A i \in P : i \in 1 .. n /\ counted[i].times > 0
    BY <1>5 DEF HasTimes
  <2>7. \A i \in 1 .. n : i \in P \/ counted[i].times = 0
    <3>1. ASSUME NEW i \in 1 .. n PROVE counted[i].times \in Nat
      BY <1>1, <2>2
    <3> QED
      BY <1>5, <3>1 DEF HasTimes
  <2> HIDE DEF P, Mine
  <2>8. /\ repeaters' \in Seq(Repeater) /\ DOMAIN repeaters' = 1 .. Cardinality(P)
        /\ \A k \in 1 .. Cardinality(P) :
             Ascending(P)[k] \in P /\ repeaters'[k] = counted[Ascending(P)[k]]
        /\ \A i \in P : \E k \in 1 .. Cardinality(P) : Ascending(P)[k] = i
        /\ \A k, l \in 1 .. Cardinality(P) : Ascending(P)[k] = Ascending(P)[l] => k = l
    <3>1. /\ Kept(counted, P) \in Seq(Repeater)
          /\ Len(Kept(counted, P)) = Cardinality(P) /\ Cardinality(P) \in Nat
          /\ \A k \in 1 .. Cardinality(P) :
               Ascending(P)[k] \in P /\ Kept(counted, P)[k] = counted[Ascending(P)[k]]
          /\ \A i \in P : \E k \in 1 .. Cardinality(P) : Ascending(P)[k] = i
          /\ \A k, l \in 1 .. Cardinality(P) :
               k < l => Ascending(P)[k] < Ascending(P)[l]
      BY <1>5, <2>5, KeptProperties
    <3>2. ASSUME NEW k \in 1 .. Cardinality(P), NEW l \in 1 .. Cardinality(P),
                 Ascending(P)[k] = Ascending(P)[l]
          PROVE  k = l
      <4>1. Ascending(P)[k] \in 1 .. n /\ Ascending(P)[l] \in 1 .. n
        BY <2>6, <3>1
      <4>2. ~(k < l) /\ ~(l < k)
        BY <3>1, <3>2, <4>1
      <4> QED
        BY <4>2
    <3> QED
      BY <2>1, <3>1, <3>2
  <2>9. ASSUME NEW k \in DOMAIN repeaters'
        PROVE  /\ Ascending(P)[k] \in 1 .. n
               /\ repeaters'[k] = counted[Ascending(P)[k]]
               /\ repeaters'[k].call = repeaters[Ascending(P)[k]].call
               /\ repeaters'[k].times > 0
    BY <1>5, <2>6, <2>8
  <2>10. ASSUME NEW k \in DOMAIN repeaters', NEW l \in DOMAIN repeaters',
                repeaters'[k].call = repeaters'[l].call
         PROVE  k = l
    <3>1. Ascending(P)[k] = Ascending(P)[l]
      BY <1>1, <2>9, <2>10 DEF Counted
    <3> QED
      BY <2>8, <3>1
  <2>11. ASSUME NEW k \in DOMAIN repeaters'
         PROVE  repeated'[repeaters'[k].call] + repeaters'[k].times = Times
    BY <1>1, <2>3, <2>9
  <2>12. ASSUME NEW c \in Calls, \A k \in DOMAIN repeaters' : repeaters'[k].call # c
         PROVE  repeated'[c] \in {0, Times}
    <3>1. CASE \A i \in 1 .. n : repeaters[i].call # c
      BY <2>4, <3>1
    <3>2. CASE \E i \in 1 .. n : repeaters[i].call = c
      <4>1. PICK i \in 1 .. n : repeaters[i].call = c
        BY <3>2
      <4>2. i \notin P
        BY <2>8, <2>9, <2>12, <4>1
      <4>3. repeated'[c] + 0 = Times /\ repeated'[c] \in 0 .. Times
        BY <1>4, <2>3, <2>7, <4>1, <4>2
      <4> QED
        BY <1>1, <4>3
    <3> QED
      BY <3>1, <3>2
  <2> QED
    BY <1>4, <2>8, <2>9, <2>10, <2>11, <2>12 DEF Repeating, Counted
<1> QED
  BY <1>6, <1>7

-----------------------------------------------------------------------------
\* What a repeater has left is a number of repetitions.
LEMMA RepeaterTimes ==
  ASSUME Repeating, NEW i \in DOMAIN repeaters
  PROVE  repeaters[i] \in Repeater /\ repeaters[i].times \in 0 .. Times
<1>1. repeaters[i] \in Repeater
  BY DEF Repeating
<1> QED
  BY <1>1 DEF Repeater

\* A tick takes one repetition from each repeater it calls, as it adds one to the
\* ticks since takeoff(); what it pushes is a repetition of such a repeater.
LEMMA TickTrims ==
  ASSUME Handled, Repeating, TrimsFit, alive, SendCommands,
         \A i \in DOMAIN repeaters : repeaters[i].times > 0
  PROVE  TrimsFit'
<1> DEFINE counted == [i \in DOMAIN repeaters |->
                         IF CountsDown(i) THEN Spent(repeaters[i]) ELSE repeaters[i]]
           due == {i \in DOMAIN repeaters : Called(i) /\ repeaters[i].type = "FTRIM"}
           n == Len(repeaters)
<1>1. /\ n \in Nat /\ DOMAIN repeaters = 1 .. n /\ Times \in Nat \ {0}
      /\ \A i \in 1 .. n : repeaters[i] \in Repeater
      /\ \A i \in 1 .. n : repeaters[i].times \in Nat /\ repeaters[i].times > 0
      /\ airborne \in 0 .. Times + 1
  BY ConstantsAssumption, RepeaterTimes DEF Repeating, TrimsFit
<1>2. /\ ref' = ref /\ airborne' \in 0 .. Times + 1
      /\ airborne' \in {airborne, airborne + 1}
      /\ ~ref'.fly => airborne' = 0
  BY <1>1 DEF SendCommands, flags, TrimsFit
<1>3. ASSUME NEW i \in 1 .. n, repeaters[i].type = "FTRIM"
      PROVE  repeaters[i].times - 1 + airborne' <= Times /\ airborne' <= Times
  <2>1. repeaters[i].times + airborne <= Times
    BY <1>1, <1>3 DEF TrimsFit
  <2> DEFINE t == repeaters[i].times
             a == airborne
             b == airborne'
  <2>2. t \in Nat /\ t > 0 /\ a \in Nat /\ t + a <= Times /\ Times \in Nat
    BY <1>1, <2>1
  <2>3. b = a \/ b = a + 1
    BY <1>2
  <2> HIDE DEF t, a, b
  <2>4. t - 1 + b <= Times /\ b <= Times
    BY <2>2, <2>3
  <2> QED
    BY <2>4 DEF t, b
<1>4. ASSUME NEW k \in DOMAIN cmds', cmds'[k] = "FTRIM" PROVE airborne' <= Times
  <2>1. cmds' = [m \in 1 .. Cardinality(due) |-> "FTRIM"]
    BY DEF SendCommands, Trims
  <2>2. due # {}
    <3>1. 1 .. Cardinality(due) # {}
      BY <1>4, <2>1
    <3> QED
      BY <3>1, FS_EmptySet
  <2> QED
    BY <1>1, <1>3, <2>2
<1>5. ASSUME alive', NEW k \in DOMAIN repeaters', repeaters'[k].type = "FTRIM"
      PROVE  repeaters'[k].times + airborne' <= Times
  <2>1. Thrower = {}
    BY <1>5 DEF SendCommands
  <2> DEFINE P == {i \in DOMAIN counted : HasTimes(counted[i])}
  <2>2. repeaters' = Kept(counted, P)
    BY <2>1 DEF SendCommands, Countdown
  <2>3. ASSUME NEW i \in 1 .. n
        PROVE  /\ counted[i] \in [call : Calls, times : Int, type : Types]
               /\ counted[i].type = repeaters[i].type
               /\ counted[i].times = repeaters[i].times - 1
    <3>1. counted[i] = Spent(repeaters[i])
      BY <1>1, <2>1 DEF CountsDown
    <3> QED
      BY <1>1, <3>1 DEF Spent, Repeater
  <2>4. /\ counted \in Seq([call : Calls, times : Int, type : Types])
        /\ P \in SUBSET DOMAIN counted /\ DOMAIN counted = 1 .. n
    BY <1>1, <2>3
  <2> HIDE DEF counted, P
  <2>5. PICK i \in 1 .. n : repeaters'[k] = counted[i]
    <3>1. /\ Kept(counted, P) \in Seq([call : Calls, times : Int, type : Types])
          /\ Len(Kept(counted, P)) = Cardinality(P)
          /\ \A l \in 1 .. Cardinality(P) :
               Ascending(P)[l] \in P /\ Kept(counted, P)[l] = counted[Ascending(P)[l]]
      BY <2>4, KeptProperties
    <3>2. k \in 1 .. Cardinality(P)
      BY <1>5, <2>2, <3>1
    <3> QED
      BY <2>2, <2>4, <3>1, <3>2
  <2> QED
    BY <1>3, <1>5, <2>3, <2>5
<1> QED
  BY <1>2, <1>4, <1>5 DEF TrimsFit

\* Only on the ground a repeater of an FTRIM is added, and takeoff() starts the
\* count of ticks at none.
LEMMA TrimsNext ==
  ASSUME Handled, Repeating, Waiting, Counted, TrimsFit, [Next]_vars
  PROVE  TrimsFit'
<1> USE DEF flags, history
<1>1. ASSUME NEW c \in Calls, NEW t \in Types, Repeat(c, t), t = "FTRIM" => ~ref.fly,
             alive' = alive
      PROVE  TrimsFit'
  <2> DEFINE new == [call |-> c, times |-> Times, type |-> t]
             n == Len(repeaters)
  <2>1. /\ n \in Nat /\ DOMAIN repeaters = 1 .. n
        /\ new \in Repeater /\ new.type = t /\ new.times = Times /\ Times \in Nat
    BY ConstantsAssumption DEF Repeating, Repeater
  <2>2. repeaters' = Append(repeaters, new) /\ UNCHANGED <<ref, airborne, cmds>>
    BY <1>1 DEF Repeat
  <2> HIDE DEF new
  <2>3. /\ DOMAIN repeaters' = 1 .. n + 1
        /\ repeaters'[n + 1] = new
        /\ \A i \in 1 .. n : repeaters'[i] = repeaters[i]
    BY <2>1, <2>2 DEF Repeating
  <2>4. \A i \in DOMAIN repeaters' : i \in 1 .. n \/ i = n + 1
    BY <2>1, <2>3
  <2>5. t = "FTRIM" => new.times + airborne <= Times
    BY <1>1, <2>1 DEF TrimsFit
  <2> QED
    BY <1>1, <2>1, <2>2, <2>3, <2>4, <2>5 DEF TrimsFit
<1>2. CASE alive /\ SendCommands
  BY <1>2, TickTrims DEF Counted
<1>3. ASSUME NEW fly \in BOOLEAN, NEW e \in Events, NEW cb \in Callbacks,
             SetFly(fly, e, cb), alive' = alive
      PROVE  TrimsFit'
  <2>1. /\ airborne' = IF fly THEN airborne ELSE 0
        /\ UNCHANGED <<repeaters, cmds>>
        /\ ref'.fly = fly
    BY <1>3 DEF SetFly, Handled
  <2>2. CASE fly
    BY <1>3, <2>1, <2>2 DEF TrimsFit
  <2>3. CASE ~fly
    <3>1. airborne' = 0 /\ Times \in Nat \ {0} /\ airborne \in 0 .. Times + 1
      BY <2>1, <2>3, ConstantsAssumption DEF TrimsFit
    <3>2. ASSUME NEW i \in DOMAIN repeaters
          PROVE  repeaters[i].times \in 0 .. Times
      BY RepeaterTimes
    <3>3. ASSUME NEW i \in DOMAIN repeaters PROVE repeaters[i].times + 0 <= Times
      BY <3>1, <3>2
    <3> QED
      BY <2>1, <2>3, <3>1, <3>3 DEF TrimsFit
  <2> QED
    BY <2>2, <2>3
<1>4. CASE (Resume \/ Calibrate) /\ alive' = alive
  <2>1. /\ UNCHANGED <<ref, airborne, repeaters>>
        /\ cmds' = Append(cmds, "CTRL") \/ cmds' = Append(cmds, "CALIB")
    BY <1>4 DEF Resume, Calibrate
  <2>2. ASSUME NEW i \in DOMAIN cmds', cmds'[i] = "FTRIM"
        PROVE  i \in DOMAIN cmds /\ cmds[i] = "FTRIM"
    BY <2>1, <2>2 DEF Waiting
  <2> QED
    BY <1>4, <2>1, <2>2 DEF TrimsFit
<1>5. ASSUME UNCHANGED <<airborne, repeaters, cmds, alive>>, ref'.fly = ref.fly
      PROVE  TrimsFit'
  BY <1>5 DEF TrimsFit
<1>6. CASE Step /\ UNCHANGED alive
  <2>1. ASSUME NEW cb \in Callbacks, Takeoff(cb) \/ Land(cb) PROVE TrimsFit'
    BY <1>3, <1>6, <2>1 DEF Takeoff, Land, Events
  <2>2. ASSUME NEW c \in Calls, Ftrim(c) PROVE TrimsFit'
    BY <1>1, <1>6, <2>2 DEF Ftrim, CanTrim, Types
  <2>3. ASSUME NEW c \in Calls, NEW t \in Types, Animate(c, t) PROVE TrimsFit'
    BY <1>1, <1>6, <2>3 DEF Animate
  <2>4. ASSUME NEW e \in BOOLEAN, UpdateEmergency(e),
               UNCHANGED <<airborne, repeaters, cmds>>
        PROVE  TrimsFit'
    <3>1. ref'.fly = ref.fly
      BY <2>4 DEF UpdateEmergency, Handled
    <3> QED
      BY <1>5, <1>6, <2>4, <3>1
  <2>5. ASSUME UNCHANGED <<ref, airborne, repeaters, cmds>> PROVE TrimsFit'
    BY <1>5, <1>6, <2>5
  <2>6. \/ \E e \in BOOLEAN : /\ UpdateEmergency(e)
                              /\ UNCHANGED <<airborne, repeaters, cmds>>
        \/ UNCHANGED <<ref, airborne, repeaters, cmds>>
        \/ Resume \/ Calibrate
        \/ \E cb \in Callbacks : Takeoff(cb) \/ Land(cb)
        \/ \E c \in Calls : Ftrim(c)
        \/ \E c \in Calls, t \in Types : Animate(c, t)
    BY <1>6 DEF Step, DisableEmergency, Move, Stop, SetPcmd, HandleNavdata,
       HandleBareNavdata
  <2> QED
    BY <1>4, <1>6, <2>1, <2>2, <2>3, <2>4, <2>5, <2>6
<1>7. CASE UNCHANGED vars
  BY <1>5, <1>7 DEF vars
<1> QED
  BY <1>2, <1>6, <1>7 DEF Next

-----------------------------------------------------------------------------
\* TypeOK in its parts.
LEMMA TypeParts ==
  TypeOK <=> /\ running \in BOOLEAN /\ alive \in BOOLEAN
             /\ Handled /\ Steered /\ Waiting /\ Told /\ Repeating
             /\ airborne \in 0 .. Times + 1
             /\ (alive => \A i \in DOMAIN repeaters : repeaters[i].times > 0)
BY DEF TypeOK, Handled, Steered, Waiting, Told, Repeating, Repeater

\* What a tick tells the drone has its type.
LEMMA TellsType ==
  ASSUME Handled, Steered
  PROVE  RefAndPcmd.ref \in Nat /\ RefAndPcmd.pcmd \in [1 .. 5 -> Int]
<1>1. Ref(ref) \in Nat
  <2>1. REF_FLAGS.takeoff \in Nat /\ REF_FLAGS.emergency \in Nat
    BY DEF REF_FLAGS
  <2> QED
    BY <2>1 DEF Ref
<1>2. Pcmd(pcmd) \in [1 .. 5 -> Int]
  BY PcmdArguments DEF Steered
<1> QED
  BY <1>1, <1>2 DEF RefAndPcmd

\* What a tick leaves for the next datagram has its type.
LEMMA TrimsType == ASSUME Repeating PROVE Trims \in Seq({"FTRIM"})
<1> DEFINE due == {i \in DOMAIN repeaters : Called(i) /\ repeaters[i].type = "FTRIM"}
<1>1. due \in SUBSET DOMAIN repeaters
  OBVIOUS
<1>2. Trims = [n \in 1 .. Cardinality(due) |-> "FTRIM"]
  BY DEF Trims
<1> HIDE DEF due
<1>3. Cardinality(due) \in Nat
  BY <1>1, KeptProperties DEF Repeating
<1> QED
  BY <1>2, <1>3

\* The initial state satisfies the invariant.
LEMMA InitInv == Init => IInv
<1> SUFFICES ASSUME Init PROVE IInv
  OBVIOUS
<1>1. Answering
  BY AnsweringInit
<1>2. Steered /\ PcmdIsAsked
  <2>1. pcmd = <<>> /\ asked = [p \in Pairs |-> NoMove]
    BY DEF Init
  <2>2. Entries(pcmd) = {}
    BY <2>1 DEF Entries
  <2> QED
    BY <2>1, <2>2 DEF Steered, PcmdIsAsked
<1>3. Repeating /\ Counted /\ \A i \in DOMAIN repeaters : repeaters[i].times > 0
  BY ConstantsAssumption DEF Init, Repeating, Counted
<1>4. Told
  BY DEF Init, Told
<1>5. Waiting /\ running \in BOOLEAN /\ alive \in BOOLEAN
  <2>1. cmds = <<>> /\ running = FALSE /\ alive = TRUE
    BY Zenon DEF Init
  <2>2. Waiting
    BY <2>1 DEF Waiting
  <2>3. running \in BOOLEAN /\ alive \in BOOLEAN
    BY <2>1, Zenon
  <2> QED
    BY <2>2, <2>3
<1>6. TrimsFit
  BY ConstantsAssumption DEF Init, TrimsFit
<1>7. TypeOK
  BY <1>1, <1>2, <1>3, <1>4, <1>5, <1>6, TypeParts DEF Answering, TrimsFit
<1> QED
  BY <1>1, <1>2, <1>3, <1>6, <1>7 DEF IInv, Answering

\* Every step preserves the invariant.
LEMMA NextInv == IInv /\ [Next]_vars => IInv'
<1> SUFFICES ASSUME IInv, [Next]_vars PROVE IInv'
  OBVIOUS
<1>1. /\ running \in BOOLEAN /\ alive \in BOOLEAN
      /\ Handled /\ Steered /\ Waiting /\ Told /\ Repeating
      /\ EmergencyIsOwed /\ PcmdIsAsked /\ Counted /\ TrimsFit
  BY TypeParts DEF IInv
<1>2. Handled' /\ EmergencyIsOwed'
  BY <1>1, AnsweringNext DEF Answering
<1>3. Steered' /\ PcmdIsAsked'
  <2>1. ASSUME NEW p \in Pairs, NEW s \in Speeds,
               Move(p[1], p[2], s) \/ Move(p[2], p[1], s)
        PROVE  Steered' /\ PcmdIsAsked'
    BY <1>1, <2>1, MoveSteers DEF Steered
  <2>2. CASE Stop
    BY <2>2, StopSteers DEF Steered
  <2>3. CASE UNCHANGED <<pcmd, asked>>
    BY <1>1, <2>3 DEF Steered, PcmdIsAsked, Entries
  <2>4. \/ \E p \in Pairs, s \in Speeds : Move(p[1], p[2], s)
        \/ \E p \in Pairs, s \in Speeds : Move(p[2], p[1], s)
        \/ Stop
        \/ UNCHANGED <<pcmd, asked>>
    BY DEF Next, Step, Resume, DisableEmergency, Takeoff, Land, SetFly,
       Calibrate, Ftrim, Animate, Repeat, SendCommands, HandleNavdata,
       HandleBareNavdata, vars, flags, history
  <2> QED
    BY <2>1, <2>2, <2>3, <2>4
<1>4. Repeating' /\ Counted'
  <2>1. ASSUME NEW c \in Calls, NEW t \in Types, alive, alive' = alive, Repeat(c, t)
        PROVE  Repeating' /\ Counted'
    BY <1>1, <2>1, RepeatCounts
  <2>2. CASE alive /\ SendCommands
    BY <1>1, <2>2, TickCounts
  <2>3. CASE UNCHANGED <<repeaters, repeated, alive>>
    BY <1>1, <2>3 DEF Repeating, Counted
  <2>4. \/ \E c \in Calls, t \in Types : alive /\ alive' = alive /\ Repeat(c, t)
        \/ alive /\ SendCommands
        \/ UNCHANGED <<repeaters, repeated, alive>>
    <3>1. ASSUME NEW c \in Calls, alive, alive' = alive, Ftrim(c)
          PROVE  \E d \in Calls, t \in Types : alive /\ alive' = alive /\ Repeat(d, t)
      BY <3>1 DEF Ftrim, Types
    <3>2. ASSUME NEW c \in Calls, NEW t \in Types, alive, alive' = alive,
                 Animate(c, t)
          PROVE  \E d \in Calls, u \in Types : alive /\ alive' = alive /\ Repeat(d, u)
      BY <3>2 DEF Animate
    <3>3. \/ \E c \in Calls : alive /\ alive' = alive /\ Ftrim(c)
          \/ \E c \in Calls, t \in Types : alive /\ alive' = alive /\ Animate(c, t)
          \/ alive /\ SendCommands
          \/ UNCHANGED <<repeaters, repeated, alive>>
      BY DEF Next, Step, Resume, DisableEmergency, Takeoff, Land, SetFly,
         Move, Stop, SetPcmd, Calibrate, HandleNavdata, HandleBareNavdata,
         vars, flags, history
    <3> QED
      BY <3>1, <3>2, <3>3
  <2> QED
    BY <2>1, <2>2, <2>3, <2>4
<1>5. Waiting'
  <2>1. CASE Resume \/ Calibrate
    BY <1>1, <2>1 DEF Resume, Calibrate, Waiting
  <2>2. CASE SendCommands
    <3>1. cmds' \in Seq({"FTRIM"})
      BY <1>1, <2>2, TrimsType DEF SendCommands
    <3> QED
      BY <3>1 DEF Waiting
  <2>3. CASE UNCHANGED cmds
    BY <1>1, <2>3 DEF Waiting
  <2> QED
    BY <2>1, <2>2, <2>3
    DEF Next, Step, DisableEmergency, Takeoff, Land, SetFly, Move, Stop,
      SetPcmd, Ftrim, Animate, Repeat, HandleNavdata, HandleBareNavdata, vars
<1>6. Told'
  <2>1. CASE SendCommands
    BY <1>1, <2>1, TellsType DEF SendCommands, Told
  <2>2. CASE told' = NoDatagram \/ UNCHANGED told
    BY <1>1, <2>2 DEF Told
  <2> QED
    BY <2>1, <2>2 DEF Next, vars
<1>7. running' \in BOOLEAN /\ alive' \in BOOLEAN
  <2>1. CASE UNCHANGED vars
    BY <1>1, <2>1 DEF vars
  <2>2. CASE alive /\ SendCommands
    BY <1>1, <2>2 DEF SendCommands, flags
  <2>3. CASE Step /\ UNCHANGED alive
    BY <1>1, <2>3
    DEF Step, Resume, DisableEmergency, Takeoff, Land, SetFly, Move, Stop,
      SetPcmd, Calibrate, Ftrim, Animate, Repeat, HandleNavdata,
      HandleBareNavdata, flags
  <2> QED
    BY <2>1, <2>2, <2>3 DEF Next
<1>8. alive' => \A i \in DOMAIN repeaters' : repeaters'[i].times > 0
  BY <1>4 DEF Counted
<1>9. TrimsFit'
  BY <1>1, TrimsNext
<1>10. TypeOK'
  BY <1>2, <1>3, <1>4, <1>5, <1>6, <1>7, <1>8, <1>9
  DEF TypeOK, Handled, Steered, Waiting, Told, Repeating, Repeater, TrimsFit
<1> QED
  BY <1>2, <1>3, <1>4, <1>9, <1>10 DEF IInv

\* The invariant holds in every reachable state.
THEOREM Invariant == Spec => []IInv
BY InitInv, NextInv, PTL DEF Spec

\* The bit can be read from the number that is sent.
LEMMA BitIsFlag ==
  ASSUME NEW r \in [fly : BOOLEAN, emergency : BOOLEAN]
  PROVE  HasEmergency(Ref(r)) <=> r.emergency
<1>1. REF_FLAGS.emergency = 256 /\ REF_FLAGS.takeoff = 512
  BY DEF REF_FLAGS
<1>2. Ref(r) = (IF r.fly THEN 512 ELSE 0) + (IF r.emergency THEN 256 ELSE 0)
  BY <1>1 DEF Ref
<1>3. CASE r.emergency
  <2>1. Ref(r) = 256 \/ Ref(r) = 768
    BY <1>2, <1>3
  <2> QED
    BY <1>1, <1>3, <2>1 DEF HasEmergency
<1>4. CASE ~r.emergency
  <2>1. Ref(r) = 0 \/ Ref(r) = 512
    BY <1>2, <1>4
  <2> QED
    BY <1>1, <1>4, <2>1 DEF HasEmergency
<1> QED
  BY <1>3, <1>4

\* A datagram has the emergency bit, which would stop the motors of a healthy
\* drone, only for an emergency in the last navdata and a request that was made
\* since the last navdata without one.
THEOREM EmergencyNeedsRequest == Spec => EmergencyIsRequested
<1>1. ASSUME IInv, Next, told' # NoDatagram, HasEmergency(told'.ref)
      PROVE  reported /\ requested
  <2>1. SendCommands
    BY <1>1 DEF Next
  <2>2. told'.ref = Ref(ref)
    BY <2>1 DEF SendCommands, RefAndPcmd
  <2>3. ref \in [fly : BOOLEAN, emergency : BOOLEAN] /\ EmergencyIsOwed
    BY <1>1 DEF IInv, TypeOK
  <2> QED
    BY <1>1, <2>2, <2>3, BitIsFlag DEF EmergencyIsOwed
<1>2. IInv /\ [Next]_vars
        => [told' # NoDatagram /\ HasEmergency(told'.ref)
              => reported /\ requested]_vars
  BY <1>1
<1> QED
  BY <1>2, Invariant, PTL DEF Spec, EmergencyIsRequested

\* From tick number Times + 1 after takeoff() on no FTRIM is repeated or waits
\* to be sent, for any number of repetitions and of calls of ftrim().
THEOREM TrimsComeToAnEnd == Spec => []TrimsEnd
<1>1. IInv => TrimsEnd
  <2> SUFFICES ASSUME IInv, alive, airborne > Times
               PROVE  /\ \A i \in DOMAIN repeaters : repeaters[i].type # "FTRIM"
                      /\ \A i \in DOMAIN cmds : cmds[i] # "FTRIM"
    BY DEF TrimsEnd
  <2>1. Repeating /\ TrimsFit /\ airborne \in Int /\ Times \in Nat
    BY TypeParts, ConstantsAssumption DEF IInv, TrimsFit
  <2>2. ASSUME NEW i \in DOMAIN repeaters PROVE repeaters[i].type # "FTRIM"
    <3>1. repeaters[i].times \in Nat
      BY <2>1, RepeaterTimes
    <3>2. ~(repeaters[i].times + airborne <= Times)
      BY <2>1, <3>1
    <3> QED
      BY <2>1, <3>2 DEF TrimsFit
  <2> QED
    BY <2>1, <2>2 DEF TrimsFit
<1> QED
  BY <1>1, Invariant, PTL

\* Every variable keeps its type, for any pairs and any number of repetitions.
THEOREM TypeInvariant == Spec => []TypeOK
BY Invariant, PTL DEF IInv

\* While the process runs, every call of ftrim() and animate() has its command
\* repeated exactly Times times, whichever others start and end meanwhile.
THEOREM RepetitionsAreExact == Spec => []RepeatsExact
<1>1. IInv => RepeatsExact
  <2> SUFFICES ASSUME IInv, alive, NEW c \in Calls
               PROVE  repeated[c] + TimesLeft(c) \in {0, Times}
    BY DEF RepeatsExact
  <2> DEFINE mine == {i \in DOMAIN repeaters : repeaters[i].call = c}
  <2>1. Repeating /\ Counted
    BY TypeParts DEF IInv
  <2>2. CASE mine = {}
    <3>1. repeated[c] \in {0, Times} /\ repeated[c] \in Nat
      BY <2>1, <2>2, ConstantsAssumption DEF Counted, Repeating
    <3>2. TimesLeft(c) = 0
      BY <2>2 DEF TimesLeft
    <3> QED
      BY <3>1, <3>2
  <2>3. CASE mine # {}
    <3>1. \A i \in mine : repeated[c] + repeaters[i].times = Times
      BY <2>1 DEF Counted
    <3>2. TimesLeft(c) = repeaters[CHOOSE i \in mine : TRUE].times
      BY <2>3 DEF TimesLeft
    <3>3. (CHOOSE i \in mine : TRUE) \in mine
      BY <2>3
    <3> QED
      BY <3>1, <3>2, <3>3
  <2> QED
    BY <2>2, <2>3
<1> QED
  BY <1>1, Invariant, PTL

\* Each PCMD the drone is sent carries, on each axis, the movement that was
\* asked for last, however the calls fall between the ticks.
THEOREM DroneIsToldWhatWasAsked == Spec => ToldIsAsked
<1>1. ASSUME IInv, Next, told' # NoDatagram, NEW p \in Pairs
      PROVE  AxisIsAsked(p, told'.pcmd)
  <2>1. SendCommands
    BY <1>1 DEF Next
  <2>2. told'.pcmd = Pcmd(pcmd)
    BY <2>1 DEF SendCommands, RefAndPcmd
  <2>3. pcmd \in Seq(Option) /\ PcmdIsAsked
    BY <1>1 DEF IInv, TypeOK
  <2> QED
    BY <2>2, <2>3, AxisTells
<1>2. IInv /\ [Next]_vars
        => [told' # NoDatagram => \A p \in Pairs : AxisIsAsked(p, told'.pcmd)]_vars
  BY <1>1
<1> QED
  BY <1>2, Invariant, PTL DEF Spec, ToldIsAsked
=============================================================================
