------------------------ MODULE GroundStationProofs ------------------------
(***************************************************************************)
(* Proofs about the ground station: the connection its threads share, the  *)
(* Detector and the ValidFrame that the Detector asks.                     *)
(*                                                                         *)
(* For any set of threads and any number of messages: no thread opens two  *)
(* connections, the shutdown hooks close every connection in use, and      *)
(* messages keep their order unless two threads raced for the singleton.   *)
(* OneEach is not inductive: it needs to know that a thread which found    *)
(* null has opened none. Published says that whoever opened a connection   *)
(* is about to publish it, or the static field is set and stays so;        *)
(* NewComers, that a thread in the constructor has opened none; Registered *)
(* ties hooks to connections before and during the exit.                   *)
(*                                                                         *)
(* For a ring of any length: ValidFrame is a window over the last frames,  *)
(* and getValidator() says whether enough of them had the marker. The      *)
(* range of pozicija is the whole inductive invariant; the rest is where   *)
(* the i-th oldest frame is before and after a step.                       *)
(*                                                                         *)
(* For any frames the camera can show, any length of the ring and any      *)
(* threshold: the marker whose direction is computed exists, the message   *)
(* "drone_center" goes out exactly while the marker is steady, and only a  *)
(* steady marker on an axis ends the video thread. SteadyHasMarker is not  *)
(* inductive, as it says nothing of a ring with too few frames: Remembered *)
(* ties marker to each frame the ring holds.                               *)
(***************************************************************************)
EXTENDS GroundStation, Detector, FiniteSetTheorems, TLAPS

Published ==
  \A i \in Opened : \/ socketInstance # NONE
                    \/ pc[opener[i]] = "assign" /\ mine[opener[i]] = i

NewComers ==
  \A t \in Threads :
    /\ pc[t] # "idle" => calls[t] # 0
    /\ pc[t] = "construct" => \A i \in Opened : opener[i] # t
    /\ pc[t] = "assign" => mine[t] # NONE
    /\ pc[t] = "return" => socketInstance # NONE
    /\ pc[t] \in {"stream", "println"} => mine[t] # NONE

Registered ==
  /\ ~exiting => hooks = Opened
  /\ exiting => owed \subseteq hooks \cup closed

IInv == TypeOK /\ Published /\ NewComers /\ Registered /\ OneEach

-----------------------------------------------------------------------------
\* The initial state satisfies the invariant.
LEMMA InitInv == Init => IInv
<1> SUFFICES ASSUME Init PROVE IInv
  OBVIOUS
<1> USE BoundsAssumption DEF Init, Opened
<1>1. Opened = {} /\ opener \in Seq(Threads) /\ Len(opener) = 0
  OBVIOUS
<1>2. received \in Seq(Message) /\ wire \in [Connections -> Seq(Message)]
  <2>1. <<>> \in Seq(Message)
    OBVIOUS
  <2> QED
    BY <2>1
<1>3. /\ calls \in [Threads -> 0 .. MaxCalls]
      /\ mine \in [Threads -> Opened \cup {NONE}]
      /\ Len(opener) <= MaxOpened
  BY <1>1
<1>4. {scriptAlive, exiting, raced} \subseteq BOOLEAN
  OBVIOUS
<1>5. TypeOK
  BY <1>1, <1>2, <1>3, <1>4 DEF TypeOK
<1> QED
  BY <1>1, <1>5
     DEF IInv, Published, NewComers, Registered, OneEach, IsInjective

\* Every step preserves the invariant.
LEMMA NextInv == IInv /\ [Next]_vars => IInv'
<1> SUFFICES ASSUME IInv, [Next]_vars PROVE IInv'
  OBVIOUS
<1> USE BoundsAssumption DEF IInv, At, Goto, Opened, network, exit
<1>1. ASSUME NEW t \in Threads, Call(t) PROVE IInv'
  <2> USE <1>1 DEF Call
  <2>1. TypeOK'
    BY DEF TypeOK
  <2>2. Published' /\ NewComers' /\ Registered' /\ OneEach'
    BY DEF TypeOK, Published, NewComers, Registered, OneEach
  <2> QED
    BY <2>1, <2>2
<1>2. ASSUME NEW t \in Threads, Check(t) PROVE IInv'
  <2> USE <1>2 DEF Check, IsNull
  <2>1. TypeOK'
    BY DEF TypeOK
  <2>2. Published' /\ NewComers' /\ Registered' /\ OneEach'
    BY DEF TypeOK, Published, NewComers, Registered, OneEach
  <2> QED
    BY <2>1, <2>2
<1>3. ASSUME NEW t \in Threads, Connect(t) PROVE IInv'
  <2> USE <1>3 DEF Connect
  <2>1. /\ Len(opener') = Len(opener) + 1
        /\ DOMAIN opener' = DOMAIN opener \cup {Len(opener')}
        /\ Len(opener') \notin DOMAIN opener
        /\ opener'[Len(opener')] = t
        /\ \A i \in DOMAIN opener : opener'[i] = opener[i]
    BY DEF TypeOK
  <2>2. mine'[t] = Len(opener') /\ Len(opener') # NONE
    BY <2>1 DEF TypeOK
  <2>3. TypeOK'
    BY <2>1, <2>2 DEF TypeOK
  <2>4. Published'
    BY <2>1, <2>2 DEF TypeOK, Published
  <2>5. NewComers'
    BY <2>1, <2>2 DEF TypeOK, NewComers
  <2>6. Registered'
    BY <2>1, <2>2 DEF TypeOK, Registered
  <2>7. OneEach'
    BY <2>1 DEF NewComers, OneEach, IsInjective
  <2> QED
    BY <2>3, <2>4, <2>5, <2>6, <2>7
<1>4. ASSUME NEW t \in Threads, Refused(t) \/ TooLate(t) PROVE IInv'
  <2> USE <1>4 DEF Refused, TooLate
  <2>1. TypeOK'
    BY DEF TypeOK
  <2>2. Published' /\ NewComers' /\ Registered' /\ OneEach'
    BY DEF TypeOK, Published, NewComers, Registered, OneEach
  <2> QED
    BY <2>1, <2>2
<1>5. ASSUME NEW t \in Threads, Assign(t) PROVE IInv'
  <2> USE <1>5 DEF Assign
  <2>1. TypeOK'
    BY DEF TypeOK
  <2>2. Published' /\ NewComers' /\ Registered' /\ OneEach'
    BY DEF TypeOK, Published, NewComers, Registered, OneEach
  <2> QED
    BY <2>1, <2>2
<1>6. ASSUME NEW t \in Threads, Return(t) PROVE IInv'
  <2> USE <1>6 DEF Return
  <2>1. TypeOK'
    BY DEF TypeOK
  <2>2. Published' /\ NewComers' /\ Registered' /\ OneEach'
    BY DEF TypeOK, Published, NewComers, Registered, OneEach
  <2> QED
    BY <2>1, <2>2
<1>7. ASSUME NEW t \in Threads, Stream(t) PROVE IInv'
  <2> USE <1>7 DEF Stream
  <2>1. mine[t] \in Opened
    BY DEF TypeOK, NewComers
  <2>2. TypeOK'
    BY <2>1 DEF TypeOK
  <2>3. Published' /\ NewComers' /\ Registered' /\ OneEach'
    BY DEF TypeOK, Published, NewComers, Registered, OneEach
  <2> QED
    BY <2>2, <2>3
<1>8. ASSUME NEW t \in Threads, Println(t) PROVE IInv'
  <2> USE <1>8 DEF Println
  <2>1. Current(t) \in Message
    BY DEF TypeOK, NewComers, Message, Current
  <2>2. wire' \in [Connections -> Seq(Message)]
    <3>1. CASE wire' = [wire EXCEPT ![mine[t]] = Append(@, Current(t))]
      <4>1. \A s \in Seq(Message) : Append(s, Current(t)) \in Seq(Message)
        BY <2>1
      <4> QED
        BY <3>1, <4>1, <2>1 DEF TypeOK
    <3>2. CASE UNCHANGED wire
      BY <3>2, <2>1 DEF TypeOK
    <3> QED
      BY <3>1, <3>2
  <2>3. TypeOK'
    BY <2>2 DEF TypeOK
  <2>4. Published' /\ NewComers' /\ Registered' /\ OneEach'
    BY DEF TypeOK, Published, NewComers, Registered, OneEach
  <2> QED
    BY <2>3, <2>4
<1>9. ASSUME ExitBegins PROVE IInv'
  <2> USE <1>9 DEF ExitBegins
  <2>1. TypeOK'
    BY DEF TypeOK
  <2>2. Published' /\ NewComers' /\ Registered' /\ OneEach'
    BY DEF TypeOK, Published, NewComers, Registered, OneEach
  <2> QED
    BY <2>1, <2>2
<1>10. ASSUME NEW c \in Connections, RunHook(c) PROVE IInv'
  <2> USE <1>10 DEF RunHook, Closes
  <2>1. TypeOK'
    BY DEF TypeOK
  <2>2. Published' /\ NewComers' /\ Registered' /\ OneEach'
    BY DEF TypeOK, Published, NewComers, Registered, OneEach
  <2> QED
    BY <2>1, <2>2
<1>11. ASSUME NEW c \in Connections, Data(c) PROVE IInv'
  <2> USE <1>11 DEF Data
  <2>1. Head(wire[c]) \in Message /\ Tail(wire[c]) \in Seq(Message)
    BY DEF TypeOK
  <2>2. TypeOK'
    BY <2>1 DEF TypeOK
  <2>3. Published' /\ NewComers' /\ Registered' /\ OneEach'
    BY DEF TypeOK, Published, NewComers, Registered, OneEach
  <2> QED
    BY <2>2, <2>3
<1>12. ASSUME ScriptStarts PROVE IInv'
  <2> USE <1>12 DEF ScriptStarts
  <2>1. TypeOK'
    BY DEF TypeOK
  <2>2. Published' /\ NewComers' /\ Registered' /\ OneEach'
    BY DEF TypeOK, Published, NewComers, Registered, OneEach
  <2> QED
    BY <2>1, <2>2
<1>13. ASSUME ScriptEnds PROVE IInv'
  <2> USE <1>13 DEF ScriptEnds
  <2>1. wire' \in [Connections -> Seq(Message)]
    OBVIOUS
  <2>2. TypeOK'
    BY <2>1 DEF TypeOK
  <2>3. Published' /\ NewComers' /\ Registered' /\ OneEach'
    BY DEF TypeOK, Published, NewComers, Registered, OneEach
  <2> QED
    BY <2>2, <2>3
<1>14. CASE UNCHANGED vars
  BY <1>14 DEF vars, TypeOK, Published, NewComers, Registered, OneEach
<1> QED
  BY <1>1, <1>2, <1>3, <1>4, <1>5, <1>6, <1>7, <1>8, <1>9, <1>10, <1>11,
     <1>12, <1>13, <1>14 DEF Next, GetInstance, SendMessage

\* The invariant holds in every reachable state.
THEOREM Invariant == Spec => []IInv
BY InitInv, NextInv, PTL DEF Spec

\* The model of SocketMessage is type correct.
THEOREM TypeCorrect == Spec => []TypeOK
<1>1. IInv => TypeOK
  BY DEF IInv
<1> QED
  BY <1>1, Invariant, PTL

\* However many threads call getInstance() without synchronization, and however
\* often they call it again because the script refused, each opens at most one
\* connection.
THEOREM OneConnectionEach == Spec => []OneEach
<1>1. IInv => OneEach
  BY DEF IInv
<1> QED
  BY <1>1, Invariant, PTL

\* The shutdown hooks close every connection in use when the exit began, the
\* ones that lost the race for the static field included.
THEOREM InUseIsClosed == Spec => []ClosedAtExit
<1>1. IInv => ClosedAtExit
  BY DEF IInv, Registered, ClosedAtExit, Halted
<1> QED
  BY <1>1, Invariant, PTL
-----------------------------------------------------------------------------
(* The order of messages. Until two threads raced, one thread at a time    *)
(* constructs and there is one connection (Alone), so all messages are in  *)
(* one pipeline: a thread's next one, its ones on the wire, its received   *)
(* ones (InOrder).                                                         *)

Sorted(s) ==
  \A i, j \in 1 .. Len(s) : i < j /\ s[i].by = s[j].by => s[i].n < s[j].n

Alone ==
  /\ Len(opener) <= 1
  /\ \A t \in Threads : Constructing(t) =>
       /\ socketInstance = NONE
       /\ \A u \in Threads : Constructing(u) => u = t

\* A message that was sent: its thread has a later number, or is done with it.
Sent(m, at, number) ==
  /\ m.n <= number[m.by]
  /\ at[m.by] \notin {"idle", "dead"} => m.n < number[m.by]

InOrder ==
  /\ Sorted(received)
  /\ \A i \in 1 .. Len(received) : Sent(received[i], pc, calls)
  /\ \A c \in Connections :
       /\ wire[c] # <<>> => c = 1
       /\ Sorted(wire[c])
       /\ \A j \in 1 .. Len(wire[c]) :
            /\ Sent(wire[c][j], pc, calls)
            /\ \A i \in 1 .. Len(received) :
                 received[i].by = wire[c][j].by => received[i].n < wire[c][j].n

OInv == raced \/ (Alone /\ InOrder)

\* Appending a later message keeps a sequence in order.
LEMMA AppendSorted ==
  ASSUME NEW s \in Seq(Message), NEW m \in Message, Sorted(s),
         \A i \in 1 .. Len(s) : s[i].by = m.by => s[i].n < m.n
  PROVE  Sorted(Append(s, m))
<1>1. /\ Len(Append(s, m)) = Len(s) + 1
      /\ Append(s, m)[Len(s) + 1] = m
      /\ \A i \in 1 .. Len(s) : Append(s, m)[i] = s[i]
  OBVIOUS
<1>2. \A i \in 1 .. Len(s) + 1 : i \in 1 .. Len(s) \/ i = Len(s) + 1
  OBVIOUS
<1> QED
  BY <1>1, <1>2 DEF Sorted

\* The tail of a sequence in order is in order, and after its head.
LEMMA TailSorted ==
  ASSUME NEW s \in Seq(Message), s # <<>>, Sorted(s)
  PROVE  /\ Sorted(Tail(s))
         /\ Len(Tail(s)) = Len(s) - 1
         /\ \A i \in 1 .. Len(Tail(s)) :
              /\ i + 1 \in 1 .. Len(s)
              /\ Tail(s)[i] = s[i + 1]
              /\ Head(s).by = Tail(s)[i].by => Head(s).n < Tail(s)[i].n
<1>1. /\ Len(Tail(s)) = Len(s) - 1
      /\ Len(s) \in Nat \ {0}
      /\ Head(s) = s[1]
      /\ \A i \in 1 .. Len(Tail(s)) : Tail(s)[i] = s[i + 1]
  OBVIOUS
<1>2. \A i \in 1 .. Len(Tail(s)) : i + 1 \in 1 .. Len(s) /\ 1 < i + 1
  BY <1>1
<1> QED
  BY <1>1, <1>2 DEF Sorted

LEMMA InitOrder == Init => OInv
  BY DEF Init, OInv, Alone, InOrder, Sorted, Constructing

\* What is sent stays sent when only other things change, or a thread starts
\* its next message.
LEMMA StaySent ==
  ASSUME TypeOK, InOrder, UNCHANGED <<wire, received>>,
         \A m \in Message : Sent(m, pc, calls) => Sent(m, pc', calls')
  PROVE  InOrder'
<1>1. \A i \in 1 .. Len(received) : received[i] \in Message
  BY DEF TypeOK
<1>2. \A c \in Connections : \A j \in 1 .. Len(wire[c]) : wire[c][j] \in Message
  BY DEF TypeOK
<1> QED
  BY <1>1, <1>2 DEF InOrder, Sorted

\* Every step keeps messages in order until a race.
LEMMA NextOrder == IInv /\ OInv /\ [Next]_vars => OInv'
<1> SUFFICES ASSUME IInv, OInv, [Next]_vars PROVE OInv'
  OBVIOUS
<1>0. raced => raced'
  BY DEF IInv, TypeOK, Next, GetInstance, SendMessage, Call, Check, Connect,
         Refused, TooLate, Assign, Return, Stream, Println, ExitBegins,
         RunHook, Data, ScriptStarts, ScriptEnds, vars
<1> SUFFICES ASSUME ~raced' PROVE Alone' /\ InOrder'
  BY DEF OInv
<1> USE DEF At, Goto, Opened, network, exit
<1>a. TypeOK /\ Published /\ NewComers /\ Alone /\ InOrder
  BY <1>0 DEF OInv, IInv
<1>b. \A m \in Message : m.by \in Threads /\ m.n \in Nat
  BY BoundsAssumption DEF Message
<1>1. ASSUME NEW t \in Threads, Call(t) PROVE Alone' /\ InOrder'
  <2>1. \A m \in Message : Sent(m, pc, calls) => Sent(m, pc', calls')
    BY <1>a, <1>b, <1>1, BoundsAssumption DEF Call, TypeOK, Sent
  <2> QED
    BY <1>a, <1>1, <2>1, StaySent DEF Call, Alone, Constructing, TypeOK
<1>2. ASSUME NEW t \in Threads, Check(t) PROVE Alone' /\ InOrder'
  <2>1. \A m \in Message : Sent(m, pc, calls) => Sent(m, pc', calls')
    BY <1>a, <1>b, <1>2, BoundsAssumption DEF Check, TypeOK, Sent
  <2>2. InOrder'
    BY <1>a, <1>2, <2>1, StaySent DEF Check
  <2>3. CASE pc' = [pc EXCEPT ![t] = "construct"]
    <3>1. socketInstance = NONE /\ \A u \in Threads : ~Constructing(u)
      BY <1>2, <2>3, <1>a DEF Check, IsNull, TypeOK
    <3> QED
      BY <1>a, <1>2, <2>2, <2>3, <3>1 DEF Check, Alone, Constructing, TypeOK
  <2>4. CASE pc' = [pc EXCEPT ![t] = "return"]
    BY <1>a, <1>2, <2>2, <2>4 DEF Check, Alone, Constructing, TypeOK
  <2> QED
    BY <1>2, <2>3, <2>4 DEF Check
<1>3. ASSUME NEW t \in Threads, Connect(t) PROVE Alone' /\ InOrder'
  <2>1. \A m \in Message : Sent(m, pc, calls) => Sent(m, pc', calls')
    BY <1>a, <1>b, <1>3 DEF Connect, TypeOK, Sent
  <2>2. InOrder'
    BY <1>a, <1>3, <2>1, StaySent DEF Connect
  <2>3. socketInstance = NONE /\ \A u \in Threads : Constructing(u) => u = t
    BY <1>a, <1>3 DEF Connect, Alone, Constructing
  <2>4. \A i \in DOMAIN opener : opener[i] \in Threads
    BY <1>a DEF TypeOK
  <2>5. DOMAIN opener = {}
    BY <1>a, <1>3, <2>3, <2>4 DEF Connect, Published, Constructing
  <2>6. Len(opener') = 1
    BY <1>a, <1>3, <2>5 DEF Connect, TypeOK
  <2> QED
    BY <1>a, <1>3, <2>2, <2>3, <2>6 DEF Connect, Alone, Constructing, TypeOK
<1>4. ASSUME NEW t \in Threads, Refused(t) \/ TooLate(t)
      PROVE  Alone' /\ InOrder'
  <2>1. \A m \in Message : Sent(m, pc, calls) => Sent(m, pc', calls')
    BY <1>a, <1>b, <1>4 DEF Refused, TooLate, TypeOK, Sent
  <2>2. InOrder'
    BY <1>a, <1>4, <2>1, StaySent DEF Refused, TooLate
  <2> QED
    BY <1>a, <1>4, <2>2 DEF Refused, TooLate, Alone, Constructing, TypeOK
<1>5. ASSUME NEW t \in Threads, Assign(t) PROVE Alone' /\ InOrder'
  <2>1. \A m \in Message : Sent(m, pc, calls) => Sent(m, pc', calls')
    BY <1>a, <1>b, <1>5 DEF Assign, TypeOK, Sent
  <2>2. InOrder'
    BY <1>a, <1>5, <2>1, StaySent DEF Assign
  <2> QED
    BY <1>a, <1>5, <2>2 DEF Assign, Alone, Constructing, TypeOK
<1>6. ASSUME NEW t \in Threads, Return(t) \/ Stream(t) PROVE Alone' /\ InOrder'
  <2>1. \A m \in Message : Sent(m, pc, calls) => Sent(m, pc', calls')
    BY <1>a, <1>b, <1>6 DEF Return, Stream, TypeOK, Sent
  <2>2. InOrder'
    BY <1>a, <1>6, <2>1, StaySent DEF Return, Stream
  <2> QED
    BY <1>a, <1>6, <2>2 DEF Return, Stream, Alone, Constructing, TypeOK
<1>7. ASSUME NEW t \in Threads, Println(t) PROVE Alone' /\ InOrder'
  <2>1. \A m \in Message : Sent(m, pc, calls) => Sent(m, pc', calls')
    BY <1>a, <1>b, <1>7 DEF Println, TypeOK, Sent
  <2>2. Alone'
    BY <1>a, <1>7 DEF Println, Alone, Constructing, TypeOK
  <2>3. CASE UNCHANGED wire
    BY <1>a, <1>7, <2>1, <2>2, <2>3, StaySent DEF Println
  <2>4. CASE wire' = [wire EXCEPT ![mine[t]] = Append(@, Current(t))]
    <3> DEFINE m == Current(t)
    <3>1. m \in Message /\ m.by = t /\ m.n = calls[t]
      BY <1>a, <1>7, BoundsAssumption
         DEF Println, TypeOK, NewComers, Message, Current
    <3>2. mine[t] = 1 /\ 1 \in Connections
      BY <1>a, <1>7, BoundsAssumption
         DEF Println, TypeOK, NewComers, Alone, Connections
    <3>3. wire[1] \in Seq(Message) /\ wire'[1] = Append(wire[1], m)
      BY <1>a, <2>4, <3>2 DEF TypeOK
    <3>4. \A i \in 1 .. Len(received) : received[i] \in Message
      BY <1>a DEF TypeOK
    <3>5. \A n \in Message : Sent(n, pc, calls) /\ n.by = t => n.n < m.n
      BY <1>7, <1>b, <3>1 DEF Println, Sent
    <3>6. Sent(m, pc', calls')
      BY <1>7, <1>a, <3>1, BoundsAssumption DEF Println, Sent, TypeOK
    <3>7. Sorted(wire'[1])
      <4>1. \A i \in 1 .. Len(wire[1]) :
              wire[1][i] \in Message /\ Sent(wire[1][i], pc, calls)
        BY <1>a, <3>2, <3>3 DEF InOrder
      <4>2. Sorted(wire[1])
        BY <1>a, <3>2 DEF InOrder
      <4>3. \A i \in 1 .. Len(wire[1]) :
              wire[1][i].by = m.by => wire[1][i].n < m.n
        BY <4>1, <3>1, <3>5
      <4> HIDE DEF m
      <4> QED
        BY <4>2, <4>3, <3>1, <3>3, AppendSorted
    <3>8. \A j \in 1 .. Len(wire'[1]) :
            \/ j \in 1 .. Len(wire[1]) /\ wire'[1][j] = wire[1][j]
            \/ wire'[1][j] = m
      <4> HIDE DEF m
      <4> QED
        BY <3>1, <3>3
    <3>9. \A j \in 1 .. Len(wire'[1]) :
            /\ Sent(wire'[1][j], pc', calls')
            /\ \A i \in 1 .. Len(received) :
                 received[i].by = wire'[1][j].by
                   => received[i].n < wire'[1][j].n
      <4> HIDE DEF m
      <4>1. ASSUME NEW j \in 1 .. Len(wire[1])
            PROVE  /\ wire[1][j] \in Message
                   /\ Sent(wire[1][j], pc', calls')
                   /\ \A i \in 1 .. Len(received) :
                        received[i].by = wire[1][j].by
                          => received[i].n < wire[1][j].n
        <5>1. wire[1][j] \in Message /\ Sent(wire[1][j], pc, calls)
          BY <1>a, <3>2, <3>3 DEF InOrder
        <5>2. Sent(wire[1][j], pc', calls')
          BY <5>1, <2>1
        <5> QED
          BY <1>a, <3>2, <5>1, <5>2 DEF InOrder
      <4>2. \A i \in 1 .. Len(received) :
              received[i].by = m.by => received[i].n < m.n
        BY <1>a, <3>1, <3>4, <3>5 DEF InOrder
      <4> QED
        BY <3>6, <3>8, <4>1, <4>2
    <3>10. \A c \in Connections : c # 1 => wire'[c] = wire[c]
      BY <1>a, <2>4, <3>2 DEF TypeOK
    <3>11. \A c \in Connections : c # 1 => wire[c] = <<>>
      BY <1>a DEF InOrder
    <3>12. received' = received
      BY <1>7 DEF Println
    <3>13. \A i \in 1 .. Len(received) : Sent(received[i], pc', calls')
      BY <1>a, <2>1, <3>4 DEF InOrder
    <3>14. InOrder'
      BY <1>a, <3>7, <3>9, <3>10, <3>11, <3>12, <3>13 DEF InOrder, Sorted
    <3> QED
      BY <2>2, <3>14
  <2> QED
    BY <1>7, <2>3, <2>4 DEF Println
<1>8. ASSUME ExitBegins \/ \E c \in Connections : RunHook(c)
      PROVE  Alone' /\ InOrder'
  <2>1. UNCHANGED <<pc, calls, wire, received, opener, socketInstance>>
    BY <1>8 DEF ExitBegins, RunHook
  <2> QED
    BY <1>a, <2>1 DEF Alone, InOrder, Constructing, Sent, Sorted
<1>9. ASSUME NEW c \in Connections, Data(c) PROVE Alone' /\ InOrder'
  <2>1. /\ wire[c] \in Seq(Message) /\ wire[c] # <<>>
        /\ wire' = [wire EXCEPT ![c] = Tail(@)]
        /\ received' = Append(received, Head(wire[c]))
        /\ UNCHANGED <<pc, calls, opener, socketInstance>>
    BY <1>9, <1>a DEF Data, TypeOK
  <2> DEFINE m == Head(wire[c])
             rest == Tail(wire[c])
  <2>2. c = 1 /\ Sorted(wire[c])
    BY <1>a, <2>1 DEF InOrder
  <2>3. m = wire[c][1] /\ 1 \in 1 .. Len(wire[c]) /\ m \in Message
    BY <2>1
  <2>4. /\ Sent(m, pc, calls)
        /\ \A i \in 1 .. Len(received) :
             received[i].by = m.by => received[i].n < m.n
    BY <1>a, <2>3 DEF InOrder
  <2>5. /\ Sorted(rest)
        /\ \A i \in 1 .. Len(rest) :
             /\ i + 1 \in 1 .. Len(wire[c])
             /\ rest[i] = wire[c][i + 1]
             /\ m.by = rest[i].by => m.n < rest[i].n
    BY <2>1, <2>2, TailSorted
  <2>6. received \in Seq(Message)
    BY <1>a DEF TypeOK
  <2> HIDE DEF m, rest
  <2>7. Sorted(Append(received, m))
    BY <1>a, <2>3, <2>4, <2>6, AppendSorted DEF InOrder
  <2>8. \A i \in 1 .. Len(Append(received, m)) :
          \/ i \in 1 .. Len(received) /\ Append(received, m)[i] = received[i]
          \/ Append(received, m)[i] = m
    BY <2>3, <2>6
  <2>9. \A i \in 1 .. Len(Append(received, m)) :
          Sent(Append(received, m)[i], pc, calls)
    BY <1>a, <2>4, <2>8 DEF InOrder
  <2>10. \A j \in 1 .. Len(rest) :
           /\ Sent(rest[j], pc, calls)
           /\ \A i \in 1 .. Len(received) :
                received[i].by = rest[j].by => received[i].n < rest[j].n
    BY <1>a, <2>5, SMTT(30) DEF InOrder
  <2>11. \A j \in 1 .. Len(rest) : \A i \in 1 .. Len(Append(received, m)) :
           Append(received, m)[i].by = rest[j].by
             => Append(received, m)[i].n < rest[j].n
    BY <2>5, <2>8, <2>10
  <2>12. /\ received' = Append(received, m)
         /\ wire'[1] = rest
         /\ \A d \in Connections : d # 1 => wire'[d] = <<>>
    BY <1>a, <2>1, <2>2 DEF m, rest, TypeOK, InOrder
  <2>13. pc' = pc /\ calls' = calls
    BY <2>1
  <2>14. \A d \in Connections :
           /\ wire'[d] # <<>> => d = 1
           /\ Sorted(wire'[d])
           /\ \A j \in 1 .. Len(wire'[d]) :
                /\ Sent(wire'[d][j], pc', calls')
                /\ \A i \in 1 .. Len(received') :
                     received'[i].by = wire'[d][j].by
                       => received'[i].n < wire'[d][j].n
    <3>1. \A d \in Connections : d # 1 => wire'[d] = <<>> /\ Len(wire'[d]) = 0
      BY <2>12
    <3>2. Sorted(<<>>)
      BY DEF Sorted
    <3> QED
      BY <3>1, <3>2, <2>5, <2>10, <2>11, <2>12, <2>13, SMTT(30)
  <2>15. InOrder'
    <3>1. /\ Sorted(received')
          /\ \A i \in 1 .. Len(received') : Sent(received'[i], pc', calls')
      BY <2>7, <2>9, <2>12, <2>13
    <3> QED
      BY <3>1, <2>14 DEF InOrder, Sorted
  <2> QED
    BY <1>a, <2>1, <2>15 DEF Alone, Constructing
<1>10. ASSUME ScriptStarts PROVE Alone' /\ InOrder'
  <2>1. UNCHANGED <<pc, calls, wire, received, opener, socketInstance>>
    BY <1>10 DEF ScriptStarts
  <2> QED
    BY <1>a, <2>1 DEF Alone, InOrder, Constructing, Sent, Sorted
<1>11. ASSUME ScriptEnds PROVE Alone' /\ InOrder'
  <2>1. /\ UNCHANGED <<pc, calls, received, opener, socketInstance>>
        /\ \A c \in Connections : wire'[c] = <<>>
    BY <1>11 DEF ScriptEnds
  <2> QED
    BY <1>a, <2>1 DEF Alone, InOrder, Constructing, Sent, Sorted
<1>12. CASE UNCHANGED vars
  BY <1>a, <1>12 DEF vars, Alone, InOrder, Constructing, Sent, Sorted
<1> QED
  BY <1>1, <1>2, <1>3, <1>4, <1>5, <1>6, <1>7, <1>8, <1>9, <1>10, <1>11,
     <1>12 DEF Next, GetInstance, SendMessage

\* The script reads the messages of each thread in the order the thread sent
\* them, unless two threads raced in getInstance().
THEOREM MessagesInOrder == Spec => []OrderUnlessRaced
<1>1. IInv /\ OInv => OrderUnlessRaced
  <2> SUFFICES ASSUME TypeOK, InOrder PROVE
        \A i, j \in DOMAIN received :
          i < j /\ received[i].by = received[j].by
            => received[i].n < received[j].n
    BY DEF OrderUnlessRaced, OInv, IInv
  <2>1. DOMAIN received = 1 .. Len(received)
    BY DEF TypeOK
  <2> QED
    BY <2>1 DEF InOrder, Sorted
<1> QED
  BY <1>1, InitOrder, NextOrder, Invariant, PTL DEF Spec

-----------------------------------------------------------------------------
\* The initial ring has its type.
LEMMA RingInitType == RingInit => RingTypeOK
BY ConstantsAssumption DEF RingInit, RingTypeOK, Used

\* A step keeps the ring's type.
LEMMA RingNextType == RingTypeOK /\ [RingNext]_ringVars => RingTypeOK'
BY ConstantsAssumption DEF RingTypeOK, RingNext, ringVars, valid, NextPlace, Used

\* The ring keeps its type: pozicija never reaches the last element.
THEOREM RingTypeCorrect == RingSpec => []RingTypeOK
BY RingInitType, RingNextType, PTL DEF RingSpec

-----------------------------------------------------------------------------
\* The places of the frames, oldest first, are exactly the places in use.
LEMMA PlacesCover ==
  ASSUME RingTypeOK
  PROVE  /\ \A i \in 1 .. Length - 1 : PlaceOf(i) \in Used
         /\ \A i, j \in 1 .. Length - 1 : PlaceOf(i) = PlaceOf(j) => i = j
         /\ \A p \in Used : \E i \in 1 .. Length - 1 : PlaceOf(i) = p
<1> USE ConstantsAssumption DEF RingTypeOK, PlaceOf, Used
<1>1. \A i \in 1 .. Length - 1 : PlaceOf(i) \in Used
  OBVIOUS
<1>2. \A i, j \in 1 .. Length - 1 : PlaceOf(i) = PlaceOf(j) => i = j
  OBVIOUS
<1>3. ASSUME NEW p \in Used PROVE \E i \in 1 .. Length - 1 : PlaceOf(i) = p
  <2>1. CASE p >= pozicija
    <3>1. p - pozicija + 1 \in 1 .. Length - 1 /\ PlaceOf(p - pozicija + 1) = p
      BY <2>1
    <3> QED
      BY <3>1
  <2>2. CASE p < pozicija
    <3>1. /\ p - pozicija + Length \in 1 .. Length - 1
          /\ PlaceOf(p - pozicija + Length) = p
      BY <2>2
    <3> QED
      BY <3>1
  <2> QED
    BY <2>1, <2>2
<1> QED
  BY <1>1, <1>2, <1>3

\* After valid() the oldest frame is the second oldest of before, and so on;
\* the newest is where pozicija was.
LEMMA PlacesShift ==
  ASSUME RingTypeOK, NEW pronaden, valid(pronaden)
  PROVE  /\ \A i \in 1 .. Length - 2 : /\ PlaceOf(i)' = PlaceOf(i + 1)
                                       /\ PlaceOf(i + 1) # pozicija
         /\ PlaceOf(Length - 1)' = pozicija
BY ConstantsAssumption DEF RingTypeOK, PlaceOf, Used, valid, NextPlace

\* valid() shifts the window by one frame.
LEMMA ValidShifts ==
  ASSUME RingTypeOK, NEW pronaden \in BOOLEAN, valid(pronaden)
  PROVE  Window!Shift(pronaden)
<1> DEFINE Shifted ==
      [i \in 1 .. Length - 1 |-> IF i = Length - 1 THEN pronaden ELSE Oldest[i + 1]]
<1>1. ASSUME NEW i \in 1 .. Length - 1 PROVE poljeSlika'[PlaceOf(i)'] = Shifted[i]
  <2>1. CASE i = Length - 1
    <3>1. PlaceOf(i)' = pozicija /\ pozicija \in 0 .. Length - 1
      BY <2>1, PlacesShift, ConstantsAssumption DEF RingTypeOK, Used
    <3>2. poljeSlika'[pozicija] = pronaden
      BY <3>1 DEF valid, RingTypeOK
    <3> QED
      BY <2>1, <3>1, <3>2
  <2>2. CASE i # Length - 1
    <3>1. i \in 1 .. Length - 2 /\ i + 1 \in 1 .. Length - 1
      BY <2>2, ConstantsAssumption
    <3>2. PlaceOf(i)' = PlaceOf(i + 1) /\ PlaceOf(i + 1) # pozicija
      BY <3>1, PlacesShift
    <3>3. poljeSlika'[PlaceOf(i + 1)] = poljeSlika[PlaceOf(i + 1)]
      BY <3>1, <3>2, PlacesCover, ConstantsAssumption
      DEF valid, RingTypeOK, Used
    <3> QED
      BY <2>2, <3>1, <3>2, <3>3 DEF Oldest
  <2> QED
    BY <2>1, <2>2
<1>2. Oldest' = [i \in 1 .. Length - 1 |-> poljeSlika'[PlaceOf(i)']]
  BY DEF Oldest
<1>3. Oldest' = Shifted
  BY <1>1, <1>2
<1> QED
  BY <1>3 DEF Window!Shift

\* The ring implements the sliding window, across any number of wraps.
THEOREM RingRefinement == RingSpec => ImplementsSlidingWindow
<1>1. RingInit => Window!Init
  <2> SUFFICES ASSUME RingInit PROVE Oldest = [i \in 1 .. Length - 1 |-> FALSE]
    BY DEF Window!Init
  <2>1. \A i \in 1 .. Length - 1 : PlaceOf(i) \in 0 .. Length - 1
    BY RingInitType, PlacesCover, ConstantsAssumption DEF Used
  <2> QED
    BY <2>1 DEF RingInit, Oldest
<1>2. RingTypeOK /\ [RingNext]_ringVars => [Window!Next]_Oldest
  <2> SUFFICES ASSUME RingTypeOK, [RingNext]_ringVars
               PROVE  Window!Next \/ UNCHANGED Oldest
    OBVIOUS
  <2>1. CASE RingNext
    BY <2>1, ValidShifts DEF RingNext, Window!Next
  <2>2. CASE UNCHANGED ringVars
    BY <2>2 DEF ringVars, Oldest, PlaceOf
  <2> QED
    BY <2>1, <2>2
<1> QED
  BY <1>1, <1>2, RingTypeCorrect, PTL
  DEF RingSpec, ImplementsSlidingWindow, Window!Spec

-----------------------------------------------------------------------------
\* Counting in the order of the ring and in the order of time agree.
LEMMA SameCount ==
  ASSUME RingTypeOK
  PROVE  Cardinality({i \in Used : poljeSlika[i]})
           = Cardinality({i \in 1 .. Length - 1 : Oldest[i]})
<1> DEFINE S == {i \in 1 .. Length - 1 : Oldest[i]}
           T == {i \in Used : poljeSlika[i]}
           f == [i \in S |-> PlaceOf(i)]
<1>1. f \in [S -> T]
  BY PlacesCover DEF Oldest
<1>2. \A i, j \in S : f[i] = f[j] => i = j
  BY PlacesCover
<1>3. \A p \in T : \E i \in S : f[i] = p
  BY PlacesCover DEF Oldest
<1>4. f \in Bijection(S, T)
  BY <1>1, <1>2, <1>3 DEF Bijection, Injection, IsInjective, Surjection
<1>5. ExistsBijection(S, T)
  BY <1>4 DEF ExistsBijection
<1>6. IsFiniteSet(S)
  <2>1. IsFiniteSet(1 .. Length - 1)
    BY FS_Interval, ConstantsAssumption
  <2> QED
    BY <2>1, FS_Subset
<1> QED
  BY <1>5, <1>6, FS_Bijection

\* A ring of the right type counts the window.
LEMMA RingImplies == RingTypeOK => (getValidator <=> Window!Steady)
<1> SUFFICES ASSUME RingTypeOK PROVE getValidator <=> Window!Steady
  OBVIOUS
<1>1. Cardinality({i \in Used : poljeSlika[i]})
        = Cardinality({i \in 1 .. Length - 1 : Oldest[i]})
  BY SameCount
<1> QED
  BY <1>1 DEF getValidator, Window!Steady, Cardinality, Window!Cardinality

\* getValidator() is true exactly when Needed of the last frames had the
\* marker, whatever the length of the ring and wherever pozicija is.
THEOREM ValidatorCountsWindow == RingSpec => []ValidatorIsSteady
<1>1. RingTypeOK => ValidatorIsSteady
  BY RingImplies DEF ValidatorIsSteady
<1> QED
  BY <1>1, RingTypeCorrect, PTL

-----------------------------------------------------------------------------
Remembered == (\E i \in Used : poljeSlika[i]) => marker # NULL

DetectorInv ==
  /\ DetectorTypeOK
  /\ Remembered
  /\ CenterWhenSteady
  /\ DiesOnlyOnAxis

\* getValidator() needs at least one frame with the marker.
LEMMA ValidatorNeedsFrame == getValidator => \E i \in Used : poljeSlika[i]
<1> SUFFICES ASSUME \A i \in Used : ~poljeSlika[i] PROVE ~getValidator
  OBVIOUS
<1>1. {i \in Used : poljeSlika[i]} = {}
  OBVIOUS
<1>2. Cardinality({i \in Used : poljeSlika[i]}) = 0
  BY <1>1, FS_EmptySet
<1> QED
  BY <1>2, ConstantsAssumption DEF getValidator

\* The markers of a frame are Markers, and there are finitely many.
LEMMA FrameFinite ==
  ASSUME NEW f \in Frames
  PROVE  /\ \A i \in DOMAIN f : f[i] \in Marker
         /\ Cardinality(CarsAfterPlace(f)) \in Nat
<1>1. f \in Seq(Marker) /\ Len(f) \in Nat /\ DOMAIN f = 1 .. Len(f)
  BY FramesAssumption
<1>2. IsFiniteSet(1 .. Len(f))
  BY <1>1, FS_Interval
<1>3. CarsAfterPlace(f) \in SUBSET (1 .. Len(f))
  BY <1>1 DEF CarsAfterPlace
<1>4. IsFiniteSet(CarsAfterPlace(f))
  BY <1>2, <1>3, FS_Subset
<1> QED
  BY <1>1, <1>4, FS_CardinalityType

\* The messages about the car are none about the center, and one about the
\* center follows them when it is sent.
LEMMA CarMessagesOnly ==
  ASSUME NEW f \in Frames
  PROVE  /\ \A i \in DOMAIN CarMessages(f) : CarMessages(f)[i] # "drone_center"
         /\ \E i \in DOMAIN Append(CarMessages(f), "drone_center") :
              Append(CarMessages(f), "drone_center")[i] = "drone_center"
         /\ CarMessages(f) \in Seq({"drone_carFound"})
<1> DEFINE n == Cardinality(CarsAfterPlace(f))
<1>1. n \in Nat
  BY FrameFinite
<1>2. CarMessages(f) \in Seq({"drone_carFound"}) /\ Len(CarMessages(f)) = n
  BY <1>1 DEF CarMessages
<1>3. \A i \in DOMAIN CarMessages(f) : CarMessages(f)[i] # "drone_center"
  BY DEF CarMessages
<1>4. /\ n + 1 \in DOMAIN Append(CarMessages(f), "drone_center")
      /\ Append(CarMessages(f), "drone_center")[n + 1] = "drone_center"
  BY <1>1, <1>2
<1> QED
  BY <1>2, <1>3, <1>4

\* A marker without a direction is on an axis and off the circle.
LEMMA NoDirection ==
  ASSUME NEW m \in Marker, Direction(m) = NULL
  PROVE  (m.x = centerX \/ m.y = centerY) /\ ~insideCircle(m.x, m.y)
<1>1. m.x \in Int /\ m.y \in Int
  BY DEF Marker
<1>2. NULL \notin Directions
  BY FramesAssumption
<1> QED
  BY <1>1, <1>2 DEF Direction, getDirection, Quadrant, Directions, centerX, centerY

-----------------------------------------------------------------------------
\* Before any frame the ring is empty, so it is not steady.
LEMMA DetectorInitInv == DetectorInit => DetectorInv
<1> SUFFICES ASSUME DetectorInit PROVE DetectorInv
  OBVIOUS
<1>1. RingTypeOK
  BY RingInitType DEF DetectorInit
<1>2. \A i \in Used : ~poljeSlika[i]
  BY ConstantsAssumption DEF DetectorInit, RingInit, Used
<1>3. ~Window!Steady
  BY <1>1, <1>2, ValidatorNeedsFrame, RingImplies
<1> QED
  BY <1>1, <1>2, <1>3
  DEF DetectorInit, DetectorInv, DetectorTypeOK, Remembered, CenterWhenSteady,
      DiesOnlyOnAxis

\* Every frame preserves the invariant.
LEMMA DetectorNextInv == DetectorInv /\ [DetectorNext]_detectorVars => DetectorInv'
<1> SUFFICES ASSUME DetectorInv, [DetectorNext]_detectorVars PROVE DetectorInv'
  OBVIOUS
<1>1. CASE UNCHANGED detectorVars
  BY <1>1 DEF detectorVars, DetectorInv, DetectorTypeOK, RingTypeOK, Remembered,
       CenterWhenSteady, DiesOnlyOnAxis, Window!Steady, Oldest, PlaceOf
<1>2. ASSUME NEW f \in Frames, findMarker(f) PROVE DetectorInv'
  <2> USE <1>2 DEF findMarker, DetectorInv, DetectorTypeOK
  <2>1. RingTypeOK'
    <3>1. (Places(f) # {}) \in BOOLEAN
      OBVIOUS
    <3>2. RingNext
      BY <3>1 DEF RingNext
    <3> QED
      BY <3>2, RingNextType
  <2>2. marker' \in Marker \cup {NULL}
    BY FrameFinite DEF Track, Places
  <2>3. Remembered'
    <3>1. CASE Places(f) = {}
      BY <3>1 DEF valid, Track, Remembered, RingTypeOK, Used
    <3>2. CASE Places(f) # {}
      BY <3>2, FrameFinite, FramesAssumption DEF Track, Places, Remembered
    <3> QED
      BY <3>1, <3>2
  <2>4. getValidator' => marker' # NULL
    <3>1. getValidator' => (\E i \in Used : poljeSlika[i])'
      BY ValidatorNeedsFrame, PTL
    <3> QED
      BY <2>3, <3>1 DEF Remembered
  <2>5. getValidator' <=> Window!Steady'
    <3>1. RingTypeOK' => (getValidator' <=> Window!Steady')
      BY RingImplies, PTL
    <3> QED
      BY <2>1, <3>1
  <2>6. DetectorTypeOK'
    <3>1. /\ CarMessages(f) \in Seq({"drone_carFound", "drone_center"})
          /\ Append(CarMessages(f), "drone_center")
               \in Seq({"drone_carFound", "drone_center"})
      BY CarMessagesOnly
    <3>2. messages' \in Seq({"drone_carFound", "drone_center"})
      <4>1. \/ messages' = CarMessages(f)
            \/ messages' = Append(CarMessages(f), "drone_center")
        BY Zenon DEF Report
      <4> QED
        BY <3>1, <4>1
    <3>3. alive' \in BOOLEAN /\ frame' \in Frames
      BY DEF Report
    <3> QED
      BY <2>1, <2>2, <3>2, <3>3
  <2>7. CASE ~getValidator'
    BY <2>6, <2>3, <2>5, <2>7, CarMessagesOnly
    DEF Report, CenterWhenSteady, DiesOnlyOnAxis
  <2>8. CASE getValidator' /\ Direction(marker') # NULL
    BY <2>6, <2>3, <2>4, <2>5, <2>8, CarMessagesOnly
    DEF Report, CenterWhenSteady, DiesOnlyOnAxis
  <2>9. CASE getValidator' /\ Direction(marker') = NULL
    BY <2>6, <2>3, <2>4, <2>5, <2>9, CarMessagesOnly, NoDirection
    DEF Report, CenterWhenSteady, DiesOnlyOnAxis
  <2> QED
    BY <2>7, <2>8, <2>9
<1> QED
  BY <1>1, <1>2 DEF DetectorNext

\* The inductive invariant holds after any sequence of frames.
THEOREM DetectorInvariant == DetectorSpec => []DetectorInv
BY DetectorInitInv, DetectorNextInv, PTL DEF DetectorSpec

\* Every variable keeps its type; the messages of a frame are these two.
THEOREM DetectorType == DetectorSpec => []DetectorTypeOK
BY DetectorInvariant, PTL DEF DetectorInv

\* The marker whose center is read when the place is steady is never null.
THEOREM MarkerIsKnown == DetectorSpec => []SteadyHasMarker
<1>1. DetectorInv => SteadyHasMarker
  BY ValidatorNeedsFrame DEF DetectorInv, DetectorTypeOK, Remembered, SteadyHasMarker
<1> QED
  BY <1>1, DetectorInvariant, PTL

\* "drone_center" is sent for a frame exactly if enough of the last frames had
\* the marker and the thread survived it.
THEOREM CenterIsSteady == DetectorSpec => []CenterWhenSteady
BY DetectorInvariant, PTL DEF DetectorInv

\* Nothing but a steady marker on an axis ends the video thread.
THEOREM OnlyAxisKills == DetectorSpec => []DiesOnlyOnAxis
BY DetectorInvariant, PTL DEF DetectorInv
=============================================================================
