--------------------------- MODULE GroundStation ---------------------------
(***************************************************************************)
(* src/hr/parkingsystem/main/SocketMessage.java: the connection to the     *)
(* drone's script, kept in a static field that the video thread (through   *)
(* Detector.findMarker) and the event dispatch thread (through the buttons *)
(* of VideoStreamer) fill and read without synchronization.                *)
(*                                                                         *)
(* The shared memory is the static field and, in each instance, its field  *)
(* out. Every access to one of them is a step of its own; the accesses are *)
(* taken to be sequentially consistent: an instance is published by a      *)
(* store that follows calls the compiler cannot move it across, and        *)
(* println() holds the writer's lock and hands the line to the socket as   *)
(* one write.                                                              *)
(*                                                                         *)
(* Each instance has registered a shutdown hook that closes it. The JVM    *)
(* halts when the hooks have ended, and until then its threads go on.      *)
(*                                                                         *)
(* The script is another process, started and ended at any time: while it  *)
(* does not listen, connections are refused, and the connections to a      *)
(* script that has ended stay in the ground station's hands.               *)
(*                                                                         *)
(* Abstracted: the texts of the messages; how the script's 'data' events   *)
(* cut the bytes (ParkingScript). Constructing a socket while the JVM      *)
(* shuts down opens one that nobody ever uses; it is not counted.          *)
(***************************************************************************)
EXTENDS Naturals, Sequences, Functions

CONSTANTS
  Threads,    \* the threads that send messages
  Resilient,  \* those an uncaught exception does not end: event dispatch
  MaxCalls,   \* bound: messages each thread sends
  MaxOpened,  \* bound: connections opened in all
  NONE        \* null

ASSUME BoundsAssumption ==
  /\ Resilient \subseteq Threads
  /\ MaxCalls \in Nat
  /\ MaxOpened \in Nat
  /\ NONE \notin Nat

VARIABLES
  socketInstance,  \* the static field: a connection or null
  pc,              \* what each thread does next
  calls,           \* how many messages each thread has been asked to send
  mine,            \* the instance in each thread's hand
  opener,          \* the thread that opened each connection, in order
  out,             \* the connections whose field out is set
  closed,          \* the connections closed on this side
  wire,            \* the lines on their way to the script, per connection
  scriptAlive,     \* a script listens and reads
  broken,          \* the connections to scripts that have ended
  exiting,         \* the JVM runs its shutdown hooks
  hooks,           \* the hooks still to be run, named by their connections
  raced,           \* history: a thread found null while another constructed
  owed,            \* history: connections in use when the exit began
  received         \* history: what the script read, in order

network == <<wire, scriptAlive, broken, received>>
exit == <<exiting, hooks, owed>>
vars == <<socketInstance, pc, calls, mine, opener, out, closed, raced,
          network, exit>>

Connections == 1 .. MaxOpened
Opened == DOMAIN opener
Message == [by : Threads, n : 1 .. MaxCalls]

TypeOK ==
  /\ socketInstance \in Opened \cup {NONE}
  /\ pc \in [Threads -> {"idle", "check", "construct", "assign", "return",
                         "stream", "println", "dead"}]
  /\ calls \in [Threads -> 0 .. MaxCalls]
  /\ mine \in [Threads -> Opened \cup {NONE}]
  /\ opener \in Seq(Threads) /\ Len(opener) <= MaxOpened
  /\ out \subseteq Opened
  /\ closed \subseteq out
  /\ wire \in [Connections -> Seq(Message)]
  /\ {scriptAlive, exiting, raced} \subseteq BOOLEAN
  /\ broken \subseteq Opened
  /\ hooks \subseteq Opened
  /\ owed \subseteq out
  /\ received \in Seq(Message)

Init ==
  /\ socketInstance = NONE
  /\ pc = [t \in Threads |-> "idle"]
  /\ calls = [t \in Threads |-> 0]
  /\ mine = [t \in Threads |-> NONE]
  /\ opener = <<>>
  /\ out = {}
  /\ closed = {}
  /\ wire = [c \in Connections |-> <<>>]
  /\ scriptAlive \in BOOLEAN
  /\ broken = {}
  /\ exiting = FALSE
  /\ hooks = {}
  /\ raced = FALSE
  /\ owed = {}
  /\ received = <<>>

Halted == exiting /\ hooks = {}
At(t, label) == pc[t] = label /\ ~Halted
Goto(t, label) == pc' = [pc EXCEPT ![t] = label]
Current(t) == [by |-> t, n |-> calls[t]]

-----------------------------------------------------------------------------
\* A button is pressed, or a frame gives the detector something to say.
Call(t) ==
  /\ At(t, "idle")
  /\ calls[t] < MaxCalls
  /\ calls' = [calls EXCEPT ![t] = @ + 1]
  /\ Goto(t, "check")
  /\ UNCHANGED <<socketInstance, mine, opener, out, closed, raced, network,
                 exit>>

\* Mutant of IsNull: the field is not looked at.
AlwaysNull == TRUE

IsNull == socketInstance = NONE

Constructing(t) == pc[t] \in {"construct", "assign"}

\* getInstance() compares the field with null.
Check(t) ==
  /\ At(t, "check")
  /\ \/ /\ IsNull
        /\ Goto(t, "construct")
        /\ raced' = (raced \/ \E u \in Threads : Constructing(u))
     \/ ~IsNull /\ Goto(t, "return") /\ UNCHANGED raced
  /\ UNCHANGED <<socketInstance, calls, mine, opener, out, closed, network,
                 exit>>

\* new SocketMessage(): the script accepts, and the instance registers its hook.
Connect(t) ==
  /\ At(t, "construct")
  /\ scriptAlive
  /\ ~exiting
  /\ Len(opener) < MaxOpened
  /\ opener' = Append(opener, t)
  /\ mine' = [mine EXCEPT ![t] = Len(opener')]
  /\ hooks' = hooks \cup {mine'[t]}
  /\ Goto(t, "assign")
  /\ UNCHANGED <<socketInstance, calls, out, closed, raced, network, exiting,
                 owed>>

\* Nobody listens: the caller prints the IOException and goes on. The field is
\* still null, so a later call tries again.
Refused(t) ==
  /\ At(t, "construct")
  /\ ~scriptAlive
  /\ Goto(t, "idle")
  /\ UNCHANGED <<socketInstance, calls, mine, opener, out, closed, raced,
                 network, exit>>

\* A hook cannot be registered any more: IllegalStateException, which no one
\* catches.
TooLate(t) ==
  /\ At(t, "construct")
  /\ scriptAlive
  /\ exiting
  /\ \/ t \in Resilient /\ Goto(t, "idle")
     \/ t \notin Resilient /\ Goto(t, "dead")
  /\ UNCHANGED <<socketInstance, calls, mine, opener, out, closed, raced,
                 network, exit>>

Assign(t) ==
  /\ At(t, "assign")
  /\ socketInstance' = mine[t]
  /\ Goto(t, "return")
  /\ UNCHANGED <<calls, mine, opener, out, closed, raced, network, exit>>

\* getInstance() returns what the field holds now, in both of its branches.
Return(t) ==
  /\ At(t, "return")
  /\ mine' = [mine EXCEPT ![t] = socketInstance]
  /\ Goto(t, "stream")
  /\ UNCHANGED <<socketInstance, calls, opener, out, closed, raced, network,
                 exit>>

\* sendMessage(): isConnected() holds for ever once the socket was connected;
\* getOutputStream() of a closed one throws, and the caller prints it.
Stream(t) ==
  /\ At(t, "stream")
  /\ \/ mine[t] \in closed /\ Goto(t, "idle") /\ UNCHANGED out
     \/ /\ mine[t] \notin closed
        /\ out' = out \cup {mine[t]}
        /\ Goto(t, "println")
  /\ UNCHANGED <<socketInstance, calls, mine, opener, closed, raced, network,
                 exit>>

\* println() never throws: a PrintWriter keeps its errors to itself.
Println(t) ==
  /\ At(t, "println")
  /\ \/ /\ mine[t] \notin broken \cup closed
        /\ wire' = [wire EXCEPT ![mine[t]] = Append(@, Current(t))]
     \/ mine[t] \in broken \cup closed /\ UNCHANGED wire
  /\ Goto(t, "idle")
  /\ UNCHANGED <<socketInstance, calls, mine, opener, out, closed, raced,
                 scriptAlive, broken, received, exit>>

-----------------------------------------------------------------------------
\* The window is closed or the process is told to end.
ExitBegins ==
  /\ ~exiting
  /\ exiting' = TRUE
  /\ owed' = out
  /\ UNCHANGED <<socketInstance, pc, calls, mine, opener, out, closed, raced,
                 network, hooks>>

\* Mutant of Closes: the hook closes the connection of the static field.
ClosesCurrent(c) == socketInstance

Closes(c) == c

\* closeConnection() in the hook of connection c. Without a writer, out.close()
\* throws a NullPointerException and the socket is not closed.
RunHook(c) ==
  /\ exiting
  /\ c \in hooks
  /\ hooks' = hooks \ {c}
  /\ closed' = closed \cup (out \cap {Closes(c)})
  /\ UNCHANGED <<socketInstance, pc, calls, mine, opener, out, raced,
                 network, exiting, owed>>

-----------------------------------------------------------------------------
\* The script reads a line; each connection has a handler of its own.
Data(c) ==
  /\ wire[c] # <<>>
  /\ received' = Append(received, Head(wire[c]))
  /\ wire' = [wire EXCEPT ![c] = Tail(@)]
  /\ UNCHANGED <<socketInstance, pc, calls, mine, opener, out, closed, raced,
                 scriptAlive, broken, exit>>

\* The script is started, for the first time or again, and listens.
ScriptStarts ==
  /\ ~scriptAlive
  /\ scriptAlive' = TRUE
  /\ UNCHANGED <<socketInstance, pc, calls, mine, opener, out, closed, raced,
                 wire, broken, received, exit>>

\* An exception ends the script, and with it all connections.
ScriptEnds ==
  /\ scriptAlive
  /\ scriptAlive' = FALSE
  /\ broken' = Opened
  /\ wire' = [c \in Connections |-> <<>>]
  /\ UNCHANGED <<socketInstance, pc, calls, mine, opener, out, closed, raced,
                 received, exit>>

GetInstance(t) ==
  Check(t) \/ Connect(t) \/ Refused(t) \/ TooLate(t) \/ Assign(t) \/ Return(t)
SendMessage(t) == Stream(t) \/ Println(t)

Next ==
  \/ \E t \in Threads : Call(t) \/ GetInstance(t) \/ SendMessage(t)
  \/ ExitBegins
  \/ \E c \in Connections : RunHook(c) \/ Data(c)
  \/ ScriptStarts
  \/ ScriptEnds

Spec == Init /\ [][Next]_vars

-----------------------------------------------------------------------------
\* No thread opens a second connection, however the threads interleave, however
\* often the script refused before it accepted, and whether or not it was started
\* again since: the ground station has at most one per thread.
OneEach == IsInjective(opener)

\* The messages of a thread reach the script in the order it sent them, unless
\* two threads were in getInstance()'s null branch together: then a later one
\* may go over another connection and overtake.
OrderUnlessRaced ==
  raced \/ \A i, j \in DOMAIN received :
             i < j /\ received[i].by = received[j].by
               => received[i].n < received[j].n

\* When the JVM halts, every connection that was in use when the exit began has
\* been closed by its hook, the ones that lost their place in the static field
\* included.
ClosedAtExit == Halted => owed \subseteq closed
=============================================================================
