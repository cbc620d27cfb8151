--------------------------- MODULE TcpVideoStream ---------------------------
(***************************************************************************)
(* node drone/ar-drone/lib/video/TcpVideoStream.js with the callback that  *)
(* Client._newTcpVideoStream() gives it: a TCP connection to the drone     *)
(* that is opened again one second after anything went wrong with it.      *)
(*                                                                         *)
(* The net.Socket (external) is closed, connecting, open, or half open: it *)
(* got a FIN and, since removeAllListeners() took its own 'end' listener   *)
(* away too, was not closed by that. A connect() on a socket that is not   *)
(* closed fails and closes it. Its idle timer starts again with whatever   *)
(* it reads. That timer and those of the callback last one second each,    *)
(* so they end in the order in which they were started.                    *)
(*                                                                         *)
(* end() is left out: nothing calls it.                                    *)
(***************************************************************************)
EXTENDS Naturals, Sequences, Positions

CONSTANT MaxOutages  \* bound: how often the drone goes away

VARIABLES
  socket,    \* the state of this._socket
  timers,    \* pending timers, the next to end first
  handlers,  \* how many 'data' listeners this._socket has
  up,        \* external: the drone accepts connections and sends video
  outages    \* external: how often it went away

drone == <<up, outages>>
vars == <<socket, timers, handlers, drone>>

SocketStates == {"none", "closed", "connecting", "open", "half"}

TypeOK ==
  /\ socket \in SocketStates
  /\ timers \in Seq({"retry", "idle"}) /\ Len(timers) <= outages + 1
  /\ handlers \in 0 .. 1
  /\ up \in BOOLEAN
  /\ outages \in 0 .. MaxOutages

Init ==
  /\ socket = "none"
  /\ timers = <<>>
  /\ handlers = 0
  /\ up \in BOOLEAN
  /\ outages = 0

-----------------------------------------------------------------------------
WithoutIdle(ts) == Kept(ts, {i \in DOMAIN ts : ts[i] = "retry"})
Refreshed(ts) == Append(WithoutIdle(ts), "idle")

\* Mutants of Retry: the error is only logged, or the callback listens to the
\* 'close' that follows an 'error' as well.
RetryNever(ts) == ts
RetryTwice(ts) == ts \o <<"retry", "retry">>

\* callback(err) of Client._newTcpVideoStream(): connect again in 1000 ms. It
\* is called once for an error, by the socket before 'connect', by the stream
\* after it.
Retry(ts) == Append(ts, "retry")

Failed(ts) == socket' = "closed" /\ timers' = Retry(WithoutIdle(ts))

\* Mutant of Listeners: without removeAllListeners().
OneMore == handlers + 1

Listeners == 1

\* connect(callback), with ts the timers that are pending.
Connect(ts) ==
  /\ handlers' = Listeners
  /\ IF socket \in {"none", "closed"}
     THEN socket' = "connecting" /\ timers' = Refreshed(ts)
     ELSE Failed(ts)

\* Client.getVideoStream(): the first call connects, the others change nothing.
GetVideoStream ==
  /\ socket = "none"
  /\ Connect(timers)
  /\ UNCHANGED drone

Connected ==
  /\ up
  /\ socket = "connecting"
  /\ socket' = "open"
  /\ timers' = Refreshed(timers)
  /\ UNCHANGED <<handlers, drone>>

\* A chunk arrives, and is emitted by each listener.
Data ==
  /\ up
  /\ socket = "open"
  /\ timers' = Refreshed(timers)
  /\ UNCHANGED <<socket, handlers, drone>>

\* The connection is refused, or reset.
SocketError ==
  /\ ~up
  /\ socket \in {"connecting", "open", "half"}
  /\ Failed(timers)
  /\ UNCHANGED <<handlers, drone>>

\* 'end', which the stream reports as an error.
Fin ==
  /\ ~up
  /\ socket = "open"
  /\ socket' = "half"
  /\ timers' = Retry(Refreshed(timers))
  /\ UNCHANGED <<handlers, drone>>

Due(timer) == timers # <<>> /\ Head(timers) = timer

\* The setTimeout of the callback.
RetryExpires ==
  /\ Due("retry")
  /\ Connect(Tail(timers))
  /\ UNCHANGED drone

\* 'timeout': a socket that has read nothing for a second. A drone that is up
\* sends thirty pictures in that time.
Timeout ==
  /\ Due("idle")
  /\ ~(up /\ socket \in {"connecting", "open"})
  /\ Failed(Tail(timers))
  /\ UNCHANGED <<handlers, drone>>

DroneComes ==
  /\ ~up
  /\ up' = TRUE
  /\ UNCHANGED <<socket, timers, handlers, outages>>

DroneGoes ==
  /\ up
  /\ outages < MaxOutages
  /\ up' = FALSE
  /\ outages' = outages + 1
  /\ UNCHANGED <<socket, timers, handlers>>

Next ==
  \/ GetVideoStream
  \/ Connected
  \/ Data
  \/ SocketError
  \/ Fin
  \/ RetryExpires
  \/ Timeout
  \/ DroneComes
  \/ DroneGoes

Spec == Init /\ [][Next]_vars

-----------------------------------------------------------------------------
\* While there is no connection, one is going to be tried again: no order of
\* refusals, resets, FINs and timeouts loses the last retry.
NeverAbandoned ==
  socket \in {"closed", "half"} => \E i \in DOMAIN timers : timers[i] = "retry"
=============================================================================
