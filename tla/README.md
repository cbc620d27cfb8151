# Verification of DroneParkingSystem

TLA+ models of the programs in this repository, checked with TLC and, where
marked, proved with TLAPS for every value of the constants. All paths are from
the root of the repository.

## The system

A ground station (Java, `src/hr/parkingsystem/main`) shows the drone's video,
looks for two printed markers in it (1: the parking place, 2: the car) and
writes one-line commands to TCP port 5000. A Node script
(`node drone/ar-drone/examples/DroneParkingSystem.js`) reads them and calls the
methods of `Client` of the vendored library `node drone/ar-drone/lib`, which
talks to the drone: AT commands over UDP to it, navdata over UDP and video over
TCP from it.

    camera -> Detector -> SocketMessage =TCP=> DroneParkingSystem.js
                                                     | method calls, timers
    drone =UDP navdata=> UdpNavdataStream -> Client -> UdpControl =UDP=> drone
    drone =TCP video=> TcpVideoStream -> PngEncoder (ffmpeg) -> PngSplitter

Users of the library may pipe the video stream into `PaVEParser` instead, which
is built on `Reader` of `node drone/buffy`; nothing in the repository does.

### Components, state and hard parts

| Component | State | Operations | What is hard | What makes it correct |
|---|---|---|---|---|
| `UdpControl` | `_cmds`, `_blockingCmds`, `_blocked`, timers | commands, `flush`, `ack`, `ackReset`, ACK timeout, CTRL interval | late ACKs against timeouts, one ACK bit for all commands, leaked and dead timers | commands in order, one in flight, each settled once; assertions hold |
| `UdpNavdataStream` | `_sequenceNumber`, `_timer` | `resume`, `_requestNavdata`, `_handleMessage` | loss, reordering, duplicates, restart of the drone | order kept, at most once; keeps asking |
| `Client` | `_ref`, `_pcmd`, `_repeaters`, `_disableEmergency`, `_lastState`, listeners | flight methods, `_sendCommands` every 30 ms, `_handleNavdata` | flags are read later than they are set; repetitions overlap | exact repetition, which ends in flight; no emergency bit without a request; the drone told what was asked last |
| `ValidFrame` | ring of 50 booleans | `valid`, `getValidator` | off by one at the wrap | a window over the last 49 frames |
| `Detector`, `Helper` | last marker | `findMarker` | stale marker, null direction, order of markers | sends what the frames justify |
| `DroneParkingSystem.js` | client flags, `markerFound`, three timers | TCP `data`, navdata listener, `after` | chunks are not lines; an uncaught throw ends all | obeys lines in order, at most once |
| `SocketMessage`, called by `VideoStreamer`, `Detector` | lazy singleton, socket, writer | `getInstance`, `sendMessage`, shutdown hook | two threads, no synchronization, silent loss | one connection per thread at most, order, nothing left open |
| `buffy` `Reader` | `_buffer`, `_offset` | `write`, reads | unread bytes moved within the buffer | a queue of bytes |
| `PaVEParser` | `_state`, `_frame`, its `Reader` | `write` | chunk boundaries inside a header, streams joined inside a frame | whole frames, none skipped or held back |
| `TcpVideoStream`, with the retries of `Client` | socket, its idle timer, pending retries | `connect`, socket events, retry | an error, a FIN and a timeout may each start a retry, and one retry closes what another opened | never given up, comes back for good |
| `PngEncoder`, `PngSplitter` | ffmpeg's process, `_ending`; buffer, offset, state | `write`, `end`, `exit` and `error` of ffmpeg | the pipe cuts anywhere; ffmpeg exits at any time | each event one whole image |
| `parseNavdata`, `NavdataReader` | offset | header, option loop, checksum | lengths are never compared with the datagram | what is passed on arrived, lies apart, is checked; ends |
| `AtCommandCreator` | none | `ref`, `pcmd`, `config`, `animate`, ... | flag bits, two keys for one argument, throws a tick later | the drone is told what was asked last |
| `PngStream`, `Repl`, `simple-debug` | - | - | - | not modelled, see below |

`PROJECT.json` lists the hazards at their lines, and for each the properties
that would catch it.

## Modules

| Module | Models | Note |
|---|---|---|
| `ConfigQueue` | what `Client.config` callers are promised | abstract |
| `UdpControl` | `lib/control/UdpControl.js` | implements `ConfigQueue` |
| `LossyChannel` | a channel that drops but keeps order | abstract |
| `NavdataStream` | `lib/navdata/UdpNavdataStream.js`, the network, the drone's navdata service | implements `LossyChannel` |
| `ControlLink` | `Client._handleNavdata` joining `UdpControl` to the drone | extends `UdpControl`, whose specification has names of its own (`UdpSpec`, ...), and composes it with `LossyChannel` |
| `AtCommandCreator` | the arguments of REF and PCMD in `lib/control/AtCommandCreator.js` | operators only |
| `Client` | `lib/Client.js` but for its video side | extends `AtCommandCreator` |
| `NavdataOptions` | how many bytes each option parser of `parseNavdata.js` reads, by `NavdataReader.js` | operators only |
| `ParseNavdata` | the header, the option loop and the checksum of `parseNavdata.js` | extends `NavdataOptions` |
| `SlidingWindow` | the last frames | abstract |
| `ValidFrame` | `ValidFrame.java` | implements `SlidingWindow` |
| `Detector` | `Detector.java`, `Helper.getDirection` | extends `ValidFrame`; its specification has names of its own (`DetectorSpec`, ...), so that the ground station's proofs can extend it too |
| `ParkingScript` | `examples/DroneParkingSystem.js` and its TCP connection | implements `LossyChannel` |
| `GroundStation` | `SocketMessage.java`, its callers in `VideoStreamer.java` and `Detector.java`, the script's end of the connections | |
| `ByteQueue` | what a user of `Reader` counts on | abstract |
| `Reader` | `buffy/lib/Reader.js` | implements `ByteQueue` |
| `PaVEParser` | `lib/video/PaVEParser.js`, a stream cut into any chunks | extends `Reader` |
| `TcpVideoStream` | `lib/video/TcpVideoStream.js` with the callback `Client` gives it, the drone's video service | |
| `PngSplitter` | `lib/video/PngSplitter.js` | |
| `PngEncoder` | `lib/video/PngEncoder.js`, ffmpeg and the pipe from it | extends `PngSplitter` |
| `VideoPipeline` | `getVideoStream()`, `getPngStream()` of `Client` | composes `TcpVideoStream` and `PngEncoder` |
| `Positions` | `Array.filter()` and the like: what a sequence keeps at some positions; numbers in ascending order | operators only; used where `SelectSeq` and `SetToSortSeq` could be, which take an operator and so cannot be reasoned about |
| `MC*` | instances for TLC | |
| `SequenceLemmas` | lemmas on `Positions`, induction and iteration | cited by the proofs |
| `*Proofs` | TLAPS proofs | `ControlLinkProofs` is also about `UdpControl`, `NavdataProofs` about `NavdataStream` and `ParseNavdata`, `GroundStationProofs` about `Detector` and `ValidFrame`, `PaVEParserProofs` about `Reader`, `VideoPipelineProofs` about `TcpVideoStream`, `PngEncoder` and `PngSplitter` |

Variables and actions carry the names of the fields and functions they stand
for; `PROJECT.json` maps each to its lines. Node runs a callback to its end
before the next, so each method call, timer callback and event handler is one
action. In `GroundStation`, whose threads share memory, every access to a shared
field is an action; the accesses are taken to be sequentially consistent.
`findMarker()` runs on the one video thread and touches nothing another
thread does except `SocketMessage`, so it is one action too. Timers are events
that may happen whenever they are pending: every property holds for all
lengths of the timeouts, and orders that real durations exclude are included.
`TcpVideoStream` is the exception: its timers all last one second, so they end in
the order in which they were started, and a drone that streams sends something
before one of them ends. `ParseNavdata` takes one step per turn of the loop, to
name the bytes that each turn reads, although the parser runs in one callback.

Left out of the modelled parts: sequence numbers and texts of AT commands;
what callbacks passed by the program do (a callback that calls a method is the
event followed by that method; a callback that throws ends the process); battery
and altitude events; speeds other than some chosen ones (they are integers in the
models; a speed that is no number changes nothing); duplicated AT datagrams, which the drone drops by
their sequence number. A socket constructed while the JVM is already shutting
down is opened and never used; `GroundStation` does not count it. After an outage
data flows again on a video connection that stayed open: one that outlives the drone's
own end of it is not represented. A `Reader` starts without bytes; the one `parseNavdata`
starts with a datagram is in `ParseNavdata`.

Definitions commented "Mutant of X" are not part of any specification. Each is
a plausible mistake in X, used to confirm that a property notices it.

### What the abstractions say

* `ConfigQueue`: a command is submitted, sent when the link is free, settled
  once with "ok" or "timeout", and then frees the link. The ACK bit, its reset,
  and the timers are how `UdpControl` does it and do not appear.
* `LossyChannel`: what is emitted was sent later than what was emitted before.
  For navdata, "on their way" are the packets in the network that the filter
  would still accept; for the script, the lines whose first byte is unread.
* `SlidingWindow`: the last `Width` frames, oldest first. The refinement maps
  the i-th oldest to its place in the ring.
* `ByteQueue`: what is unread is an end of what was written, however written, and
  shrinks from the front. The refinement maps the unread part of `_buffer`, which
  moves as the buffer is reused or grown. `Reader` keeps this promise to a user that
  reads only what is ahead (`ReadsWhatIsAhead`, a condition on the reads, not a guard
  of them): its methods move `_offset` first and ask nothing. In the model as in the
  code a read past the end leaves `_offset` behind the buffer, whether the method then
  throws (numbers) or returns less (strings, buffers); a string without its null leaves
  it NaN; and a `write()` after that may do anything node's versions do. `PaVEParser`
  asks `bytesAhead()` first and is checked, and proved, never to read that way.

## Runs

| Run | Shows | Instance and why it is enough |
|---|---|---|
| `udp_control` | assertions, `SettledOnce`, `ConfigQueue`, and that a sent command is settled | 3 commands: one settled, one in flight, one waiting; 2 other commands queued at most. The safety part is proved for any number |
| `navdata_stream` | order and no duplicates; asking until it streams | 5 packets, 3 in the network, 1 restart: packets from before and after it are told apart. Order and no duplicates are proved for any numbers |
| `control_link` | `AckMeansReceived` over a network that loses (proved for any number of commands); `EverySettled` when commands are not lost | 2 commands: a first one that times out and leaves its ACK bit to the second. Whether commands can be lost is chosen initially. CTRL is the only command that does not block (`LinkAssumption`): the others do not touch the ACK bit |
| `client` | what REF and PCMD tell the drone, repetitions to their end or to that of the process, those of `ftrim()` also in flight, the emergency bit against the history of requests and navdata | 2 calls with 2 repetitions each, so that one starts or ends, or throws, while the other is at each step, and takeoffs and landings fall between their ticks; one pair of directions with one speed, as each axis has an argument of its own; one callback that can be passed again. All but `EachRepeated` is proved for any of these numbers |
| `detector` | ring and window, marker known, "drone_center" exactly when steady, the one way to die | ring of 5 wraps at 4, threshold 2; markers on either side of each comparison of `getDirection` and of the circle. All proved for any ring, threshold and frames |
| `parking_script` | lines obeyed in order and at most once for every split and join; diagonals | 3 lines of 3 tokens, 8 texts; proved for any texts and number of lines |
| `ground_station` | `OneEach`, `OrderUnlessRaced`, `ClosedAtExit` with a script that is started late, ends and is started again at any time | 2 threads (video, event dispatch) with 3 messages each: one refused, one that tries again and is in the race for the first connection, one after it or after a restart of the script; room for a third connection, which never opens. Proved for any numbers |
| `pave_parser` | whole frames, no gaps, nothing withheld, for every cut into chunks and every place of joining; `ByteQueue` | 3 frames, headers of 3 and 5 bytes for 64 and 68, payloads of 0 to 2: a frame may be shorter than a long header, with bytes of the next one behind it, and the buffer grows, is reused and grows again. Proved for any sizes, numbers and cuts |
| `parse_navdata` | what is passed on arrived, lies apart and is covered by the checksum (all proved for any datagram); every datagram is parsed to an end | 3 known options, an unknown one and the checksum, with lengths that are 0, one short, exact and too long; 16 sizes around the ends of headers, options and checksums, up to four options |
| `video_pipeline` | one listener each, `NeverAbandoned`, `Recovers`, `ExactlyOnePng` | 2 outages: the retries of the first are pending in the second; 2 images of 1 to 3 chunks with parts of 1 to 2 bytes, so that every part can be cut and images can meet in one chunk. All but `Recovers` is proved for any of these |
| `reset_is_reached` | violated, see findings | as `control_link` |
| `car_found_lands` | violated, see findings | 2 lines, none of them split (`NoneSplit`) |

`CHECK_DEADLOCK FALSE` stands where the program does stop: when the video thread,
the script or the Node process has died, the JVM has halted, a datagram is
parsed, or everything the bound allows was written and read.

### Fairness

* `UdpControl`, `ControlLink`, `Client`: `setInterval` keeps calling
  `_sendCommands`, and expired timers are run: weak fairness. Nothing obliges the
  program to call methods or the drone to answer. In `ControlLink` the drone
  keeps streaming, and each direction of the network, offered packets again and
  again, delivers some: strong fairness on delivery.
* `NavdataStream`: the request timer fires if no packet restarts it, so only
  while none is on its way; not every request is lost.
* `VideoPipeline`: expired timers are run, a drone that stays up accepts
  connections and sends; nothing is assumed of ffmpeg or of the program.
* `ParseNavdata`: the loop takes its next turn.
* `GroundStation`, `PaVEParser`, `Detector`: safety only, no fairness.
* `ParkingScript`: bytes on the connection are read, and `after` timers fire.

### Findings

Each is a run that TLC finds violated; `PROJECT.json` quotes the text it is
violated against.

1. `UdpControl.js:69` reads `self.state` for `self._blocked.state`: the CTRL that
   clears the drone's ACK bit is never resent, and if the first one is lost no
   blocking command is ever sent again (`reset_is_reached`). With the condition
   corrected in the model, the property holds.
2. `DroneParkingSystem.js:34` compares a whole chunk with each command, so two lines
   read together are neither: on a connection that splits no line, a `drone_carFound`
   joined with a `drone_center` is lost, and the drone does not land
   (`car_found_lands`). `Detector.findMarker()` sends the two in either order,
   `drone_center` for the frame before and after `drone_carFound` for the same frame.
   The trace is the first order: both are written, one 'data' event reads both, nothing
   is obeyed. A line that is split is lost too; the property leaves that case out.

Met while modelling, and in the models:

* `UdpControl.js:72` clears whichever interval `ctrlTimer` names: with a second
  ACK before the first tick, one interval runs for ever. Because of finding 1
  each of its ticks only returns.
* `Detector.java:59`: the car counts only when its marker comes after the
  parking place's in the array the library returns.
* `DroneParkingSystem.js:88`: undeclared `latitude` ends the script on the first
  navdata. What follows in the listener is never reached, so the models have no
  action for it.
* The Start button sends "drone_start", which the script does not know, and the
  only sender of "drone_takeoff" is `Server.handleClientRequest`, which nothing
  calls.
* After a restart of the drone, navdata is ignored until its numbers pass the old
  ones, while the ignored packets keep restarting the request timer.
* `PaVEParser.js:33` waits for 68 bytes, so a last frame shorter than that stays
  in the buffer until the next one comes; `NothingWithheld` says that this is
  the only frame held back.
* `Client.js:218` checks for flight once, when `ftrim()` is called; FTRIM is then
  sent on ten later ticks, also after a `takeoff()` in between. `TrimsEnd` says how
  long: the last FTRIM goes out with the eleventh tick after it at the latest, whatever
  calls overlapped on the ground.
* `Client.js:29`: `_lastState` starts as 'CTRL_LANDED' and events are emitted on its
  changes, so the callback of a `land(cb)` before the first flight is not called by
  navdata that show the drone landed, nor that of a `takeoff(cb)` given while it
  hovers: each waits until the drone has left the state and come back. The callbacks
  and the handler are in the model, and no property is stated about them.
* `PaVEParser.js:68`: after an invalid signature the parser goes on 64 bytes later,
  wherever that is. A stream joined inside a frame may stay out of step for ever;
  `EmitsWhole` and `NoGaps` are about what is emitted if it does not.
* `Detector.java:83`: the direction is that of the last marker seen. `SteadyHasMarker`
  says there is one; with a ring of 50 it may be from dozens of frames before.
* `AtCommandCreator.js:98,111`: an unknown animation throws on the first tick that
  repeats it. By then that tick's REF and PCMD are sent, and the process ends.
* `SocketMessage.java:47-49`: a `PrintWriter` keeps its errors to itself and
  `isConnected()` stays true, so a command sent after the script has ended is lost
  and nothing is printed, also after the script was started again: the field is set, so
  nobody connects a second time. Only a refused call, which leaves it null, is followed
  by another attempt.
* `parseNavdata.js:43` compares no length with the datagram, and `Reader` cuts an
  option short without a word. That nothing unreceived is passed on rests on the
  header read next, which throws past the end. Only the checksum option itself can
  be cut short; `AllChecked` leaves that case out.
* `parseNavdata.js:37`: the end of the loop rests on `new Buffer(-4)` throwing. On a
  runtime that returned an empty one, an unknown option of length 0 would be read
  for ever. `lenient` is either; `ParseEnds` says that nothing else can hang it.
* `parseNavdata.js:661` takes option 27 for 180 bytes of GPS; `constants.js:100` calls
  it ZIMMU_3000. A drone that sends fewer bytes under it has every packet rejected.
* `TcpVideoStream.js:47`: a FIN leaves the socket half open with its idle timer
  running, so two retries follow it. The second calls `connect()` on the socket
  the first has opened, which closes it; a third retry repairs that. `Recovers`
  says that this comes to an end.
* `PngEncoder.js:67` may emit "end" before the last images are out of the pipe;
  `end()` before the first video is forgotten; after ffmpeg has exited, video is
  dropped and none is started again; an "error" nobody listens to ends the process.

## Proofs

Eight modules hold them. Each starts from an invariant that is inductive, which the
properties mostly are not; one step of the proof of each is one action.

`SequenceLemmas`. The library's theorems on induction take the property as an
operator, which the provers cannot instantiate. Here a property is the set of numbers
that have it, and "`<` is well founded", which the library proves, gives `Induction`
(up to a bound) and `Iteration` (a function defined by recursion exists, if each step
stays in a set). `Rank`, `Ascending` and `Kept` of `Positions` come next: an ascending
sequence is determined by its elements (`AscendingUnique`); appending to a sequence
appends to what is kept of it, and dropping its beginning drops what was kept there.

`ControlLinkProofs`. First `UdpControl` on its own: from a state with the right types
and, say, a stale timer, `AckTimeout` settles the wrong command. `Shape` ties the
blocked state to the event loop (NOT_BLOCKED iff no command; waiting for an ACK iff
exactly the current command's timeout is pending and it is not settled; waiting for the
reset implies settled), `Queued` says the queued commands are distinct, new and not in
flight. With `UdpTypeOK` and `SettledOnce` they are inductive. Type correctness, the
three safety properties and the refinement of `ConfigQueue` follow. Then the link, where
a drone, two lossy directions and `UdpControl` act at once: every step of the link is
one of `UdpControl` or leaves it alone, so all of this, the refinement too, holds there
(`LinkRefinement`). For `AckMeansReceived`, `OnceInAir` says that a command is on its way
once at most, after it was sent and before the drone has it, so that no late copy sets
the bit again. `Honest` says what a set bit, at the drone or on its way, means in each
state: while waiting for an ACK, that the drone has the current command; while waiting
for the reset, that it was not cleared yet; otherwise there is none. It holds as long as
`Excused` (a bit from before, or a received command that timed out) does not, and
`Excused` stays. Assumed: `UdpAssumption`, `LinkAssumption`.

`NavdataProofs`. `ParseNavdata`: between two turns of the loop every option was read from
bytes before the offset (`ReadBehind`). Since the next option starts there, options lie
apart; since the checksum's header is read there, and would throw past the end, all of
them are inside the datagram; and the range of the checksum ends there if the checksum
option is whole. Of the layouts only that their widths are natural numbers.
`NavdataStream`: the drone numbers what it sends, so what the network holds is a set whose
packets are numbered apart and not above `droneSeq` (`Stamped`), and the abstract channel
is that set in ascending order, less what the filter would refuse. A packet that is let
through removes those numbered below it (`BySeqAbove`), a lost one itself
(`BySeqRemove`), a new one comes last (`BySeqAppend`); a copy, or a packet that is
invalid or late, changes nothing. Assumed: sizes, ids, lengths and bounds are natural
numbers.

`ClientProofs`. `EmergencyIsRequested` is about what was called and reported, not about
the code's flags: `requested` is set by `resume()` and `disableEmergency()` and ends with
the first navdata without an emergency. `EmergencyIsOwed` says of the flags that an open
`_disableEmergency` was requested in that sense, which fails if `Client.js:113` does not
close it. For `TrimsEnd`, `TrimsFit` weighs what a repeater of FTRIM has left against the
ticks since `takeoff()`: together at most the number of repetitions, since each tick
takes one and adds one, and `CanTrim` adds repeaters on the ground only. For `ToldIsAsked`, `PcmdIsAsked` says of `_pcmd` what
the property says of a datagram: of the two keys of a pair it has the one asked for
last, or none, wherever among the keys; the later of two keys of one axis wins in
`Pcmd`, and there are not two. For `RepeatsExact`, `Counted` says that a call has one
repeater at most, so that a tick calls it once, and that filtering the spent ones out
leaves the counts of the others. Assumed: `ConstantsAssumption`, in particular that each
pair of directions has an axis of its own, as `pcmdOptions` and `PCMD_ALIASES` have it.

`PaVEParserProofs`. `Reader` first: `IsRest`, the unread bytes are the last of all that
was written, is inductive because `write()` keeps them and puts the chunk right behind
them in both branches (`ReuseAppends`, `GrowAppends`); the refinement of `ByteQueue`
follows for any bytes and chunks and any user that meets `ReadsWhatIsAhead`, and under the parser, which does. The parser: the
bytes ahead, in the buffer and then on the wire, are an end of the stream (`IsStream`),
and the parser stands where the frame it has to emit next begins, or inside it behind its
header (`InStep`). A pass of the loop keeps both (`PassKeeps`); the loop of a `write()`
is a function of the number of passes, so `Iteration` and `Induction` carry them to its
end (`LoopIsRight`). That the loop has returned by then, which `NothingWithheld` needs,
follows from a measure: each pass that does not return reads a header or completes a frame.
`SizesAssumption` holds of 64 and 68. An earlier form of `NothingWithheld` said that a
short last frame is held back alone; the proof failed where the first bytes of the next
frame are behind it, and with the header sizes chosen then TLC could not meet that case.
The property and the instance were corrected. Assumed: `SizesAssumption`,
`BytesAssumption`.

`ParkingScriptProofs`. `SteersDiagonally` needs `Diagonal`: the pressed keys are none, or
one per axis. For the refinement of `LossyChannel`, a message is on its way while its
first token is on the wire, and what a 'data' event reads takes the first heads off the
wire (`HeadsAfter`). Only a chunk that is a message, trimmed, is obeyed, and its head is
the only one in it (`OnlyHead`): the event is an `Emit`. Any other chunk loses its heads
together. Assumed: `MaxSent` is a natural number.

`GroundStationProofs`. `OneEach` is not inductive: a thread may come to the constructor
again, when the script refused it before, and the proof needs to know that a thread that
constructs has opened no connection yet. `Published` says that whoever
opened one is about to store it or the field is set, which it stays; `NewComers`,
that a thread in the constructor has opened none; `Registered` ties hooks to
connections, for `ClosedAtExit`. `OrderUnlessRaced` is proved on top of these: until
two threads race, one thread at a time constructs and there is at most one connection
(`Alone`), so that each thread's messages are in one pipeline, from the one it is about
to print over the wire to what the script has read (`InOrder`). For any set of threads
and any number of messages; assumed: `BoundsAssumption`.

The detector, in the same module: `RingTypeOK` is inductive. `PlacesCover` shows that mapping age to
place is a bijection onto the places in use; `PlacesShift`, that a step moves each frame
to the next age; from these the refinement of `SlidingWindow`, and by equal cardinalities
that `getValidator` counts the window. `SteadyHasMarker` needs `Remembered` (a ring that
holds any frame with the marker implies a marker), since the threshold may be reached by
the very next frame. Assumed: a ring of at least 2, a threshold of at least 1; frames are
sequences of markers and null is none of them.

`VideoPipelineProofs`. The splitter, by the argument of the parser: the bytes of its buffer
and then of the pipe are those of the images not yet emitted, one behind the other
(`Images`), and it stands before an image or, in the first of them, before a chunk or
behind the header of one (`Right`). The byte a chunk begins with tells the length of this
chunk and no other, because chunks do not overlap (`ChunkHead`). A turn of the loop keeps
all this and, unless it returns, takes bytes (`TurnKeeps`), so the loop of a `write()` has
returned after one turn per byte (`LoopIsRight`). It waits for more bytes then, which it
could not if the image were there to its end (`ReceivedIsEmitted`): with that,
`ExactlyOnePng`. The connection: `NeverAbandoned` is inductive; the bound on the timers in
`TypeOK` is not. `VideoInv` adds that a connection that is made or there has its idle
timer, which the retry for it replaces, and that an open one whose drone has gone has room
for the retry of its FIN. Assumed: `PartsAssumption` (the parts have positive sizes, and
each chunk of a layout has room for its header and its CRC).

Out of the prover's reach, and model-checked only: every liveness property
(`SentIsSettled`, `AsksUntilStreaming`, `EverySettled`, `EachRepeated`, `ParseEnds`,
`Recovers`). Every safety property that a passing run checks, refinements included, is
proved.

## Not modelled

* `PngStream`: deprecated (`PngStream.js:10`) and replaced by `getPngStream()`.
  Its `connect()` has no callback, so a refused connection is not tried again.
* `TcpVideoStream.end()`, `UdpControl.close()`, `UdpNavdataStream.destroy()`,
  `Reader.skip()` and `pause()`: nothing in the repository calls them.
* The text of AT commands (`at.js`), the meaning of navdata fields,
  `maskingFunctions.js`, `constants.js`: tables and formatting without state.
* `Repl`: hands typed lines to methods of `Client`. `simple-debug`: a logging helper.
* `Server.java` and the set-up of `VideoStreamer`: construct objects and windows.
* Durations: that ten repeated CONFIGs of `animate()` delay later ones by seconds.

## What could come next

1. `ParkingSystem`: `Detector`, `GroundStation` and `ParkingScript` composed,
   with landing for a reason (car seen, button, timer) as its property.
