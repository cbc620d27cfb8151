--------------------------- MODULE VideoPipeline ---------------------------
(***************************************************************************)
(* The video side of node drone/ar-drone/lib/Client.js: getVideoStream()   *)
(* and getPngStream() create the one TcpVideoStream and the one PngEncoder *)
(* of the client when they are first asked for, and the 'data' events of   *)
(* the stream are writes to the encoder, across all its connections.       *)
(*                                                                         *)
(* The client listens to the errors of the stream but not to those of the  *)
(* encoder: if the program does not either, such an error is thrown by     *)
(* emit() and ends the process.                                            *)
(***************************************************************************)
EXTENDS Naturals, Sequences

CONSTANTS
  MaxOutages,                       \* as in TcpVideoStream
  SIGNATURE, HEADER, CRC, Layouts,  \* as in PngSplitter
  MaxPngs                           \* as in PngEncoder

VARIABLES
  socket, timers, handlers, up, outages,  \* those of TcpVideoStream
  buffer, offset, pngStartOffset, state, chunk, pngs, ffmpeg, ending, told,
  layouts, stdout,                        \* those of PngEncoder
  pngStream,  \* the client's _pngStream is not null
  listened,   \* the program listens to the 'error' of the PNG stream
  alive       \* the process runs

Video == INSTANCE TcpVideoStream
Encoder == INSTANCE PngEncoder

ASSUME PartsAssumption ==
  /\ {SIGNATURE, HEADER, CRC} \subseteq Nat \ {0}
  /\ \A layout \in Layouts : Encoder!IsLayout(layout)
  /\ {MaxOutages, MaxPngs} \subseteq Nat

video == <<socket, timers, handlers, up, outages>>
encoder == <<buffer, offset, pngStartOffset, state, chunk, pngs, ffmpeg, ending,
             told, layouts, stdout>>
client == <<pngStream, listened, alive>>
vars == <<video, encoder, client>>

\* In particular one chunk of video is written once: the socket never has a
\* second 'data' listener ("To avoid duplicates when re-connecting",
\* TcpVideoStream.js:24).
TypeOK ==
  /\ Video!TypeOK
  /\ Encoder!EncoderTypeOK
  /\ {pngStream, listened, alive} \subseteq BOOLEAN

Init ==
  /\ Video!Init
  /\ Encoder!EncoderInit
  /\ pngStream = FALSE
  /\ listened \in BOOLEAN
  /\ alive = TRUE

-----------------------------------------------------------------------------
\* The methods the program calls.
GetVideoStream ==
  /\ Video!GetVideoStream
  /\ UNCHANGED <<encoder, client>>

\* Asks for the video stream, which may be there already.
GetPngStream ==
  /\ ~pngStream
  /\ pngStream' = TRUE
  /\ Video!GetVideoStream \/ (socket # "none" /\ UNCHANGED video)
  /\ UNCHANGED <<encoder, listened, alive>>

EndPngStream ==
  /\ pngStream
  /\ Encoder!EncoderEnd
  /\ UNCHANGED <<video, client>>

\* The events of the socket and its timers.
Data ==
  /\ Video!Data
  /\ IF pngStream THEN Encoder!EncoderWrite ELSE UNCHANGED encoder
  /\ UNCHANGED client

ConnectionStep ==
  /\ \/ Video!Connected
     \/ Video!SocketError
     \/ Video!Fin
     \/ Video!RetryExpires
     \/ Video!Timeout
  /\ UNCHANGED <<encoder, client>>

\* The events of the child process.
PipeDelivers(n) ==
  /\ Encoder!PipeDelivers(n)
  /\ UNCHANGED <<video, client>>

FfmpegExits(code) ==
  /\ Encoder!FfmpegExits(code)
  /\ alive' = (told' = "error" => listened)
  /\ UNCHANGED <<video, pngStream, listened>>

-----------------------------------------------------------------------------
\* What goes on outside the process, whether it runs or not.
DroneStep ==
  /\ Video!DroneComes \/ Video!DroneGoes
  /\ UNCHANGED <<encoder, client>>

FfmpegMakesPng(layout) ==
  /\ Encoder!FfmpegMakesPng(layout)
  /\ UNCHANGED <<video, client>>

Next ==
  \/ /\ alive
     /\ \/ GetVideoStream
        \/ GetPngStream
        \/ EndPngStream
        \/ Data
        \/ ConnectionStep
        \/ \E n \in DOMAIN stdout : PipeDelivers(n)
        \/ \E code \in {0, 1} : FfmpegExits(code)
  \/ DroneStep
  \/ \E layout \in Layouts : FfmpegMakesPng(layout)

\* Timers that are due expire; a drone that is up accepts and sends.
Fairness ==
  /\ WF_vars(alive /\ Data)
  /\ WF_vars(alive /\ Video!Connected /\ UNCHANGED <<encoder, client>>)
  /\ WF_vars(alive /\ Video!RetryExpires /\ UNCHANGED <<encoder, client>>)
  /\ WF_vars(alive /\ Video!Timeout /\ UNCHANGED <<encoder, client>>)

Spec == Init /\ [][Next]_vars
FairSpec == Spec /\ Fairness

-----------------------------------------------------------------------------
\* Client.js:67: no order of refusals, resets, FINs and timeouts leaves the
\* stream without a connection and without a retry.
NeverAbandoned == Video!NeverAbandoned

\* Every event of the PNG stream is one whole image, in order, whatever cuts
\* the pipe makes, through every reconnection and after ffmpeg has exited.
ExactlyOnePng == Encoder!ExactlyOnePng

\* Retries do not fight each other for ever: once the drone stays up, the
\* stream is connected in the end and stays so. Several retries may be pending
\* by then, each of which closes the connection that another one opened.
Recovers ==
  <>[](up /\ socket # "none") => <>[](socket = "open" \/ ~alive)
=============================================================================
