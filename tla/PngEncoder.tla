----------------------------- MODULE PngEncoder -----------------------------
(***************************************************************************)
(* node drone/ar-drone/lib/video/PngEncoder.js: starts an ffmpeg with the  *)
(* first video it is given, hands it the video, splits what it answers     *)
(* into images with a PngSplitter, and tells how it ended. It starts only  *)
(* one: what is written after that one has ended is dropped, without an    *)
(* error ("stdin.on('error', function() {})").                             *)
(*                                                                         *)
(* ffmpeg (external) makes images of the video, or cannot be started, or   *)
(* fails. The pipe between may still hold images when it has exited.       *)
(***************************************************************************)
EXTENDS PngSplitter

CONSTANT MaxPngs  \* bound: images that ffmpeg makes

VARIABLES
  ffmpeg,   \* this._ffmpeg, and whether its process runs
  ending,   \* this._ending
  told,     \* how the encoder told its listeners that it ended
  layouts,  \* external: the images ffmpeg has made
  stdout    \* external: the bytes in the pipe from ffmpeg to the splitter

encoder == <<splitter, ffmpeg, ending, told, layouts, stdout>>

EncoderTypeOK ==
  /\ ffmpeg \in {"none", "running", "exited"}
  /\ ending \in BOOLEAN
  /\ told \in {"nothing", "end", "error"}
  /\ layouts \in Seq(Layouts)
  /\ offset \in 0 .. Len(buffer)
  /\ pngStartOffset \in 0 .. offset
  /\ state \in {"header", "chunk.header", "chunk.data"}

EncoderInit ==
  /\ SplitterInit
  /\ ffmpeg = "none"
  /\ ending = FALSE
  /\ told = "nothing"
  /\ layouts = <<>>
  /\ stdout = <<>>

-----------------------------------------------------------------------------
\* write(buffer): the first one spawns ffmpeg.
EncoderWrite ==
  /\ ffmpeg' = IF ffmpeg = "none" THEN "running" ELSE ffmpeg
  /\ UNCHANGED <<splitter, ending, told, layouts, stdout>>

\* end(): before the first write there is nothing to end.
EncoderEnd ==
  /\ ending' = (ending \/ ffmpeg # "none")
  /\ UNCHANGED <<splitter, ffmpeg, told, layouts, stdout>>

FfmpegMakesPng(layout) ==
  /\ ffmpeg = "running"
  /\ Len(layouts) < MaxPngs
  /\ layouts' = Append(layouts, layout)
  /\ stdout' = stdout \o Png(Len(layouts'), layout)
  /\ UNCHANGED <<splitter, ffmpeg, ending, told>>

\* ffmpeg.stdout.pipe(this._pngSplitter), with the next n bytes.
PipeDelivers(n) ==
  /\ n \in DOMAIN stdout
  /\ SplitterWrite(SubSeq(stdout, 1, n))
  /\ stdout' = SubSeq(stdout, n + 1, Len(stdout))
  /\ UNCHANGED <<ffmpeg, ending, told, layouts>>

\* The 'exit' event with this code, or the 'error' event of a process that
\* was not started, which has no exit code.
FfmpegExits(code) ==
  /\ ffmpeg = "running"
  /\ ffmpeg' = "exited"
  /\ told' = IF code = 0 /\ ending THEN "end" ELSE "error"
  /\ UNCHANGED <<splitter, ending, layouts, stdout>>

-----------------------------------------------------------------------------
\* Every 'data' event is "exactly 1 png image" (PngEncoder.js:2), whole and in
\* order, and it comes with the image's last byte, however the pipe cuts what
\* ffmpeg writes.
Emitted(i) == i <= Len(pngs)
Received(i) == \A k \in DOMAIN stdout : stdout[k].png # i
ExactlyOnePng ==
  /\ \A i \in DOMAIN pngs : pngs[i] = Png(i, layouts[i])
  /\ \A i \in DOMAIN layouts : Received(i) => Emitted(i)
=============================================================================
