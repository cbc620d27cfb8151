--------------------------- MODULE NavdataOptions ---------------------------
(***************************************************************************)
(* The layouts of node drone/ar-drone/lib/navdata/parseNavdata.js: which   *)
(* option an id names, and how many bytes the parser of each option reads. *)
(* What a field means is left out; each term below is a field or a run of  *)
(* equal fields, in the order the parser reads them.                       *)
(***************************************************************************)
EXTENDS Naturals

\* The methods of NavdataReader.
uint8 == 1
int16 == 2
uint16 == 2
int32 == 4
uint32 == 4
float32 == 4
double64 == 8
char == uint8
bool == char
matrix33 == 9 * float32
vector31 == 3 * float32
screenPoint == 2 * int32
mask32 == uint32

\* timesMap(n, reader.field, reader)
timesMap(n, field) == n * field

demo == 2 * uint16 + uint32 + 3 * float32 + int32 + vector31 + uint32
        + (matrix33 + vector31) + uint32 + uint32 + (matrix33 + vector31)
time == uint32
rawMeasures == 3 * uint16 + 3 * int16 + 2 * int16 + uint32 + 4 * uint16
               + 3 * uint16 + (2 * uint16 + uint32) + int32
physMeasures == float32 + uint16 + 2 * vector31 + 3 * uint32
gyrosOffsets == vector31
eulerAngles == 2 * float32
references == 8 * int32 + 6 * float32 + uint32 + (5 * float32 + int32)
trims == float32 + 2 * float32
rcReferences == 5 * int32
pwm == timesMap(4, uint8) + timesMap(4, uint8) + 4 * float32 + 3 * int32
       + float32 + 3 * int32 + float32 + timesMap(4, uint16) + 2 * float32
altitude == int32 + float32 + 2 * int32 + (2 * float32 + vector31 + uint32)
            + (2 * float32 + uint32)
visionRaw == 3 * float32
visionOf == timesMap(5, float32) + timesMap(5, float32)
vision == uint32 + int32 + 2 * float32 + 2 * float32 + int32
          + (3 * float32 + int32 + uint32) + vector31 + 3 * float32
          + (2 * uint32 + 2 * float32)
visionPerf == 6 * float32 + timesMap(20, float32)
trackersSend == timesMap(30, int32) + timesMap(30, screenPoint)
visionDetect == uint32 + 6 * timesMap(4, uint32) + timesMap(4, float32)
                + timesMap(4, matrix33) + timesMap(4, vector31)
                + timesMap(4, uint32)
watchdog == uint32
adcDataFrame == uint32 + timesMap(32, uint8)
videoStream == uint8 + 2 * uint32 + (2 * uint32 + float32 + uint32) + 2 * uint32
               + timesMap(5, int32) + 2 * uint32
games == 2 * uint32
pressureRaw == int32 + int16 + 2 * int32
magneto == 3 * int16 + 3 * vector31 + 3 * float32 + char + uint32 + 3 * float32
windSpeed == 2 * float32 + 2 * float32 + timesMap(6, float32)
             + timesMap(3, float32)
kalmanPressure == float32 + (2 * float32 + 2 * float32 + 2 * float32
                  + 3 * float32 + bool + float32 + bool + 2 * float32 + 2 * bool)
hdvideoStream == uint32 + 2 * uint32 + 2 * uint32 + uint32 + uint32
wifi == float32
gps == 4 * double64 + 3 * int32 + 4 * double64 + uint32 + 10 * float32
       + 2 * double64 + float32 + uint32 + 5 * float32 + uint32 + 2 * float32
       + uint32

-----------------------------------------------------------------------------
CHECKSUM == 65535

\* OPTION_IDS and OPTION_PARSERS in one: the bytes the parser of an option
\* reads, at the option's id. Every option but the checksum has a parser.
OptionWidths ==
  <<time, rawMeasures, physMeasures, gyrosOffsets, eulerAngles, references,
    trims, rcReferences, pwm, altitude, visionRaw, visionOf, vision,
    visionPerf, trackersSend, visionDetect, watchdog, adcDataFrame,
    videoStream, games, pressureRaw, magneto, windSpeed, kalmanPressure,
    hdvideoStream, wifi, gps>>

Known(id) == id = 0 \/ id \in DOMAIN OptionWidths
Width(id) == IF id = 0 THEN demo ELSE OptionWidths[id]
=============================================================================
