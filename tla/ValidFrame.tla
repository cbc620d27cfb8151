----------------------------- MODULE ValidFrame -----------------------------
(***************************************************************************)
(* src/hr/parkingsystem/main/ValidFrame.java: a ring of booleans, one per  *)
(* video frame. valid() runs on the video thread only, for each frame the  *)
(* detector looks at, and getValidator() counts after each of them.        *)
(***************************************************************************)
EXTENDS Naturals, FiniteSets

CONSTANTS
  Length,  \* poljeSlika.length: 50
  Needed   \* frames with the marker that make it steady: 10

ASSUME ConstantsAssumption ==
  /\ Length \in Nat /\ Length >= 2
  /\ Needed \in Nat \ {0}

VARIABLES
  poljeSlika,  \* the ring; its last element is never written nor counted
  pozicija     \* where the next frame goes

ringVars == <<poljeSlika, pozicija>>

Used == 0 .. Length - 2

RingTypeOK ==
  /\ poljeSlika \in [0 .. Length - 1 -> BOOLEAN]
  /\ pozicija \in Used

RingInit ==
  /\ poljeSlika = [i \in 0 .. Length - 1 |-> FALSE]
  /\ pozicija = 0

\* Mutants of NextPlace: wraps one place too late, or one too early.
NextPlaceLate == IF pozicija + 1 > Length - 1 THEN 0 ELSE pozicija + 1
NextPlaceEarly == IF pozicija + 1 >= Length - 2 THEN 0 ELSE pozicija + 1

NextPlace == IF pozicija + 1 >= Length - 1 THEN 0 ELSE pozicija + 1

valid(pronaden) ==
  /\ poljeSlika' = [poljeSlika EXCEPT ![pozicija] = pronaden]
  /\ pozicija' = NextPlace

\* Mutant of getValidator: wants one frame more.
MoreThanNeeded == Cardinality({i \in Used : poljeSlika[i]}) > Needed

getValidator == Cardinality({i \in Used : poljeSlika[i]}) >= Needed

RingNext == \E pronaden \in BOOLEAN : valid(pronaden)

RingSpec == RingInit /\ [][RingNext]_ringVars

-----------------------------------------------------------------------------
\* The i-th oldest frame is i - 1 places after pozicija, around the ring.
PlaceOf(i) ==
  IF pozicija + i - 1 < Length - 1 THEN pozicija + i - 1
                                   ELSE pozicija + i - Length

Oldest == [i \in 1 .. Length - 1 |-> poljeSlika[PlaceOf(i)]]

Window == INSTANCE SlidingWindow WITH Width <- Length - 1, window <- Oldest

\* The ring forgets a frame exactly when Length - 1 later ones have been seen,
\* across any number of wraps: an old frame is neither kept nor lost.
ImplementsSlidingWindow == Window!Spec

\* Counting the ring from its start, as getValidator() does, gives what
\* counting the last Length - 1 frames would.
ValidatorIsSteady == getValidator <=> Window!Steady
=============================================================================
