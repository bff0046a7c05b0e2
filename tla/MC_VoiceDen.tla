----------------------------- MODULE MC_VoiceDen -----------------------------
(***************************************************************************)
(* Small instances of VoiceDen for TLC.                                    *)
(***************************************************************************)
EXTENDS VoiceDen

CONSTANTS h1, h2, a, b, c, x1, x2

MCSlots == {h1, h2}
MCSeats == {a, b, c}
MCSockets == {x1, x2}

\* What follows a race is left to the two runs that look for it.
MCUnraced == ~raced
=============================================================================
