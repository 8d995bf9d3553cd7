------------------------------ MODULE MCUartRx ------------------------------
\* Frames for TLC: four bytes, the values 3 and 4 standing for the headers FE
\* and FF, and 1 after FE for the commands that reset the chip.
EXTENDS UartRx

MCHeader == {3, 4}
MCReset  == {1}

\* A frame with the right checksum.
Framed(h, x, y) ==
    [k \in Pos |-> CASE k = 0 -> h [] k = 1 -> x [] k = 2 -> y [] OTHER -> (h + x + y) % Radix]

\* Frames of each kind: resets, frames with the value of a header among their
\* data or as their checksum, and frames with it in the first byte only.
KindsOfFrames == {Framed(h, x, y) : h \in Header, x \in {0, 1, 3}, y \in {0, 4}}

\* A few frames with the value of a header among the other bytes.
MixedFrames == {Framed(4, 3, 0), Framed(4, 0, 0)}
=============================================================================
