---------------------------- MODULE MCIvySocket ----------------------------
(* IvySocket with frames of two to four bytes against a kernel that holds   *)
(* two: every frame may be cut anywhere between the kernel and the FIFO.    *)
EXTENDS IvySocket

MCByte == (1 .. NFrames) \X (0 .. 3)
MCIdLens == {1}
MCBodyLens == {0, 1}
=============================================================================
