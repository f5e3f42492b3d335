-------------------------- MODULE MCNativePlayback --------------------------
(* Instances of NativePlayback for TLC.                                    *)
EXTENDS NativePlayback, TLC

CONSTANTS t1, t2

TwoTurns    == <<t1, t2>>
TwoChunks   == 0 .. 1
ThreeChunks == 0 .. 2
ShortLens   == 0 .. 1

(* The windows are interchangeable where no property names one of them.    *)
SameWindows == Permutations(Windows)
=============================================================================
