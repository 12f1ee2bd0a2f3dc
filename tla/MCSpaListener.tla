--------------------------- MODULE MCSpaListener ---------------------------
(***************************************************************************)
(* SpaListener for TLC, scaled down.  A delimiter counts as a length of 9, *)
(* a frame has 7 bytes: as with the real 126 and 31, a body that begins    *)
(* behind two delimiters ends in the fourth byte of a later frame.         *)
(***************************************************************************)
EXTENDS SpaListener, Checksum

\* The checksum of Hidden is a delimiter.
Ordinary == <<12, 4, 65>>
Hidden   == <<12, 4, 64>>

SomeBodies    == {Ordinary, Hidden}
SomeBadBodies == {Hidden}
============================================================================
