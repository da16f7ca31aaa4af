--------------------------- MODULE MCSoundStream ---------------------------
(***************************************************************************)
(* SoundStream with a file that is longer than two pages.                  *)
(***************************************************************************)
EXTENDS SoundStream

TheLoops == {<<1, 3>>}
NoLoops == {}

=============================================================================
