----------------------------- MODULE MCBufCache -----------------------------
(* A file, which callers lock, and a device, which they do not. *)
EXTENDS BufCache

CONSTANTS file, dev

MCBlocks    == {<<file, 0>>, <<file, 1>>, <<dev, 0>>}
MCDevBlocks == {<<dev, 0>>, <<dev, 1>>, <<dev, 2>>}
=============================================================================
