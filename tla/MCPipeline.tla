----------------------------- MODULE MCPipeline -----------------------------
(* A small page for TLC. *)
EXTENDS Pipeline

Written(x, y, w, h, ink) == [x |-> x, y |-> y, w |-> w, h |-> h, ink |-> ink, line |-> FALSE]

(* A signature, a letter beside it, a third of it further off, a printed   *)
(* corner mark, a block as dense as print, and a ruled line close below    *)
(* the signature.                                                          *)
PageMarks ==
  {Written(300, 200, 300, 120, 5000), Written(640, 230, 60, 80, 900),
   Written(750, 220, 200, 100, 3000), Written(40, 540, 30, 30, 250),
   Written(700, 400, 100, 100, 9500),
   [x |-> 40, y |-> 330, w |-> 900, h |-> 4, ink |-> 3600, line |-> TRUE]}
=============================================================================
