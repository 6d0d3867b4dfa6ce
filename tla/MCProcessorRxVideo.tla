------------------------- MODULE MCProcessorRxVideo -------------------------
(***************************************************************************)
(* Instances of ProcessorRxVideo for TLC.                                  *)
(***************************************************************************)
EXTENDS ProcessorRxVideo

MCBlocks == 0 .. 4

ThreeBlocks == 0 .. 2

Whole == [data |-> 2, ec |-> 1, size |-> 1]
Cut   == [data |-> 1, ec |-> 0, size |-> 1]
Plain == [data |-> 2, ec |-> 0, size |-> 1]
Long  == [data |-> 3, ec |-> 0, size |-> 1]
Large == [data |-> 2, ec |-> 1, size |-> 2]

\* Every block has a scheme of its own: EC is switched off in the middle of
\* the stream, and the block that ends a frame is cut short or stretched.
SchemeOfEach ==
  [blk \in MCBlocks |-> {CASE blk \in {0, 2} -> Whole
                           [] blk = 1 -> Cut
                           [] blk = 3 -> Long
                           [] blk = 4 -> Plain}]

\* Blocks that change scheme or packet size when the stream restarts.
MixedSchemes == [blk \in ThreeBlocks |-> {Whole, Cut, Large}]

PlainScheme == [blk \in ThreeBlocks |-> {Plain}]
=============================================================================
