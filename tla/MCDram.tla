------------------------------- MODULE MCDram -------------------------------
(***************************************************************************)
(* For the DMA lines of two and four words in a memory of sixteen; for the *)
(* arbiter the video modes of video_mode.v, and other values of video_bw.  *)
(***************************************************************************)
EXTENDS Dram

\* A source before and a destination at the end of memory, and in mid-line.
MCAddrs == {<<1, 14>>, <<6, 3>>}

Align(s, d, z) == [salgn |-> s, dalgn |-> d, asz |-> z]

\* Copies are aligned in three ways, the others in two, of one line size; cram
\* and wtp, which go the ways of ide and spi, are not aligned.
Alignments(dev) ==
  CASE dev = "ram" ->
         {Align(FALSE, FALSE, FALSE), Align(TRUE, TRUE, FALSE), Align(FALSE, TRUE, TRUE)}
    [] dev \in {"cram", "wtp"} -> {Align(FALSE, FALSE, FALSE)}
    [] OTHER -> {Align(FALSE, FALSE, FALSE), Align(TRUE, TRUE, dev \in {"blt", "ide"})}

\* Devices in the directions they have.
Directions == {<<"ram", FALSE>>, <<"blt", TRUE>>, <<"fill", FALSE>>, <<"cram", TRUE>>,
               <<"wtp", FALSE>>} \cup ({"spi", "ide"} \X BOOLEAN)

Control(x, a) ==
  [dev |-> x[1], wr |-> x[2], salgn |-> a.salgn, dalgn |-> a.dalgn, asz |-> a.asz]

MCControls == UNION {{Control(x, a) : a \in Alignments(x[1])} : x \in Directions}

\* ZX, hi-colour, 256 colours and text; blocks that are all video (code 0);
\* and the largest share that leaves the Z80 a cycle.
MCBandwidths ==
  {[total |-> 8, code |-> 1], [total |-> 4, code |-> 1],
   [total |-> 2, code |-> 1], [total |-> 8, code |-> 4]}
  \cup [total : {2, 8}, code : {0}]
  \cup {[total |-> 8, code |-> 7]}

=============================================================================
