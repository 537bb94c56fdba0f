--------------------------- MODULE MCElfBuilder ----------------------------
(* The builder under writes that meet its boundaries.  From the first byte *)
(* of text 39856 more end exactly at the capacity 43952 of the growth      *)
(* sequence; 65536 keep the end of the text on a page boundary, and the    *)
(* bound lets the text reach every capacity up to the last one behind      *)
(* which the buffer of standard input and output still fits.  Strings of   *)
(* about a page reach past what the start of the data segment asked for.   *)
EXTENDS ElfBuilder

MCTextSizes == {39856, 65536}
MCDataSizes == {2500, 4096}
MCMaxText   == 729087
MCMaxData   == 8192
=============================================================================
