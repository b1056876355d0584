------------------------------- MODULE MCVga -------------------------------
(* The whole raster of 800 by 525, with Reset at any pixel.                *)
EXTENDS Vga

=============================================================================
