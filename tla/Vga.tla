-------------------------------- MODULE Vga --------------------------------
(***************************************************************************)
(* vgaController.sv: the beam position and the sync signals, which are     *)
(* also the clocks of the game: the rising edge of vs is the frame_clk of  *)
(* ball.sv and paddle.sv. One step is a rising edge of the pixel clock     *)
(* (clkdiv, half of Clk) or of Reset.                                      *)
(***************************************************************************)
EXTENDS Integers

hpixels == 799
vlines == 524

VARIABLES hc, vc, hs, vs

vgaVars == <<hc, vc, hs, vs>>

VgaInit == hc = 0 /\ vc = 0 /\ hs = 0 /\ vs = 0

Reset == hc' = 0 /\ vc' = 0 /\ hs' = 0 /\ vs' = 0

Counters ==
  IF hc = hpixels
  THEN hc' = 0 /\ vc' = IF vc = vlines THEN 0 ELSE vc + 1
  ELSE hc' = hc + 1 /\ UNCHANGED vc

(* The comparisons look one pixel and one line ahead of the counters.      *)
HSync == IF hc + 1 \in 656..751 THEN 0 ELSE 1

(* Slips: lines the counter never reaches; the lines of the front porch    *)
(* counted from the wrong end of the picture.                              *)
VSyncSlip == IF vc + 1 \in {vlines + 2, vlines + 3} THEN 0 ELSE 1
VSyncEarlySlip == IF vc + 1 \in {10, 11} THEN 0 ELSE 1

VSync == IF vc + 1 \in {490, 491} THEN 0 ELSE 1

PixelClock == Counters /\ hs' = HSync /\ vs' = VSync

VgaNext == Reset \/ PixelClock

VgaSpec == VgaInit /\ [][VgaNext]_vgaVars

(* clkdiv divides a free-running oscillator; holding Reset down is a delay *)
(* of the next pixel.                                                      *)
VgaFairSpec == VgaSpec /\ WF_vgaVars(PixelClock)

(* blank: the beam is on the picture.                                      *)
display == hc < 640 /\ vc < 480

(***************************************************************************)
(* Properties                                                              *)
(***************************************************************************)

(* The counters stay on the raster.                                        *)
VgaTypeOK ==
  /\ hc \in 0..hpixels /\ vc \in 0..vlines
  /\ hs \in {0, 1} /\ vs \in {0, 1}

JustReset == hc = 0 /\ vc = 0 /\ hs = 0

FrameClk == vs = 0 /\ vs' = 1

(* The game moves while no pixel of it is drawn, so no picture shows half  *)
(* a frame of the ball and half of the next - except the edge that Reset   *)
(* itself causes, because it holds vs low (vgaController.sv:102-108,       *)
(* topLevel.sv:177, 185).                                                  *)
NoTornFrames == [][FrameClk => JustReset \/ (~display /\ ~display')]_vgaVars

(* The frame clock never stops (what the fairness of the ball rests on).   *)
FrameClockRuns == []<>(vs = 0) /\ []<>(vs = 1)

=============================================================================
