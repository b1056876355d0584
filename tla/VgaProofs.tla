----------------------------- MODULE VgaProofs -----------------------------
(* Vga: the frame clock ticks while the picture is blanked.                *)
EXTENDS Vga, TLAPS

LEMMA VgaTypeStep == VgaTypeOK /\ [VgaNext]_vgaVars => VgaTypeOK'
  <1> SUFFICES ASSUME VgaTypeOK, [VgaNext]_vgaVars PROVE VgaTypeOK'
    OBVIOUS
  <1>1. CASE Reset
    BY <1>1 DEF Reset, VgaTypeOK, hpixels, vlines
  <1>2. CASE PixelClock
    <2>1. hc' \in 0..hpixels /\ vc' \in 0..vlines
      <3>1. CASE hc = hpixels
        <4>1. hc' = 0 /\ vc' = IF vc = vlines THEN 0 ELSE vc + 1
          BY <1>2, <3>1 DEF PixelClock, Counters
        <4> QED BY <4>1 DEF VgaTypeOK, hpixels, vlines
      <3>2. CASE hc # hpixels
        <4>1. hc' = hc + 1 /\ vc' = vc
          BY <1>2, <3>2 DEF PixelClock, Counters
        <4> QED BY <3>2, <4>1 DEF VgaTypeOK, hpixels, vlines
      <3> QED BY <3>1, <3>2
    <2>2. hs' \in {0, 1} /\ vs' \in {0, 1}
      BY <1>2 DEF PixelClock, HSync, VSync
    <2> QED BY <2>1, <2>2 DEF VgaTypeOK
  <1>3. CASE UNCHANGED vgaVars
    BY <1>3 DEF vgaVars, VgaTypeOK
  <1> QED BY <1>1, <1>2, <1>3 DEF VgaNext

(* The counters of vgaController.sv stay on the raster (lines 61-80).      *)
THEOREM VgaTypeCorrect == VgaSpec => []VgaTypeOK
  <1>1. VgaInit => VgaTypeOK
    BY DEF VgaInit, VgaTypeOK, hpixels, vlines
  <1> QED BY <1>1, VgaTypeStep, PTL DEF VgaSpec

(* The strengthening: where the beam is while the sync signals, registered *)
(* from the counters plus one, are low.                                    *)
SyncInv ==
  \/ JustReset
  \/ /\ hs = 0 <=> hc \in 656..751
     /\ vs = 0 <=> (vc = 489 /\ hc > 0) \/ vc = 490 \/ (vc = 491 /\ hc = 0)

LEMMA SyncStep ==
  ASSUME VgaTypeOK, SyncInv, [VgaNext]_vgaVars
  PROVE  SyncInv'
  <1>1. CASE Reset
    BY <1>1 DEF Reset, SyncInv, JustReset
  <1>2. CASE PixelClock
    <2>1. hs' = 0 <=> hc' \in 656..751
      BY <1>2 DEF PixelClock, Counters, HSync, VgaTypeOK, hpixels, vlines
    <2>2. vs' = 0 <=> vc + 1 \in {490, 491}
      BY <1>2 DEF PixelClock, VSync
    <2>3. CASE hc = hpixels
      <3>1. hc' = 0 /\ vc' = IF vc = vlines THEN 0 ELSE vc + 1
        BY <1>2, <2>3 DEF PixelClock, Counters
      <3> QED BY <2>1, <2>2, <3>1 DEF SyncInv, VgaTypeOK, vlines
    <2>4. CASE hc # hpixels
      <3>1. hc' = hc + 1 /\ vc' = vc
        BY <1>2, <2>4 DEF PixelClock, Counters
      <3> QED BY <2>1, <2>2, <3>1 DEF SyncInv, VgaTypeOK
    <2> QED BY <2>3, <2>4
  <1>3. CASE UNCHANGED vgaVars
    BY <1>3 DEF vgaVars, SyncInv, JustReset
  <1> QED BY <1>1, <1>2, <1>3 DEF VgaNext

LEMMA FrameStep ==
  ASSUME VgaTypeOK, SyncInv, [VgaNext]_vgaVars, FrameClk
  PROVE  JustReset \/ (~display /\ ~display')
  <1> SUFFICES ASSUME ~JustReset PROVE ~display /\ ~display'
    OBVIOUS
  <1>1. PixelClock
    BY DEF VgaNext, Reset, FrameClk, vgaVars
  <1>2. vc >= 489
    BY DEF SyncInv, FrameClk
  <1>3. vc = 491 /\ hc = 0
    BY <1>1, <1>2 DEF SyncInv, FrameClk, PixelClock, VSync, VgaTypeOK
  <1>4. vc' = 491
    BY <1>1, <1>3 DEF PixelClock, Counters, hpixels
  <1> QED BY <1>3, <1>4 DEF display

(* The game never moves while its picture is being drawn, but for the edge *)
(* that ends a Reset (vgaController.sv:100-119, topLevel.sv:177, 185).     *)
THEOREM FramesAreNotTorn == VgaSpec => NoTornFrames
  <1>1. VgaInit => VgaTypeOK /\ SyncInv
    BY DEF VgaInit, VgaTypeOK, SyncInv, JustReset, hpixels, vlines
  <1>2. VgaTypeOK /\ SyncInv /\ [VgaNext]_vgaVars
          => [FrameClk => JustReset \/ (~display /\ ~display')]_vgaVars
    BY FrameStep
  <1> QED BY <1>1, <1>2, VgaTypeStep, SyncStep, PTL DEF VgaSpec, NoTornFrames

=============================================================================
