----------------------------- MODULE MCMvLayer -----------------------------
(* Headers and macroblock syntaxes for MvLayer. *)
EXTENDS MvLayer

Part(rect, shape, part, r0, r1, d0, d1) ==
  [rect |-> rect, shape |-> shape, part |-> part, ref |-> <<r0, r1>>, mvd |-> <<d0, d1>>,
   mv |-> <<Zero, Zero>>, direct |-> FALSE]
Whole(r0, r1, d)  == Part(<<0, 0, 4, 4>>, "16x16", 0, r0, r1, d, d)
Upper(r0, r1, d)  == Part(<<0, 0, 4, 2>>, "16x8", 0, r0, r1, d, <<d[2], 1>>)
Lower(r0, r1, d)  == Part(<<0, 2, 4, 2>>, "16x8", 1, r0, r1, d, <<1, d[1]>>)
Left(r0, r1, d)   == Part(<<0, 0, 2, 4>>, "8x16", 0, r0, r1, d, <<d[2], 2>>)
Right(r0, r1, d)  == Part(<<2, 0, 2, 4>>, "8x16", 1, r0, r1, d, <<3, d[1]>>)
Sub(x, y, w, h, r0, r1) == Part(<<x, y, w, h>>, "sub", 0, r0, r1, <<x + 1, y - 3>>, <<y - x, 2 * w>>)
Direct(x, y, w, h) == [Sub(x, y, w, h, -1, -1) EXCEPT !.direct = TRUE]

Mb(kind, parts) == [kind |-> kind, parts |-> parts]
Intra == Mb("Intra", <<>>)
PSkip == Mb("Skip", <<Whole(0, -1, Zero)>>)
P16   == Mb("Inter", <<Whole(0, -1, Zero)>>)
P16r1 == Mb("Inter", <<Whole(1, -1, <<4, -2>>)>>)
P16x8 == Mb("Inter", <<Upper(0, -1, <<-3, 1>>), Lower(1, -1, <<2, 5>>)>>)
P8x16 == Mb("Inter", <<Left(1, -1, <<1, 2>>), Right(0, -1, <<0, -4>>)>>)
P8x8  == Mb("Inter", <<Sub(0, 0, 2, 1, 0, -1), Sub(0, 1, 2, 1, 0, -1),
                       Sub(2, 0, 1, 1, 1, -1), Sub(3, 0, 1, 1, 1, -1), Sub(2, 1, 1, 1, 1, -1), Sub(3, 1, 1, 1, 1, -1),
                       Sub(0, 2, 1, 2, 1, -1), Sub(1, 2, 1, 2, 1, -1), Sub(2, 2, 2, 2, 0, -1)>>)
P8x8b == Mb("Inter", <<Sub(0, 0, 1, 1, 1, -1), Sub(1, 0, 1, 1, 1, -1), Sub(0, 1, 1, 1, 1, -1), Sub(1, 1, 1, 1, 1, -1),
                       Sub(2, 0, 2, 2, 0, -1), Sub(0, 2, 2, 1, 0, -1), Sub(0, 3, 2, 1, 0, -1),
                       Sub(2, 2, 1, 2, 1, -1), Sub(3, 2, 1, 2, 1, -1)>>)

Quarter == <<Direct(0, 0, 2, 2), Direct(2, 0, 2, 2), Direct(0, 2, 2, 2), Direct(2, 2, 2, 2)>>
BSkip == Mb("Direct", Quarter)
BFine == Mb("Direct", FlattenSeq([q \in 1..4 |-> LET x == 2 * ((q - 1) % 2)
                                                     y == 2 * ((q - 1) \div 2)
           IN <<Direct(x, y, 1, 1), Direct(x + 1, y, 1, 1), Direct(x, y + 1, 1, 1), Direct(x + 1, y + 1, 1, 1)>>]))
B16   == Mb("Inter", <<Whole(-1, 0, <<2, -1>>)>>)
B16x8 == Mb("Inter", <<Upper(-1, 1, <<-3, 1>>), Lower(1, 0, <<2, 5>>)>>)
B8x16 == Mb("Inter", <<Left(0, 1, <<1, 2>>), Right(0, -1, <<0, -4>>)>>)
B8x8  == Mb("Inter", <<Sub(0, 0, 2, 1, 1, 0), Sub(0, 1, 2, 1, 1, 0), Direct(2, 0, 2, 2),
                       Sub(0, 2, 1, 2, -1, 1), Sub(1, 2, 1, 2, -1, 1), Sub(2, 2, 2, 2, 0, -1)>>)
B8x8f == Mb("Inter", <<Direct(0, 0, 1, 1), Direct(1, 0, 1, 1), Direct(0, 1, 1, 1), Direct(1, 1, 1, 1),
                       Sub(2, 0, 2, 2, -1, 0), Sub(0, 2, 2, 2, 0, -1), Sub(2, 2, 2, 2, 1, 1)>>)

(* The co-located picture: moving, still from list 0, still from list 1. *)
ColBlock(r0, r1, v0, v1, poc) ==
  [ref |-> [l \in 0..1 |-> IF l = 0 THEN r0 ELSE r1], mv |-> [l \in 0..1 |-> IF l = 0 THEN v0 ELSE v1],
   poc |-> poc]
Col == [b \in Blocks |->
  CASE b[1] < 2 /\ b[2] < 2 -> ColBlock(0, -1, IF b = <<0, 0>> THEN <<1, -1>> ELSE <<9, 0>>, Zero, 0)
    [] b[1] > 1 /\ b[2] < 2 -> ColBlock(-1, 0, Zero, IF b = <<3, 0>> THEN <<0, 1>> ELSE <<5, 5>>, -1)
    [] b[1] < 2 /\ b[2] > 1 -> ColBlock(1, 0, <<0, 0>>, <<0, 0>>, 4)
    [] OTHER -> ColBlock(0, 0, IF b = <<3, 3>> THEN <<-7, 12>> ELSE <<0, 0>>, <<0, 0>>, 0)]

PMenu == {Intra, PSkip, P16, P16r1, P16x8, P8x16, P8x8, P8x8b}
BMenu == {Intra, BSkip, B16, B16x8, B8x16, B8x8}
Base ==
  [w |-> 2, mbaff |-> FALSE, fields |-> FALSE, type |-> "P", early |-> FALSE, spatial |-> TRUE,
   infer8x8 |-> TRUE, col |-> <<>>, longTerm |-> FALSE, colPoc |-> 12, poc |-> <<<<4, 0>>, <<12, 4>>>>, current |-> 8,
   menu |-> PMenu]
B == [Base EXCEPT !.type = "B", !.menu = BMenu]
Small == {PSkip, P16, P16x8, P8x16, P8x8}

AllHeaders ==
  <<Base, [Base EXCEPT !.early = TRUE, !.poc = <<<<4, 4>>, <<>>>>, !.menu = {Intra, PSkip, P16x8, P8x8, P8x8b}],
    B, [B EXCEPT !.early = TRUE, !.col = Col, !.poc = <<<<4, 0>>, <<4, 0>>>>],
    [B EXCEPT !.infer8x8 = FALSE, !.col = Col, !.menu = {BFine, B16, B8x8f, B16x8}],
    [B EXCEPT !.spatial = FALSE, !.col = Col, !.menu = {BSkip, B16, B8x8}],
    [B EXCEPT !.spatial = FALSE, !.infer8x8 = FALSE, !.col = Col, !.menu = {BFine, B8x8f}, !.current = 5],
    [Base EXCEPT !.mbaff = TRUE, !.w = 1, !.menu = Small],
    [Base EXCEPT !.mbaff = TRUE, !.menu = Small],
    [Base EXCEPT !.mbaff = TRUE, !.fields = TRUE, !.menu = Small]>>
=============================================================================
