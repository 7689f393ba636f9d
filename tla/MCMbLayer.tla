----------------------------- MODULE MCMbLayer -----------------------------
(* Headers and macroblock syntaxes for MbLayer. *)
EXTENDS MbLayer

Each(v) == [q \in Quads |-> v]
At(qs, v) == [q \in Quads |-> IF q \in qs THEN v ELSE 0]

Plain ==
  [kind |-> "I_NxN", parts |-> <<>>, ref0 |-> FALSE, refs |-> Each(<<-1, -1>>), t8 |-> FALSE,
   luma |-> {}, chroma |-> 0, dc |-> {}, nz |-> Each(0), cb |-> Each(0), cr |-> Each(0),
   modes |-> Each(2), cpm |-> 0, delta |-> 0, field |-> FALSE]

(* A partition; d is the size of its vector differences. *)
Part(qs, r0, r1, d) ==
  [quads |-> qs, ref |-> <<r0, r1>>, mvd |-> <<d, IF d = 20 THEN 2 ELSE d>>,
   direct |-> FALSE, small |-> FALSE]
DirectPart(q) == [Part({q}, -1, -1, 0) EXCEPT !.direct = TRUE]

(* Intra *)
Nxn4  == [Plain EXCEPT !.luma = {0, 3}, !.nz = At({0}, 3), !.modes = [q \in Quads |-> q],
                       !.chroma = 1, !.dc = {"cb"}, !.cpm = 1, !.delta = 1]
Nxn8  == [Plain EXCEPT !.t8 = TRUE, !.luma = {1, 2}, !.nz = At({1, 2}, 4),
                       !.modes = [q \in Quads |-> 8 - q]]
Bare  == [Plain EXCEPT !.modes = Each(0)]
I16   == [Plain EXCEPT !.kind = "I_16x16", !.dc = {"y", "cr"}, !.chroma = 2,
                       !.luma = Quads, !.nz = At({0, 1}, 16), !.cb = At({1}, 2),
                       !.cr = At({2, 3}, 3), !.cpm = 2, !.delta = -1]
I16dc == [Plain EXCEPT !.kind = "I_16x16", !.dc = {"y"}]
IPcm  == [Plain EXCEPT !.kind = "I_PCM"]

(* P *)
PSkip == [Plain EXCEPT !.kind = "Skip", !.refs = Each(<<0, -1>>)]
P16   == [Plain EXCEPT !.kind = "Inter", !.parts = <<Part(Quads, 1, -1, 20)>>,
                       !.luma = {0}, !.nz = At({0}, 1)]
P16x8 == [Plain EXCEPT !.kind = "Inter",
            !.parts = <<Part({0, 1}, 0, -1, 2), Part({2, 3}, 1, -1, 20)>>,
            !.luma = {1, 2}, !.nz = At({1, 2}, 5), !.t8 = TRUE, !.delta = 1]
P8x8  == [Plain EXCEPT !.kind = "Inter",
            !.parts = <<Part({0}, 0, -1, 0), [Part({1}, 1, -1, 20) EXCEPT !.small = TRUE],
                        Part({2}, 1, -1, 2), Part({3}, 0, -1, 20)>>,
            !.luma = {3}, !.chroma = 2, !.dc = {"cr"}, !.cb = At({0, 3}, 1)]

P8x8ref0 == [P8x8 EXCEPT !.ref0 = TRUE, !.chroma = 0, !.dc = {}, !.cb = Each(0),
               !.parts = [k \in 1..4 |-> [P8x8.parts[k] EXCEPT !.ref = <<0, -1>>]]]

(* B *)
Derived == [q \in Quads |-> IF q < 2 THEN <<0, 1>> ELSE <<1, -1>>]
BSkip   == [Plain EXCEPT !.kind = "Skip", !.refs = Derived]
BSkip1  == [Plain EXCEPT !.kind = "Skip", !.refs = Each(<<-1, 1>>)]
BDirect == [Plain EXCEPT !.kind = "Direct", !.refs = Derived, !.t8 = TRUE,
                         !.luma = {2}, !.nz = At({2}, 2), !.chroma = 1, !.dc = {"cb"}]
B16L1   == [Plain EXCEPT !.kind = "Inter", !.parts = <<Part(Quads, -1, 1, 2)>>]
B8x16   == [Plain EXCEPT !.kind = "Inter", !.luma = {0, 1}, !.nz = At({1}, 2),
              !.parts = <<Part({0, 2}, 1, 0, 20), Part({1, 3}, -1, 1, 20)>>]
B8x16n  == [Plain EXCEPT !.kind = "Inter",
              !.parts = <<Part({0, 2}, 1, 0, 20), Part({1, 3}, 0, -1, 2)>>]
B8x8    == [Plain EXCEPT !.kind = "Inter", !.refs = Derived, !.delta = -1,
              !.parts = <<Part({0}, 1, 1, 20), DirectPart(1), Part({2}, -1, 0, 2), Part({3}, 0, -1, 2)>>,
              !.chroma = 2, !.cr = At({1, 2}, 2)]
B8x8t   == [B8x8 EXCEPT !.t8 = TRUE, !.luma = {0}, !.nz = At({0}, 7)]
B16bi   == [Plain EXCEPT !.kind = "Inter", !.parts = <<Part(Quads, 1, 0, 20)>>]

NoT8(X) == {[x EXCEPT !.t8 = FALSE] : x \in X}
InField(X) == {[x EXCEPT !.field = TRUE] : x \in X}

Base ==
  [cabac |-> TRUE, w |-> 2, mbaff |-> FALSE, numref |-> [l \in 0..1 |-> 2],
   constrained |-> FALSE, t8mode |-> TRUE, weight |-> 0, types |-> {"I"}, slices |-> 2,
   menu |-> [type \in {"I", "P", "B"} |->
               CASE type = "I" -> {Nxn4, Nxn8, I16, IPcm}
                 [] type = "P" -> {PSkip, P16x8, P8x8, Nxn4}
                 [] type = "B" -> {BSkip, BDirect, B8x16, B8x8}]]

For(h, type, menu) == [h EXCEPT !.types = {type}, !.menu[type] = menu]
Cavlc(h) == [h EXCEPT !.cabac = FALSE]
Pairs(h, w) == [h EXCEPT !.mbaff = TRUE, !.w = w]
Refs(h, n0, n1) == [h EXCEPT !.numref = [l \in 0..1 |-> IF l = 0 THEN n0 ELSE n1]]

CabacHeaders ==
  <<Base, For(Base, "I", {Bare, I16dc, Nxn8, IPcm}),
   [For(Base, "P", {PSkip, P16x8, P8x8, I16}) EXCEPT !.constrained = TRUE],
   [For(Base, "P", {PSkip, P16, IPcm, Nxn8}) EXCEPT !.weight = 1],
   [For(Base, "P", NoT8({P16, P16x8, Nxn4})) EXCEPT !.t8mode = FALSE, !.constrained = TRUE],
   For(Base, "B", {BSkip, BDirect, B8x16, B8x8}),
   [For(Base, "B", {BSkip1, B16bi, B8x8t, Nxn8}) EXCEPT !.weight = 2],
   [For(Base, "B", {B16L1, B8x16, I16, IPcm}) EXCEPT !.weight = 1],
   Refs(For(Base, "B", {B16bi, B8x16n, Nxn4}), 2, 1),
   [Base EXCEPT !.types = {"I", "P"}, !.menu["I"] = {Nxn8, I16}, !.menu["P"] = {PSkip, P8x8}]>>

PairHeaders ==
  <<Pairs(For(Base, "I", {Nxn4, I16, Nxn8}), 1), Pairs(For(Base, "I", {Nxn4, Bare, I16}), 2),
   Pairs(For(Base, "I", InField({Nxn4, Nxn8, I16})), 2),
   Pairs(For(Base, "P", {PSkip, P16x8, P8x8}), 1),
   Refs(Pairs(For(Base, "P", {PSkip} \cup InField({P16x8, P8x8, Nxn8})), 2), 1, 1),
   Pairs(For(Base, "B", {BSkip} \cup InField({BDirect, B8x8, B8x16})), 2)>>

CavlcOnly == <<Cavlc(Base)>>
InCavlc(hs) == [k \in DOMAIN hs |-> Cavlc(hs[k])]
Ref0Headers ==
  InCavlc(<<For(Base, "P", {PSkip, P8x8ref0, P8x8, Nxn4}),
            Refs(Pairs(For(Base, "P", {PSkip} \cup InField({P8x8ref0, P16x8})), 2), 1, 1)>>)
AllHeaders ==
  CabacHeaders \o PairHeaders \o InCavlc(CabacHeaders) \o InCavlc(PairHeaders) \o Ref0Headers
=============================================================================
