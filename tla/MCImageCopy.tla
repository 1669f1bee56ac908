---------------------------- MODULE MCImageCopy ----------------------------
(* Images of every format, with holes, odd ends, short files, segments out *)
(* of order and lists of one and two runs, in pages of two bytes.          *)
EXTENDS ImageCopy, TLC

Img(f, segs, n) == [format |-> f, segs |-> segs, fsize |-> n]
Pages(b, n) == [base |-> b, count |-> n]
Seg(s, o, n) == [start |-> s, off |-> o, len |-> n]
Lime(s, e) == [start |-> s, end |-> e]

MCSources ==
  {Img("raw", <<>>, n) : n \in {1, 4, 5}}
  \cup {Img("hpak", <<2>>, n) : n \in {4, 6}}
  \cup {Img("crash", <<Pages(b, 1), Pages(c, 2)>>, n) :
          b \in {0, 1}, c \in {2, 3}, n \in {6, 7, 8}}
  \cup {Img("lime", 0 :> Lime(a, a + 2) @@ 4 :> Lime(b, b + 1), n) :
          a \in {0, 2}, b \in {5, 6}, n \in {6, 7}}
  \cup {Img("lime", 0 :> Lime(1, 2) @@ 3 :> Lime(4, 6) @@ 7 :> Lime(7, 8), n) :
          n \in {9, 10}}
  \cup {Img("list", <<Seg(a, o, 2), Seg(b, 2 - o, 2)>>, n) :
          o \in {0, 2}, a \in {0, 4}, b \in {2, 6}, n \in {3, 4}}
=============================================================================
