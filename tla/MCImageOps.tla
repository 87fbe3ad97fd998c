----------------------------- MODULE MCImageOps -----------------------------
(* Frames of 7 by 7 pixels.  An object is made of one, two or three blocks of  *)
(* three by three pixels, apart, touching at a corner or overlapping, with     *)
(* specks that the opening removes; a four-blob frame uses up the labels.      *)
EXTENDS ImageOps

MCGround == <<90, 90, 90>>
BrightGreen == <<20, 200, 60>>

\* Colors at both sides of each limit: hue 90 and 180, saturation, value.
Colors == {<<100, 200, 0>>, <<101, 200, 0>>, <<0, 200, 200>>, <<0, 199, 200>>,
           <<150, 200, 150>>, <<151, 200, 151>>, <<0, 26, 0>>, <<0, 25, 0>>,
           <<200, 200, 0>>, <<200, 0, 100>>, <<0, 0, 0>>}

Object(C) == UNION {Block(c) : c \in C}
Centers == {{c} : c \in Interior} \cup {{c, d} : c, d \in Interior}
           \cup {{<<1, 1>>, c, d} : c, d \in {<<x, y>> \in Interior : x + y > 6}}
           \cup {{<<1, 1>>, <<5, 1>>, <<1, 5>>, <<5, 5>>}}
Specks == {{}, {<<0, 0>>, <<6, 3>>}, {<<x, 3>> : x \in 0 .. 6}}

MCFrames == [object : {Object(C) \cup S : C \in Centers, S \in Specks},
             color : {BrightGreen}]
            \cup [object : {Object({<<3, 3>>})}, color : Colors]
=============================================================================
