------------------------------- MODULE Removal -------------------------------
(* A sequence without some of its elements: the others, in their order.    *)
EXTENDS Naturals, Sequences

Without(s, gone) ==
  LET kept[k \in 0 .. Len(s)] ==
        IF k = 0 THEN << >>
        ELSE IF s[k] \in gone THEN kept[k - 1]
        ELSE Append(kept[k - 1], s[k])
  IN kept[Len(s)]
=============================================================================
