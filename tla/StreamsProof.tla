---------------------------- MODULE StreamsProof ----------------------------
(***************************************************************************)
(* Output arrives and streams stay, for any number of captures inside one  *)
(* another, any size of a buffer and any number of slots.                  *)
(***************************************************************************)
EXTENDS Streams, InductionLemmas, SequenceTheorems, TLAPS

Chars == (UNION {Range(word) : word \in Words}) \ {"NUL"}
Symbols == Chars \cup {"NUL"}
Capture == [saved : Nat, buf : Seq(Symbols)]
Texts == Seq(Chars)

LEMMA WordsAreTexts == ASSUME NEW word \in Words PROVE word \in Texts
<1>1. word \in Seq(Range(word) \ {"NUL"})
  BY StreamsAssumption
<1>2. Range(word) \ {"NUL"} \subseteq Chars
  BY DEF Chars
<1> QED BY <1>1, <1>2, SeqMonotonic DEF Texts

-----------------------------------------------------------------------------
(* Captured output                                                         *)

\* A buffer holds the beginning of the text.  If it is full its last character
\* may be lost: writef() ends it with a NUL there.
Holds(buf, text) ==
  /\ Len(buf) <= BCAP_SIZE - 1 /\ Len(buf) <= Len(text)
  /\ Len(buf) < BCAP_SIZE - 1 => Len(buf) = Len(text)
  /\ \A i \in 1 .. Len(buf) :
       buf[i] = text[i] \/ (i = BCAP_SIZE - 1 /\ buf[i] = "NUL")

\* The hooks and the buffers form a stack, one buffer for each text but that
\* of the terminal.
OutputInv ==
  /\ captures \in Seq(Capture) /\ written \in Seq(Texts)
  /\ io_hooks = Len(captures) /\ Len(written) = Len(captures) + 1
  /\ terminal = written[1]
  /\ \A n \in 1 .. Len(captures) :
       /\ captures[n].saved = n - 1
       /\ Holds(captures[n].buf, written[n + 1])

\* What is left of a buffer that holds the beginning of a text reads as that
\* beginning, and as the whole of the text if there is room for it.
LEMMA HeldTextReads ==
  ASSUME NEW buf \in Seq(Symbols), NEW text \in Texts, Holds(buf, text)
  PROVE  /\ IsPrefix(c_str(buf), text)
         /\ Len(text) < BCAP_SIZE - 1 => c_str(buf) = text
<1> DEFINE L == Len(buf)
           T == Len(text)
           full == BCAP_SIZE - 1
<1>1. /\ L \in Nat /\ T \in Nat /\ DOMAIN buf = 1 .. L /\ full \in Nat
      /\ Len(buf) = L /\ Len(text) = T
  BY StreamsAssumption DEF Texts
<1>2. \A i \in 1 .. T : text[i] # "NUL"
  BY DEF Texts, Chars
<1>3. /\ L <= full /\ L <= T /\ (L < full => L = T)
      /\ \A i \in 1 .. L : buf[i] = text[i] \/ (i = full /\ buf[i] = "NUL")
  BY DEF Holds
<1>4. SUFFICES IsPrefix(c_str(buf), text) /\ (T < full => c_str(buf) = text)
  OBVIOUS
<1> HIDE DEF L, T, full
<1>5. CASE "NUL" \notin Range(buf)
  <2>1. \A i \in 1 .. L : buf[i] = text[i]
    BY <1>1, <1>3, <1>5 DEF Range
  <2>2. IsPrefix(buf, text)
    BY <1>1, <1>3, <2>1 DEF IsPrefix, Texts
  <2>3. T < full => buf = text
    BY <1>1, <1>3, <2>1 DEF Texts
  <2> QED BY <1>5, <2>2, <2>3 DEF c_str
<1>6. CASE "NUL" \in Range(buf)
  <2>1. PICK k \in 1 .. L : buf[k] = "NUL"
    BY <1>1, <1>6 DEF Range
  <2>2. \A i \in 1 .. L : buf[i] = "NUL" => i = L /\ L = full
    BY <1>1, <1>2, <1>3
  <2>3. {i \in 1 .. Len(buf) : buf[i] = "NUL"} = {L}
    BY <1>1, <2>1, <2>2
  <2>4. Min({L}) = L
    <3>1. {L} \subseteq Nat /\ {L} # {}
      BY <1>1
    <3> QED BY <3>1, MinOfNats
  <2>5. SelectInSeq(buf, LAMBDA ch : ch = "NUL") = L
    BY <2>3, <2>4 DEF SelectInSeq
  <2>6. c_str(buf) = SubSeq(buf, 1, L - 1)
    BY <1>6, <2>5 DEF c_str
  <2>7. \A i \in 1 .. L - 1 : buf[i] = text[i]
    BY <1>1, <1>3, <2>2
  <2>8. IsPrefix(SubSeq(buf, 1, L - 1), text)
    BY <1>1, <1>3, <2>1, <2>7 DEF IsPrefix, Texts
  <2>9. ~(T < full)
    BY <1>1, <1>3, <2>1, <2>2
  <2> QED BY <2>6, <2>8, <2>9
<1> QED BY <1>5, <1>6

\* A sequence made of the whole of one and the first n of another.
LEMMA AppendedPart ==
  ASSUME NEW S, NEW s \in Seq(S), NEW t \in Seq(S), NEW n \in 0 .. Len(t),
         NEW l, l = Len(s)
  PROVE  /\ s \o SubSeq(t, 1, n) \in Seq(S)
         /\ Len(s \o SubSeq(t, 1, n)) = l + n
         /\ \A i \in 1 .. l : (s \o SubSeq(t, 1, n))[i] = s[i]
         /\ \A i \in l + 1 .. l + n : (s \o SubSeq(t, 1, n))[i] = t[i - l]
<1>1. /\ SubSeq(t, 1, n) \in Seq(S) /\ Len(SubSeq(t, 1, n)) = n
      /\ \A i \in 1 .. n : SubSeq(t, 1, n)[i] = t[i]
  OBVIOUS
<1> DEFINE u == SubSeq(t, 1, n)
<1> HIDE DEF u
<1>2. /\ s \o u \in Seq(S) /\ Len(s \o u) = l + n
      /\ \A i \in 1 .. l + n : (s \o u)[i] = IF i <= l THEN s[i] ELSE u[i - l]
  BY <1>1, ConcatProperties DEF u
<1>3. \A i \in l + 1 .. l + n : u[i - l] = t[i - l]
  BY <1>1 DEF u
<1> QED BY <1>2, <1>3 DEF u

\* Either way of writing adds to a buffer as much of the word as it has room for.
LEMMA WriteHolds ==
  ASSUME NEW c \in Capture, NEW text \in Texts, NEW word \in Texts,
         Holds(c.buf, text)
  PROVE  /\ bcap_write_str(c, word) \in Capture
         /\ bcap_write_str(c, word).saved = c.saved
         /\ Holds(bcap_write_str(c, word).buf, text \o word)
<1> DEFINE B == Len(c.buf)
           T == Len(text)
           W == Len(word)
           full == BCAP_SIZE - 1
           len == Min({Len(word), BCAP_SIZE - Len(c.buf) - 1})
           new == c.buf \o SubSeq(word, 1, len)
<1>1. /\ c.buf \in Seq(Symbols) /\ B \in Nat /\ Len(c.buf) = B
      /\ T \in Nat /\ W \in Nat /\ full \in Nat /\ Len(word) = W
      /\ word \in Seq(Symbols)
  BY StreamsAssumption, SeqMonotonic DEF Texts, Capture, Symbols
<1>2. /\ B <= full /\ B <= T /\ (B < full => B = T)
      /\ \A i \in 1 .. B : c.buf[i] = text[i] \/ (i = full /\ c.buf[i] = "NUL")
  BY DEF Holds
<1>3. len = Min({W, full - B})
  <2>1. BCAP_SIZE - B - 1 = full - B
    BY <1>1, StreamsAssumption
  <2> QED BY <2>1
<1>4. bcap_write_str(c, word) = [c EXCEPT !.buf = new]
  BY DEF bcap_write_str
<1>5. /\ Len(text \o word) = T + W
      /\ \A i \in 1 .. T : (text \o word)[i] = text[i]
      /\ \A i \in T + 1 .. T + W : (text \o word)[i] = word[i - T]
  BY DEF Texts
<1>6. SUFFICES ASSUME NEW all, all = text \o word
               PROVE  /\ new \in Seq(Symbols) /\ Holds(new, all)
  BY <1>4 DEF Capture
<1> HIDE DEF len, B, T, W, full, new
<1>7. len \in {W, full - B} /\ len <= W /\ len <= full - B
  <2>1. {W, full - B} \subseteq Nat
    BY <1>1, <1>2
  <2> QED BY <1>3, <2>1, MinOfNats
<1>8. /\ new \in Seq(Symbols) /\ Len(new) = B + len
      /\ \A i \in 1 .. B : new[i] = c.buf[i]
      /\ \A i \in B + 1 .. B + len : new[i] = word[i - B]
  <2>1. len \in 0 .. Len(word)
    BY <1>1, <1>2, <1>7
  <2>2. ASSUME NEW buf, buf = c.buf
        PROVE  /\ buf \o SubSeq(word, 1, len) \in Seq(Symbols)
               /\ Len(buf \o SubSeq(word, 1, len)) = B + len
               /\ \A i \in 1 .. B : (buf \o SubSeq(word, 1, len))[i] = buf[i]
               /\ \A i \in B + 1 .. B + len :
                    (buf \o SubSeq(word, 1, len))[i] = word[i - B]
    <3>1. buf \in Seq(Symbols) /\ word \in Seq(Symbols) /\ B = Len(buf)
      BY <1>1, <2>2
    <3> QED BY SMTT(30), <2>1, <3>1, AppendedPart
  <2> QED BY <2>2 DEF new
<1>9. /\ B + len <= full /\ B + len <= T + W
      /\ B + len < full => B + len = T + W
  BY <1>1, <1>2, <1>7
<1>10. ASSUME NEW i \in 1 .. B + len
       PROVE  new[i] = all[i] \/ (i = full /\ new[i] = "NUL")
  <2>1. CASE i <= B
    BY SMTT(30), <1>1, <1>2, <1>5, <1>6, <1>7, <1>8, <2>1
  <2>2. CASE i > B
    <3>1. B = T
      BY <1>1, <1>2, <1>7, <2>2
    <3>2. i \in B + 1 .. B + len /\ i \in T + 1 .. T + W
      BY <1>1, <1>7, <2>2, <3>1
    <3> QED BY <1>5, <1>6, <1>8, <3>1, <3>2
  <2> QED BY <1>1, <1>7, <2>1, <2>2
<1> QED BY <1>5, <1>6, <1>8, <1>9, <1>10 DEF Holds, full

LEMMA WritefHolds ==
  ASSUME NEW c \in Capture, NEW text \in Texts, NEW word \in Texts,
         Holds(c.buf, text)
  PROVE  /\ bcap_writef(c, word) \in Capture
         /\ bcap_writef(c, word).saved = c.saved
         /\ Holds(bcap_writef(c, word).buf, text \o word)
<1> DEFINE B == Len(c.buf)
           T == Len(text)
           W == Len(word)
           full == BCAP_SIZE - 1
           part == c.buf \o SubSeq(word, 1, full - B - 1)
           new == part \o << "NUL" >>
<1>1. /\ c.buf \in Seq(Symbols) /\ B \in Nat /\ Len(c.buf) = B
      /\ T \in Nat /\ W \in Nat /\ full \in Nat /\ Len(word) = W
      /\ word \in Seq(Symbols)
  BY StreamsAssumption, SeqMonotonic DEF Texts, Capture, Symbols
<1>2. /\ B <= full /\ B <= T /\ (B < full => B = T)
      /\ \A i \in 1 .. B : c.buf[i] = text[i] \/ (i = full /\ c.buf[i] = "NUL")
  BY DEF Holds
<1>3. /\ Len(text \o word) = T + W
      /\ \A i \in 1 .. T : (text \o word)[i] = text[i]
      /\ \A i \in T + 1 .. T + W : (text \o word)[i] = word[i - T]
  BY DEF Texts
<1>4. BCAP_SIZE - B - 1 = full - B
  BY <1>1, StreamsAssumption
<1>5. CASE W < full - B
  BY <1>4, <1>5, WriteHolds DEF bcap_writef
<1>6. CASE full - B = 0
  <2>1. bcap_writef(c, word) = c
    <3>1. BCAP_SIZE - B - 1 = 0
      BY <1>4, <1>6
    <3>2. ~(W < 0)
      <4> HIDE DEF W
      <4> QED BY <1>1
    <3> QED BY <3>1, <3>2 DEF bcap_writef
  <2>2. ASSUME NEW all, all = text \o word
        PROVE  Holds(c.buf, all)
    <3> HIDE DEF B, T, W
    <3>1. B = full /\ Len(all) = T + W /\ B <= T + W
      BY <1>1, <1>2, <1>3, <1>6, <2>2
    <3>2. \A i \in 1 .. B : all[i] = text[i]
      BY <1>1, <1>2, <1>3, <2>2
    <3> QED BY <1>1, <1>2, <3>1, <3>2 DEF Holds
  <2> QED BY <2>1, <2>2
<1>7. CASE ~(W < full - B) /\ full - B # 0
  <2>1. bcap_writef(c, word) = [c EXCEPT !.buf = new]
    <3>1. /\ BCAP_SIZE - Len(c.buf) - 1 = full - B
          /\ SubSeq(word, 1, BCAP_SIZE - Len(c.buf) - 1 - 1) = SubSeq(word, 1, full - B - 1)
      BY <1>4
    <3> QED BY <1>7, <3>1 DEF bcap_writef
  <2>2. SUFFICES ASSUME NEW all, all = text \o word, NEW buf, buf = c.buf,
                        NEW n, n = full - B - 1,
                        NEW p, p = buf \o SubSeq(word, 1, n),
                        NEW q, q = p \o << "NUL" >>
                 PROVE  q \in Seq(Symbols) /\ Holds(q, all)
    BY <2>1 DEF Capture
  <2> HIDE DEF B, T, W, full
  <2>3. n \in 0 .. Len(word) /\ B = T /\ full <= T + W /\ B + n = full - 1
    <3>1. B \in Nat /\ T \in Nat /\ W \in Nat /\ full \in Nat /\ Len(word) = W
      BY <1>1
    <3>2. B <= full /\ (B < full => B = T) /\ ~(W < full - B) /\ full - B # 0
      BY <1>2, <1>7
    <3>3. n = full - B - 1
      BY <2>2
    <3> QED BY <3>1, <3>2, <3>3
  <2>4. buf \in Seq(Symbols) /\ word \in Seq(Symbols) /\ B = Len(buf)
    BY <1>1, <2>2
  <2>5. /\ p \in Seq(Symbols) /\ Len(p) = B + n
        /\ \A i \in 1 .. B : p[i] = buf[i]
        /\ \A i \in B + 1 .. B + n : p[i] = word[i - B]
    <3>1. n \in 0 .. Len(word)
      BY <2>3
    <3>2. /\ buf \o SubSeq(word, 1, n) \in Seq(Symbols)
          /\ Len(buf \o SubSeq(word, 1, n)) = B + n
          /\ \A i \in 1 .. B : (buf \o SubSeq(word, 1, n))[i] = buf[i]
          /\ \A i \in B + 1 .. B + n : (buf \o SubSeq(word, 1, n))[i] = word[i - B]
      BY SMTT(30), <2>4, <3>1, AppendedPart
    <3>3. p = buf \o SubSeq(word, 1, n)
      BY <2>2
    <3> QED BY <3>2, <3>3
  <2>6. q \in Seq(Symbols)
    BY <2>2, <2>5 DEF Symbols
  <2>7. /\ Len(q) = full /\ q[full] = "NUL"
        /\ \A i \in 1 .. full - 1 : q[i] = p[i]
    <3>1. full \in Nat /\ full # 0
      BY <1>1, <1>2, <1>7
    <3>2. p \in Seq(Symbols) /\ Len(p) = full - 1 /\ q = p \o << "NUL" >>
      BY <2>2, <2>3, <2>5
    <3> QED BY <3>1, <3>2
  <2>8. \A i \in 1 .. full : all[i] = IF i <= T THEN text[i] ELSE word[i - T]
    BY <1>1, <1>3, <2>2, <2>3
  <2>9. ASSUME NEW i \in 1 .. full - 1 PROVE q[i] = all[i]
    <3>1. CASE i <= B
      <4>1. i \in 1 .. B /\ i \in 1 .. full /\ i <= T /\ i # full
        BY <1>1, <2>3, <3>1
      <4>2. buf[i] = text[i]
        BY <1>2, <2>2, <4>1
      <4> QED BY <2>5, <2>7, <2>8, <4>1, <4>2
    <3>2. CASE i > B
      <4>1. i \in B + 1 .. B + n /\ i \in 1 .. full /\ ~(i <= T)
        BY <1>1, <2>3, <3>2
      <4> QED BY <2>3, <2>5, <2>7, <2>8, <4>1
    <3> QED BY <1>1, <3>1, <3>2
  <2>10. Len(all) = T + W
    BY <1>3, <2>2
  <2>11. \A i \in 1 .. full : q[i] = all[i] \/ (i = full /\ q[i] = "NUL")
    BY <1>1, <2>7, <2>9
  <2> QED BY <1>1, <2>3, <2>6, <2>7, <2>10, <2>11 DEF Holds, full
<1> QED BY <1>5, <1>6, <1>7

LEMMA InitOutput == StreamsInit => OutputInv
<1> SUFFICES ASSUME StreamsInit PROVE OutputInv
  OBVIOUS
<1>1. captures = << >> /\ captures \in Seq(Capture) /\ Len(captures) = 0 /\ io_hooks = 0
  BY DEF StreamsInit
<1>2. << >> \in Texts
  BY DEF Texts
<1>3. written \in Seq(Texts) /\ Len(written) = 1 /\ terminal = written[1]
  BY <1>2 DEF StreamsInit
<1> QED BY <1>1, <1>3 DEF OutputInv

LEMMA SlotsKeepOutput ==
  ASSUME OutputInv, UNCHANGED << captures, io_hooks, terminal, written >>
  PROVE  OutputInv'
BY DEF OutputInv, Holds

\* What is written on the terminal or in a capture is added to both texts.
LEMMA OutputKeeps ==
  ASSUME OutputInv, NEW word \in Words,
         NEW to \in Capture \cup {"none"},
         IF io_hooks = 0 THEN terminal' = terminal \o word /\ UNCHANGED captures
         ELSE /\ captures' = [captures EXCEPT ![io_hooks] = to]
              /\ to \in Capture /\ to.saved = captures[io_hooks].saved
              /\ Holds(to.buf, written[io_hooks + 1] \o word)
              /\ UNCHANGED terminal,
         Noted(word), UNCHANGED io_hooks
  PROVE  OutputInv'
<1> DEFINE n == Len(captures)
           old == written[n + 1]
<1>1. /\ captures \in Seq(Capture) /\ written \in Seq(Texts)
      /\ n \in Nat /\ Len(captures) = n /\ Len(written) = n + 1 /\ io_hooks = n
      /\ word \in Texts /\ DOMAIN captures = 1 .. n /\ DOMAIN written = 1 .. n + 1
  BY WordsAreTexts DEF OutputInv
<1>2. terminal = written[1]
      /\ \A k \in 1 .. n : /\ captures[k].saved = k - 1
                           /\ Holds(captures[k].buf, written[k + 1])
  BY DEF OutputInv
<1> HIDE DEF n
<1>3. old \in Texts /\ old \o word \in Texts
  BY <1>1 DEF Texts
<1>4. written' = [written EXCEPT ![n + 1] = old \o word]
  BY <1>1 DEF Noted
<1> HIDE DEF old
<1>5. /\ written' \in Seq(Texts) /\ Len(written') = n + 1
      /\ \A k \in 1 .. n + 1 : written'[k] = IF k = n + 1 THEN old \o word ELSE written[k]
  BY <1>1, <1>3, <1>4
<1>6. CASE n = 0
  <2>1. terminal' = written'[1]
    <3>1. terminal' = terminal \o word /\ terminal = written[1]
      BY <1>1, <1>2, <1>6
    <3>2. old = written[1]
      BY <1>6 DEF old
    <3>3. written'[1] = old \o word
      BY <1>5, <1>6
    <3> QED BY <3>1, <3>2, <3>3
  <2>2. captures' = captures /\ io_hooks' = n
    BY <1>1, <1>6
  <2> QED BY <1>1, <1>5, <1>6, <2>1, <2>2 DEF OutputInv
<1>7. CASE n # 0
  <2>1. /\ captures' = [captures EXCEPT ![n] = to] /\ terminal' = terminal
        /\ to \in Capture /\ to.saved = captures[n].saved /\ io_hooks' = n
        /\ Holds(to.buf, old \o word)
    BY <1>1, <1>7 DEF old
  <2>2. /\ captures' \in Seq(Capture) /\ Len(captures') = n
        /\ \A k \in 1 .. n : captures'[k] = IF k = n THEN to ELSE captures[k]
    BY <1>1, <1>7, <2>1
  <2>3. terminal' = written'[1]
    BY <1>1, <1>2, <1>5, <1>7, <2>1
  <2>4. ASSUME NEW k \in 1 .. n
        PROVE  captures'[k].saved = k - 1 /\ Holds(captures'[k].buf, written'[k + 1])
    <3>1. CASE k = n
      <4>1. captures'[k] = to /\ written'[k + 1] = old \o word
        BY <1>1, <1>5, <2>2, <3>1
      <4>2. to.saved = k - 1
        BY <1>2, <2>1, <3>1
      <4> QED BY <2>1, <4>1, <4>2
    <3>2. CASE k # n
      <4>1. captures'[k] = captures[k] /\ written'[k + 1] = written[k + 1]
        BY <1>1, <1>5, <2>2, <3>2
      <4> QED BY <1>2, <4>1
    <3> QED BY <3>1, <3>2
  <2> QED BY <1>5, <2>1, <2>2, <2>3, <2>4 DEF OutputInv
<1> QED BY <1>6, <1>7

LEMMA WriteKeeps ==
  ASSUME OutputInv, NEW word \in Words, Write(word) \/ Writef(word)
  PROVE  OutputInv'
<1> DEFINE c == captures[io_hooks]
           text == written[io_hooks + 1]
<1>1. Noted(word) /\ UNCHANGED io_hooks
  BY DEF Write, Writef, Output
<1>2. word \in Texts
  BY WordsAreTexts
<1>3. CASE io_hooks = 0
  <2>1. terminal' = terminal \o word /\ UNCHANGED captures
    BY <1>3 DEF Write, Writef, Output
  <2> QED BY <1>1, <1>3, <2>1, OutputKeeps
<1>4. CASE io_hooks # 0
  <2>1. c \in Capture /\ text \in Texts /\ Holds(c.buf, text)
    BY <1>4 DEF OutputInv
  <2> HIDE DEF c, text
  <2>2. ASSUME Write(word) PROVE OutputInv'
    <3>1. /\ captures' = [captures EXCEPT ![io_hooks] = bcap_write_str(c, word)]
          /\ UNCHANGED terminal
      BY <1>4, <2>2 DEF Write, Output, c
    <3>2. /\ bcap_write_str(c, word) \in Capture
          /\ bcap_write_str(c, word).saved = c.saved
          /\ Holds(bcap_write_str(c, word).buf, text \o word)
      BY <1>2, <2>1, WriteHolds
    <3> QED BY <1>1, <1>4, <3>1, <3>2, OutputKeeps DEF c, text
  <2>3. ASSUME Writef(word) PROVE OutputInv'
    <3>1. /\ captures' = [captures EXCEPT ![io_hooks] = bcap_writef(c, word)]
          /\ UNCHANGED terminal
      BY <1>4, <2>3 DEF Writef, Output, c
    <3>2. /\ bcap_writef(c, word) \in Capture
          /\ bcap_writef(c, word).saved = c.saved
          /\ Holds(bcap_writef(c, word).buf, text \o word)
      BY <1>2, <2>1, WritefHolds
    <3> QED BY <1>1, <1>4, <3>1, <3>2, OutputKeeps DEF c, text
  <2> QED BY <2>2, <2>3
<1> QED BY <1>3, <1>4

LEMMA BeginKeeps == ASSUME OutputInv, with_output_to PROVE OutputInv'
<1> DEFINE n == Len(captures)
           new == [saved |-> io_hooks, buf |-> << >>]
<1>1. /\ captures \in Seq(Capture) /\ written \in Seq(Texts)
      /\ n \in Nat /\ Len(captures) = n /\ Len(written) = n + 1 /\ io_hooks = n
      /\ terminal = written[1]
  BY DEF OutputInv
<1>2. \A k \in 1 .. n : /\ captures[k].saved = k - 1
                        /\ Holds(captures[k].buf, written[k + 1])
  BY DEF OutputInv
<1>3. /\ captures' = Append(captures, new) /\ io_hooks' = n + 1
      /\ written' = Append(written, << >>) /\ terminal' = terminal
  BY DEF with_output_to
<1>4. new \in Capture /\ new.saved = io_hooks /\ new.buf = << >> /\ << >> \in Texts
  BY <1>1 DEF Capture, Texts
<1>5. Holds(<< >>, << >>)
  BY StreamsAssumption DEF Holds
<1> HIDE DEF n, new
<1>6. /\ captures' \in Seq(Capture) /\ Len(captures') = n + 1
      /\ \A k \in 1 .. n + 1 : captures'[k] = IF k = n + 1 THEN new ELSE captures[k]
  BY <1>1, <1>3, <1>4
<1>7. /\ written' \in Seq(Texts) /\ Len(written') = n + 2
      /\ \A k \in 1 .. n + 2 : written'[k] = IF k = n + 2 THEN << >> ELSE written[k]
  BY <1>1, <1>3, <1>4
<1>8. terminal' = written'[1]
  BY <1>1, <1>3, <1>7
<1>9. ASSUME NEW k \in 1 .. n + 1
      PROVE  captures'[k].saved = k - 1 /\ Holds(captures'[k].buf, written'[k + 1])
  <2>1. CASE k = n + 1
    BY <1>1, <1>4, <1>5, <1>6, <1>7, <2>1
  <2>2. CASE k # n + 1
    <3>1. k \in 1 .. n /\ captures'[k] = captures[k] /\ written'[k + 1] = written[k + 1]
      BY <1>1, <1>6, <1>7, <2>2
    <3> QED BY <1>2, <3>1
  <2> QED BY <2>1, <2>2
<1> QED BY <1>1, <1>3, <1>6, <1>7, <1>8, <1>9 DEF OutputInv

LEMMA EndKeeps ==
  ASSUME OutputInv, NEW ok \in BOOLEAN, CaptureEnds(ok)
  PROVE  OutputInv'
<1> DEFINE n == Len(captures)
<1>1. /\ captures \in Seq(Capture) /\ written \in Seq(Texts)
      /\ n \in Nat /\ Len(captures) = n /\ Len(written) = n + 1 /\ io_hooks = n
      /\ terminal = written[1] /\ n # 0
  BY DEF OutputInv, CaptureEnds
<1>2. \A k \in 1 .. n : /\ captures[k].saved = k - 1
                        /\ Holds(captures[k].buf, written[k + 1])
  BY DEF OutputInv
<1>3. /\ captures' = SubSeq(captures, 1, n - 1) /\ written' = SubSeq(written, 1, Len(written) - 1)
      /\ io_hooks' = captures[n].saved /\ terminal' = terminal
  BY DEF CaptureEnds, Front, Last
<1> HIDE DEF n
<1>4. /\ captures' \in Seq(Capture) /\ Len(captures') = n - 1
      /\ \A k \in 1 .. n - 1 : captures'[k] = captures[k]
  BY <1>1, <1>3
<1>5. Len(written) - 1 = n
  BY <1>1
<1>6. /\ written' \in Seq(Texts) /\ Len(written') = n
      /\ \A k \in 1 .. n : written'[k] = written[k]
  BY <1>1, <1>3, <1>5
<1>7. io_hooks' = n - 1 /\ terminal' = written'[1]
  BY <1>1, <1>2, <1>3, <1>6
<1>8. ASSUME NEW k \in 1 .. n - 1
      PROVE  captures'[k].saved = k - 1 /\ Holds(captures'[k].buf, written'[k + 1])
  <2>1. k \in 1 .. n /\ captures'[k] = captures[k] /\ written'[k + 1] = written[k + 1]
    BY <1>1, <1>4, <1>6
  <2> QED BY <1>2, <2>1
<1> QED BY <1>1, <1>4, <1>6, <1>7, <1>8 DEF OutputInv

LEMMA OutputStep ==
  ASSUME OutputInv, [OutputNext \/ SlotsNext]_streamsVars PROVE OutputInv'
<1>1. ASSUME OutputNext PROVE OutputInv'
  BY SMTT(30), <1>1, WriteKeeps, BeginKeeps, EndKeeps DEF OutputNext
<1>2. ASSUME SlotsNext PROVE UNCHANGED << captures, io_hooks, terminal, written >>
  BY <1>2 DEF SlotsNext, Open, Close, read_line, WriteTo
<1>3. ASSUME UNCHANGED streamsVars
      PROVE  UNCHANGED << captures, io_hooks, terminal, written >>
  BY <1>3 DEF streamsVars
<1> QED BY <1>1, <1>2, <1>3, SlotsKeepOutput

\* What with_output_to/2 collects is the beginning of what its goal wrote, as
\* far as its buffer goes, and the terminal gets all that is written outside:
\* for every size of a buffer and any captures inside one another.
THEOREM TextsRightPlace == StreamsSpec => []TextsArrive
<1>1. OutputInv => TextsArrive
  <2> SUFFICES ASSUME OutputInv, NEW n \in DOMAIN captures
               PROVE  LET text == c_str(captures[n].buf)
                      IN /\ IsPrefix(text, written[n + 1])
                         /\ Len(written[n + 1]) < BCAP_SIZE - 1 => text = written[n + 1]
    BY DEF OutputInv, TextsArrive
  <2>1. /\ captures[n].buf \in Seq(Symbols) /\ written[n + 1] \in Texts
        /\ Holds(captures[n].buf, written[n + 1])
    <3>1. /\ captures \in Seq(Capture) /\ written \in Seq(Texts)
          /\ Len(written) = Len(captures) + 1 /\ n \in 1 .. Len(captures)
      BY DEF OutputInv
    <3>2. captures[n] \in Capture /\ written[n + 1] \in Texts
      BY <3>1
    <3>3. Holds(captures[n].buf, written[n + 1])
      BY <3>1 DEF OutputInv
    <3> QED BY <3>2, <3>3 DEF Capture
  <2> QED BY <2>1, HeldTextReads
<1>2. StreamsInit => OutputInv
  BY InitOutput
<1>3. OutputInv /\ [OutputNext \/ SlotsNext]_streamsVars => OutputInv'
  BY OutputStep
<1> QED BY <1>1, <1>2, <1>3, PTL DEF StreamsSpec

-----------------------------------------------------------------------------
(* Slots                                                                   *)

known == streams.held \cup streams.lost

HandleOK(s) ==
  /\ \E mode, path, text, at :
       s = [mode |-> mode, path |-> path, text |-> text, at |-> at]
  /\ s # Closed => s.mode # "closed"

\* The handles are those of the streams the program knows of, and no slot is
\* both held and lost.
SlotsInv ==
  /\ open_streams = [id \in Slots |-> open_streams[id]]
  /\ \A id \in Slots : HandleOK(open_streams[id])
  /\ streams = [held |-> streams.held, lost |-> streams.lost]
  /\ known \subseteq Slots \X Paths
  /\ \A s \in streams.held, z \in streams.lost : s[1] # z[1]
  /\ StreamsStay

LEMMA FreeSlot ==
  ASSUME free_slot < MAX_OPEN_STREAMS PROVE free_slot \in Slots /\ ~in_use(free_slot)
<1> DEFINE T == {id \in Slots : ~in_use(id)} \cup {MAX_OPEN_STREAMS}
<1>1. T \subseteq Nat /\ T # {}
  BY StreamsAssumption DEF Slots
<1>2. Min(T) \in T
  <2> HIDE DEF T
  <2> QED BY <1>1, MinOfNats
<1>3. free_slot \in T /\ free_slot # MAX_OPEN_STREAMS
  BY <1>2, StreamsAssumption DEF free_slot
<1> QED BY <1>3

WithText(r, text) == [r EXCEPT !.text = text]
WithAt(r, at) == [r EXCEPT !.at = at]

LEMMA HandleUpdate ==
  ASSUME NEW r, HandleOK(r), r # Closed, NEW v, NEW s \in {WithText(r, v), WithAt(r, v)}
  PROVE  HandleOK(s) /\ s # Closed /\ s.path = r.path /\ s.mode = r.mode
<1>1. PICK m, p, old, pos : r = [mode |-> m, path |-> p, text |-> old, at |-> pos]
  BY DEF HandleOK
<1>2. r.mode = m /\ r.path = p
  BY <1>1
<1>3. [[mode |-> m, path |-> p, text |-> old, at |-> pos] EXCEPT !.text = v]
        = [mode |-> m, path |-> p, text |-> v, at |-> pos]
  OBVIOUS
<1>4. [[mode |-> m, path |-> p, text |-> old, at |-> pos] EXCEPT !.at = v]
        = [mode |-> m, path |-> p, text |-> old, at |-> v]
  OBVIOUS
<1>5. PICK text, at : s = [mode |-> m, path |-> p, text |-> text, at |-> at]
  BY <1>1, <1>3, <1>4 DEF WithText, WithAt
<1>6. s.mode = r.mode /\ s.path = r.path
  BY <1>2, <1>5
<1>7. s.mode # "closed" /\ Closed.mode = "closed"
  BY <1>6 DEF HandleOK, Closed
<1> QED BY <1>5, <1>6, <1>7 DEF HandleOK

\* A handle that remains the same file's leaves everything as it was.
LEMMA HandleChanges ==
  ASSUME SlotsInv, NEW id \in Slots, in_use(id), NEW s, HandleOK(s),
         s.path = open_streams[id].path, s.mode = open_streams[id].mode,
         open_streams' = [open_streams EXCEPT ![id] = s], UNCHANGED streams
  PROVE  SlotsInv'
<1>1. s # Closed
  <2>1. s.mode # "closed"
    BY DEF SlotsInv, in_use, HandleOK
  <2>2. Closed.mode = "closed"
    BY DEF Closed
  <2> QED BY <2>1, <2>2
<1>2. /\ open_streams' = [j \in Slots |-> open_streams'[j]]
      /\ \A j \in Slots : open_streams'[j] = IF j = id THEN s ELSE open_streams[j]
  BY DEF SlotsInv
<1>3. \A j \in Slots : HandleOK(open_streams'[j])
  BY <1>2 DEF SlotsInv
<1>4. \A j \in Slots : /\ in_use(j)' <=> in_use(j)
                       /\ open_streams'[j].path = open_streams[j].path
  BY <1>1, <1>2 DEF in_use
<1>5. StreamsStay'
  BY <1>4 DEF StreamsStay, SlotsInv, known
<1> QED BY <1>2, <1>3, <1>5 DEF SlotsInv, known

LEMMA InitSlots == StreamsInit => SlotsInv
<1> SUFFICES ASSUME StreamsInit PROVE SlotsInv
  OBVIOUS
<1>1. /\ open_streams = [id \in Slots |-> Closed]
      /\ streams = [held |-> {}, lost |-> {}]
  BY DEF StreamsInit
<1>2. HandleOK(Closed)
  BY DEF HandleOK, Closed
<1> QED BY <1>1, <1>2 DEF SlotsInv, StreamsStay, known, in_use

LEMMA OpenKeeps ==
  ASSUME SlotsInv, NEW path \in Paths, NEW mode \in {"read", "write", "append"},
         NEW unifies \in BOOLEAN, Open(path, mode, unifies)
  PROVE  SlotsInv'
<1> DEFINE new == << free_slot, path >>
<1>1. free_slot \in Slots /\ ~in_use(free_slot)
  BY FreeSlot DEF Open
<1>2. PICK id \in Slots : \E s : /\ id = free_slot /\ s = Opened(path, mode)
                                 /\ open_streams' = [open_streams EXCEPT ![id] = s]
  BY <1>1 DEF Open
<1> PICK s : /\ id = free_slot /\ s = Opened(path, mode)
             /\ open_streams' = [open_streams EXCEPT ![id] = s]
  BY <1>2
<1>3. HandleOK(s) /\ s # Closed /\ s.path = path
  BY <1>2 DEF HandleOK, Opened, Closed
<1>4. /\ open_streams' = [j \in Slots |-> open_streams'[j]]
      /\ \A j \in Slots : open_streams'[j] = IF j = id THEN s ELSE open_streams[j]
  BY <1>2 DEF SlotsInv
<1>5. \A z \in known : z[1] # id
  BY <1>1, <1>2 DEF SlotsInv, StreamsStay, known
<1>6. /\ streams' = [held |-> streams'.held, lost |-> streams'.lost]
      /\ \/ /\ streams'.held = streams.held \cup {new}
            /\ streams'.lost = streams.lost
         \/ /\ streams'.held = streams.held
            /\ streams'.lost = streams.lost \cup {new}
  BY DEF Open, SlotsInv
<1>7. known' = known \cup {new} /\ new = << id, path >> /\ new[1] = id /\ new[2] = path
  BY <1>2, <1>6 DEF known
<1> HIDE DEF new
<1>8. known' \subseteq Slots \X Paths
  BY <1>7 DEF SlotsInv
<1>9. \A y \in streams'.held, z \in streams'.lost : y[1] # z[1]
  BY <1>5, <1>6, <1>7 DEF SlotsInv, known
<1>10. in_use(id)' /\ \A j \in Slots \ {id} : in_use(j)' <=> in_use(j)
  BY <1>3, <1>4 DEF in_use
<1>11. \A z \in known' : in_use(z[1])' /\ open_streams'[z[1]].path = z[2]
  <2> SUFFICES ASSUME NEW z \in known'
               PROVE  in_use(z[1])' /\ open_streams'[z[1]].path = z[2]
    OBVIOUS
  <2>1. CASE z = new
    BY <1>3, <1>4, <1>7, <1>10, <2>1
  <2>2. CASE z \in known
    <3>1. z[1] \in Slots \ {id}
      BY <1>5, <2>2 DEF SlotsInv
    <3>2. in_use(z[1]) /\ open_streams[z[1]].path = z[2]
      BY <2>2 DEF SlotsInv, StreamsStay, known
    <3> QED BY <1>4, <1>10, <3>1, <3>2
  <2> QED BY <1>7, <2>1, <2>2
<1>12. {z[1] : z \in known'} = {j \in Slots : in_use(j)'}
  <2>1. {z[1] : z \in known} = {j \in Slots : in_use(j)}
    BY DEF SlotsInv, StreamsStay, known
  <2>2. {z[1] : z \in known'} = {z[1] : z \in known} \cup {id}
    BY <1>7
  <2> QED BY <1>10, <2>1, <2>2
<1>13. StreamsStay'
  BY <1>11, <1>12 DEF StreamsStay, known
<1>14. \A j \in Slots : HandleOK(open_streams'[j])
  BY <1>3, <1>4 DEF SlotsInv
<1> QED BY <1>4, <1>6, <1>8, <1>9, <1>13, <1>14 DEF SlotsInv, known

LEMMA CloseKeeps == ASSUME SlotsInv, NEW id \in Slots, Close(id) PROVE SlotsInv'
<1>1. /\ open_streams' = [open_streams EXCEPT ![id] = Closed]
      /\ streams' = [streams EXCEPT !.held = {s \in @ : s[1] # id}]
      /\ \E path \in Paths : << id, path >> \in streams.held
  BY DEF Close
<1>2. /\ open_streams' = [j \in Slots |-> open_streams'[j]]
      /\ \A j \in Slots : open_streams'[j] = IF j = id THEN Closed ELSE open_streams[j]
  BY <1>1 DEF SlotsInv
<1>3. /\ streams' = [held |-> streams'.held, lost |-> streams'.lost]
      /\ streams'.held = {s \in streams.held : s[1] # id}
      /\ streams'.lost = streams.lost
  BY <1>1 DEF SlotsInv
<1>4. \A z \in streams.lost : z[1] # id
  BY <1>1 DEF SlotsInv
<1>5. known' = {z \in known : z[1] # id}
  BY <1>3, <1>4 DEF known
<1>6. HandleOK(Closed) /\ ~in_use(id)' /\ \A j \in Slots \ {id} : in_use(j)' <=> in_use(j)
  BY <1>2 DEF HandleOK, Closed, in_use
<1>7. \A z \in known' : in_use(z[1])' /\ open_streams'[z[1]].path = z[2]
  <2> SUFFICES ASSUME NEW z \in known'
               PROVE  in_use(z[1])' /\ open_streams'[z[1]].path = z[2]
    OBVIOUS
  <2>1. z \in known /\ z[1] \in Slots \ {id}
    BY <1>5 DEF SlotsInv
  <2>2. in_use(z[1]) /\ open_streams[z[1]].path = z[2]
    BY <2>1 DEF SlotsInv, StreamsStay, known
  <2> QED BY <1>2, <1>6, <2>1, <2>2
<1>8. {z[1] : z \in known'} = {j \in Slots : in_use(j)'}
  <2>1. {z[1] : z \in known} = {j \in Slots : in_use(j)}
    BY DEF SlotsInv, StreamsStay, known
  <2>2. {z[1] : z \in known'} = {z[1] : z \in known} \ {id}
    BY <1>5
  <2> QED BY <1>6, <2>1, <2>2
<1>9. StreamsStay'
  BY <1>7, <1>8 DEF StreamsStay, known
<1> QED BY <1>2, <1>3, <1>5, <1>6, <1>9 DEF SlotsInv, known

LEMMA ReadKeeps == ASSUME SlotsInv, NEW id \in Slots, read_line(id) PROVE SlotsInv'
<1>1. PICK text, at :
        /\ open_streams' = [open_streams EXCEPT ![id].text = text, ![id].at = at]
        /\ in_use(id) /\ UNCHANGED streams
  BY DEF read_line
<1>2. PICK r, s : r = open_streams[id] /\ s = WithAt(WithText(r, text), at)
  OBVIOUS
<1>3. HandleOK(r) /\ r # Closed
  BY <1>1, <1>2 DEF SlotsInv, in_use
<1>4. open_streams' = [open_streams EXCEPT ![id] = s]
  BY <1>1, <1>2 DEF SlotsInv, WithText, WithAt
<1>5. HandleOK(s) /\ s.path = open_streams[id].path /\ s.mode = open_streams[id].mode
  BY <1>2, <1>3, HandleUpdate
<1> QED BY <1>1, <1>4, <1>5, HandleChanges

LEMMA WriteToKeeps ==
  ASSUME SlotsInv, NEW id \in Slots, NEW word \in Words, WriteTo(id, word)
  PROVE  SlotsInv'
<1>1. PICK r, s : r = open_streams[id] /\ s = WithText(r, r.text \o word)
  OBVIOUS
<1>2. HandleOK(r) /\ r # Closed
  BY <1>1 DEF SlotsInv, in_use, WriteTo
<1>3. /\ open_streams' = [open_streams EXCEPT ![id] = s]
      /\ in_use(id) /\ UNCHANGED streams
  BY <1>1 DEF WriteTo, SlotsInv, WithText
<1>4. HandleOK(s) /\ s.path = open_streams[id].path /\ s.mode = open_streams[id].mode
  BY <1>1, <1>2, HandleUpdate
<1> QED BY <1>3, <1>4, HandleChanges

\* A stream term means the file it was opened for until the program closes it:
\* for any number of slots and any order of opening and closing.
THEOREM HandlesStay == StreamsSpec => []StreamsStay
<1>1. StreamsInit => SlotsInv
  BY InitSlots
<1>2. SlotsInv /\ [OutputNext \/ SlotsNext]_streamsVars => SlotsInv'
  <2> SUFFICES ASSUME SlotsInv, [OutputNext \/ SlotsNext]_streamsVars PROVE SlotsInv'
    OBVIOUS
  <2>1. CASE OutputNext \/ UNCHANGED streamsVars
    <3>1. UNCHANGED << open_streams, streams >>
      BY <2>1 DEF OutputNext, Write, Writef, Output, with_output_to, CaptureEnds,
                  streamsVars
    <3> QED BY <3>1 DEF SlotsInv, StreamsStay, known, in_use
  <2>2. CASE SlotsNext
    BY <2>2, OpenKeeps, CloseKeeps, ReadKeeps, WriteToKeeps DEF SlotsNext
  <2> QED BY <2>1, <2>2
<1>3. SlotsInv => StreamsStay
  BY DEF SlotsInv
<1> QED BY <1>1, <1>2, <1>3, PTL DEF StreamsSpec
=============================================================================
