------------------------------- MODULE Atoms -------------------------------
(***************************************************************************)
(* The string pool (term.c: intern_name) and the builtins that make atoms  *)
(* from atoms (builtins.c).  A pointer to a name is a position in the      *)
(* pool; two atoms are one and the same to unify() if their pointers are.  *)
(* Of the names of numbers only those of atom_number/2 are kept.           *)
(***************************************************************************)
EXTENDS Integers, Sequences, SequencesExt

CONSTANTS
  Literals,         \* the names a program's text contains, without NUL
  Unbound,          \* an argument that is an unbound variable
  MAX_STRING_POOL,  \* characters of the pool
  MAX_NAME,         \* characters of a name that is put together
  MaxCalls          \* bound of the model: names read and builtins called

NUL == "NUL"
Digits == << "0", "1" >>
Characters == {NUL, "0"} \cup UNION {ToSet(s) : s \in Literals}
Texts == {s \in Seq(Characters) : \A i \in DOMAIN s : s[i] # NUL}

ASSUME AtomsAssumption ==
  /\ MAX_STRING_POOL \in Nat /\ MAX_NAME \in Nat \ {0} /\ MaxCalls \in Nat
  /\ Unbound \notin Nat /\ \A s \in Literals : s \in Texts

VARIABLES
  string_pool,  \* names, each with its NUL
  atoms,        \* pointers of the atoms the program holds
  last_call,    \* the last builtin, its arguments before and after
  calls         \* how many names were read and builtins called

atomsVars == << string_pool, atoms, last_call, calls >>

-----------------------------------------------------------------------------
(* The pool                                                                *)

Length(pool, p) == (CHOOSE n \in 0 .. Len(pool) - p :
                      /\ pool[p + n] = NUL
                      /\ \A k \in 0 .. n - 1 : pool[p + k] # NUL)
text_of(pool, p) == SubSeq(pool, p, p + Length(pool, p) - 1)
text(p) == text_of(string_pool, p)

\* Where intern_name() looks for a name: after each NUL.
NameStarts(pool) == {p \in DOMAIN pool : p = 1 \/ pool[p - 1] = NUL}

Exhausted(pool) == [ok |-> FALSE, pool |-> pool]
Named(pool, p) == [ok |-> TRUE, pool |-> pool, p |-> p]

\* The place of the text, added at the end if it is new.
intern_name(pool, s) ==
  LET same == {p \in NameStarts(pool) : text_of(pool, p) = s}
  IN IF same # {} THEN Named(pool, Min(same))
     ELSE IF Len(pool) + Len(s) + 1 > MAX_STRING_POOL THEN Exhausted(pool)
     ELSE Named(pool \o s \o << NUL >>, Len(pool) + 1)

\* A pointer into the pool is taken for that of an interned name.
intern_pointer(pool, p) == Named(pool, p)

-----------------------------------------------------------------------------
(* The builtins; each returns the pool and the arguments afterwards        *)

Success(pool, args) == [result |-> "ok", pool |-> pool, args |-> args]
Failure(pool) == [result |-> "fail", pool |-> pool]
Errors(pool, what) == [result |-> what, pool |-> pool]

\* Bind an unbound argument to the name, or compare the pointers.
Unify1(given, named, ArgsWith(_)) ==
  CASE ~ named.ok -> Errors(named.pool, "string pool exhausted")
    [] OTHER -> IF given \in {Unbound, named.p}
                THEN Success(named.pool, ArgsWith(named.p))
                ELSE Failure(named.pool)

atom_concat(a, b, c) ==
  LET sa == text(a)
      sb == text(b)
      sc == text(c)
      pool == string_pool
  IN CASE a # Unbound /\ b # Unbound ->
            IF Len(sa \o sb) >= MAX_NAME THEN Failure(pool)
            ELSE Unify1(c, intern_name(pool, sa \o sb), LAMBDA p : << a, b, p >>)
       [] a # Unbound /\ b = Unbound /\ c # Unbound ->
            IF IsPrefix(sa, sc)
            THEN Unify1(b, intern_pointer(pool, c + Len(sa)),
                        LAMBDA p : << a, p, c >>)
            ELSE Failure(pool)
       [] a = Unbound /\ b # Unbound /\ c # Unbound ->
            IF IsSuffix(sb, sc) /\ Len(sc) - Len(sb) < MAX_NAME
            THEN Unify1(a, intern_name(pool, SubSeq(sc, 1, Len(sc) - Len(sb))),
                        LAMBDA p : << p, b, c >>)
            ELSE Failure(pool)
       [] OTHER -> Failure(pool)

\* Mutant: the search for a given part ends one place too early.
Befores_Short(bef, sub, len) ==
  IF bef # Unbound THEN {bef} ELSE 0 .. len - Len(text(sub)) - 1

\* Where a given part is looked for.
Befores(bef, sub, len) ==
  IF bef # Unbound THEN {bef} ELSE 0 .. len - Len(text(sub))

Fits(given, value) == given \in {Unbound, value}

\* The search for a part that is not given, at one place and length: its name is
\* interned, and stays in the pool when the characters after it do not fit.
Going(pool) == [over |-> FALSE, answer |-> Failure(pool)]
Over(answer) == [over |-> TRUE, answer |-> answer]
Tried(r, atom, given, b, l) ==
  LET s == text(atom)
      after == Len(s) - b - l
      part == intern_name(r.answer.pool, SubSeq(s, b + 1, b + l))
      tried == /\ ~ r.over /\ b + l <= Len(s) /\ l < MAX_NAME
               /\ Fits(given[2], b) /\ Fits(given[3], l)
  IN CASE ~ tried -> r
       [] tried /\ ~ part.ok -> Over(Errors(part.pool, "string pool exhausted"))
       [] tried /\ part.ok ->
            IF Fits(given[4], after)
            THEN Over(Success(part.pool, << atom, b, l, after, part.p >>))
            ELSE Going(part.pool)

\* All lengths at one place, and all places.
Lengths(before, atom, given, b) ==
  LET r[l \in 0 .. Len(text(atom)) + 1] ==
        IF l = 0 THEN before ELSE Tried(r[l - 1], atom, given, b, l - 1)
  IN r[Len(text(atom)) + 1]
Search(atom, given) ==
  LET r[b \in 0 .. Len(text(atom)) + 1] ==
        IF b = 0 THEN Going(string_pool)
        ELSE Lengths(r[b - 1], atom, given, b - 1)
  IN r[Len(text(atom)) + 1].answer

\* The first solution only.
sub_atom(atom, bef, lng, aft, sub) ==
  LET s == text(atom)
      len == Len(s)
      part == text(sub)
      places == {b \in Befores(bef, sub, len) :
                   /\ b + Len(part) <= len
                   /\ SubSeq(s, b + 1, b + Len(part)) = part
                   /\ Fits(lng, Len(part)) /\ Fits(aft, len - b - Len(part))}
  IN IF sub = Unbound THEN Search(atom, << atom, bef, lng, aft, sub >>)
     ELSE IF places = {} THEN Failure(string_pool)
     ELSE LET b == Min(places)
          IN Success(string_pool,
                     << atom, b, Len(part), len - b - Len(part), sub >>)

\* A packed string is a place in the pool and a length: that of an atom's
\* characters, or of a tail of them.  Other lists are the text they hold.
atom_chars(atom, list) ==
  CASE atom # Unbound -> Success(string_pool, << atom, text(atom) >>)
    [] OTHER -> IF list = Unbound
                THEN Errors(string_pool, "instantiation_error")
                ELSE IF Len(list) >= MAX_NAME THEN Failure(string_pool)
                ELSE Unify1(atom, intern_name(string_pool, list),
                            LAMBDA p : << p, list >>)

is_number_str(s) == s # << >> /\ ToSet(s) \subseteq ToSet(Digits)

\* The name make_int() gives the number: no leading zeros.
number_name(s) ==
  LET i == SelectInSeq(s, LAMBDA c : c # "0")
  IN IF i = 0 THEN << "0" >> ELSE SubSeq(s, i, Len(s))

\* The number's name is interned with it; the way back takes its pointer.
atom_number(atom) ==
  IF is_number_str(text(atom))
  THEN LET n == intern_name(string_pool, number_name(text(atom)))
       IN IF n.ok THEN Success(n.pool, << atom, intern_pointer(n.pool, n.p).p >>)
          ELSE Errors(n.pool, "string pool exhausted")
  ELSE Failure(string_pool)

-----------------------------------------------------------------------------
AtomsInit ==
  /\ string_pool = << >> /\ atoms = {} /\ calls = 0
  /\ last_call = [pred |-> "none"]

\* The builtin returned r; the atoms among its arguments are the program's now.
Called(pred, given, r, places) ==
  /\ calls' = calls + 1
  /\ string_pool' = r.pool
  /\ atoms' = atoms \cup IF r.result = "ok" THEN {r.args[i] : i \in places} ELSE {}
  /\ last_call' = [pred |-> pred, given |-> given, result |-> r.result,
                   args |-> IF r.result = "ok" THEN r.args ELSE given]

\* The parser reads a name.
ReadName(s) ==
  LET r == intern_name(string_pool, s)
  IN Called("read", << s >>, IF r.ok THEN Success(r.pool, << r.p >>)
                             ELSE Errors(r.pool, "string pool exhausted"), {1})

Concat(a, b, c) == Called("atom_concat", << a, b, c >>, atom_concat(a, b, c), 1 .. 3)
SubAtom(x, b, l, a, s) ==
  Called("sub_atom", << x, b, l, a, s >>, sub_atom(x, b, l, a, s), {1, 5})
CharsOf(p) == Called("atom_chars", << p, Unbound >>, atom_chars(p, Unbound), {1})
OfChars(list) ==
  Called("atom_chars", << Unbound, list >>, atom_chars(Unbound, list), {1})
ThroughNumber(p) == Called("atom_number", << p, Unbound >>, atom_number(p), {1, 2})

Maybe(S) == S \cup {Unbound}

AtomsNext ==
  /\ calls < MaxCalls
  /\ \/ \E s \in Literals : ReadName(s)
     \/ \E a, b, c \in Maybe(atoms) : Concat(a, b, c)
     \/ \E x \in atoms : \E b, l, a \in Maybe(0 .. Len(text(x))) :
          \E s \in Maybe(atoms) : SubAtom(x, b, l, a, s)
     \/ \E p \in atoms : \/ CharsOf(p) \/ ThroughNumber(p)
                         \/ \E t \in Suffixes(text(p)) : OfChars(t)

AtomsSpec == AtomsInit /\ [][AtomsNext]_atomsVars

-----------------------------------------------------------------------------
(* What the builtins promise                                               *)

Canonical(p) == p = Unbound \/ p \in NameStarts(string_pool)

\* unify(), ==/2 and clause indexing compare names by their pointers: no two
\* atoms of a program have the same text at different places (term.c:38-68).
AtomsInterned == \A p, q \in atoms : text(p) = text(q) => p = q

\* A name of MAX_NAME characters or more is not put together.
ConcatRight(given, args, ok) ==
  LET t == [i \in 1 .. 3 |-> IF args[i] = Unbound THEN << >> ELSE text(args[i])]
  IN IF ok THEN t[1] \o t[2] = t[3]
     ELSE CASE given[2] = Unbound -> ~ IsPrefix(t[1], t[3])
            [] given[1] = Unbound -> \/ ~ IsSuffix(t[2], t[3])
                                     \/ Len(t[3]) - Len(t[2]) >= MAX_NAME
            [] OTHER -> t[1] \o t[2] # t[3] \/ Len(t[1] \o t[2]) >= MAX_NAME

\* Is the part of s with b characters before it and l of its own what is asked?
Solution(given, s, b, l) ==
  /\ b + l <= Len(s)
  /\ Fits(given[2], b) /\ Fits(given[3], l) /\ Fits(given[4], Len(s) - b - l)
  /\ IF given[5] = Unbound THEN l < MAX_NAME
     ELSE text(given[5]) = SubSeq(s, b + 1, b + l)

SubAtomRight(given, args, ok) ==
  LET s == text(given[1])
  IN IF ok THEN /\ Solution(given, s, args[2], args[3])
                /\ args[4] = Len(s) - args[2] - args[3]
                /\ text(args[5]) = SubSeq(s, args[2] + 1, args[2] + args[3])
     ELSE \A b, l \in 0 .. Len(s) : ~ Solution(given, s, b, l)

NumberRight(given, args, ok) ==
  /\ ok = is_number_str(text(given[1]))
  /\ ok => \E k \in 0 .. Len(text(args[1])) :
             text(args[1]) = [i \in 1 .. k |-> "0"] \o text(args[2])

\* For arguments whose names are interned, atom_concat/3 and sub_atom/5 find an
\* answer exactly if there is one (of less than MAX_NAME characters, where they
\* put it together), in every mode they know, and what they answer is right;
\* atom_chars/2 and atom_number/2 lose nothing on the way and back.
TextsRight ==
  LET c == last_call
      ok == c.result = "ok"
      answered == c.result \in {"ok", "fail"}
  IN /\ c.pred = "read" /\ ok => text(c.args[1]) = c.given[1]
     /\ c.pred = "atom_concat" /\ answered =>
          \/ \E i \in 1 .. 3 : ~ Canonical(c.given[i])
          \/ \E i, j \in 1 .. 3 : /\ i # j /\ c.given[i] = Unbound
                                 /\ c.given[j] = Unbound
          \/ ConcatRight(c.given, c.args, ok)
     /\ c.pred = "sub_atom" /\ answered => SubAtomRight(c.given, c.args, ok)
     /\ c.pred = "atom_chars" /\ ok => text(c.args[1]) = c.args[2]
     /\ c.pred = "atom_number" /\ answered => NumberRight(c.given, c.args, ok)
=============================================================================
