------------------------------- MODULE QrCode -------------------------------
(***************************************************************************)
(* The QR code generator that the sign-up page shows the TOTP secret with: *)
(* encodeText of frontend/js/qrcodegen.js, as util.js calls it.            *)
(*                                                                         *)
(* The library runs to its end without a pause; the specification is the   *)
(* sequence of its steps for every text of Texts: the search for a         *)
(* version, the packing of the text into codewords, the function patterns, *)
(* the error correction, one step for each pair of columns of the zigzag,  *)
(* one for each mask that is tried.  The data are real: codewords are      *)
(* numbers below 256 and the symbol is the set of its dark modules, because *)
(* the properties are about what a reader gets out of it.                  *)
(***************************************************************************)
EXTENDS Integers, SequencesExt

CONSTANTS
  Texts,    \* what is encoded: a charset and a sequence of character values
  StartEcl  \* the error correction level asked for: 0 (LOW) to 3 (HIGH)

\* The character values of a charset.  A text carries the smallest charset
\* that holds its characters, which the two regular expressions find.
Values(charset) ==
  CASE charset = "numeric" -> 0..9
    [] charset = "alphanumeric" -> 0..44
    [] charset = "byte" -> 0..255

ASSUME TextsAssumption ==
  \A t \in Texts : \A i \in DOMAIN t.chars : t.chars[i] \in Values(t.charset)

ASSUME EclAssumption == StartEcl \in 0..3

VARIABLES
  text,        \* the text that is encoded
  pc,          \* the step that comes next
  version,     \* the version that is tried, then the version of the symbol
  ecl,         \* the ordinal of the error correction level
  codewords,   \* the data codewords, then all codewords interleaved
  isFunction,  \* the function modules
  dark,        \* the dark modules
  right,       \* the right column of the pair that is drawn next
  drawn,       \* how many bits of the codewords are drawn (i)
  penalties,   \* the penalties of the masks tried so far, from mask 0 on
  best         \* the best of them and its penalty (msk, minPenalty)

vars == <<text, pc, version, ecl, codewords, isFunction, dark, right, drawn, penalties, best>>

(***************************************************************************)
(* Tables and capacities.                                                  *)
(***************************************************************************)

MAX_VERSION == 40

ECC_CODEWORDS_PER_BLOCK == <<
  <<7, 10, 15, 20, 26, 18, 20, 24, 30, 18, 20, 24, 26, 30, 22, 24, 28, 30, 28, 28,
    28, 28, 30, 30, 26, 28, 30, 30, 30, 30, 30, 30, 30, 30, 30, 30, 30, 30, 30, 30>>,
  <<10, 16, 26, 18, 24, 16, 18, 22, 22, 26, 30, 22, 22, 24, 24, 28, 28, 26, 26, 26,
    26, 28, 28, 28, 28, 28, 28, 28, 28, 28, 28, 28, 28, 28, 28, 28, 28, 28, 28, 28>>,
  <<13, 22, 18, 26, 18, 24, 18, 22, 20, 24, 28, 26, 24, 20, 30, 24, 28, 28, 26, 30,
    28, 30, 30, 30, 30, 28, 30, 30, 30, 30, 30, 30, 30, 30, 30, 30, 30, 30, 30, 30>>,
  <<17, 28, 22, 16, 22, 28, 26, 26, 24, 28, 24, 28, 22, 24, 24, 30, 28, 28, 26, 28,
    30, 24, 30, 30, 30, 30, 30, 30, 30, 30, 30, 30, 30, 30, 30, 30, 30, 30, 30, 30>>>>

NUM_ERROR_CORRECTION_BLOCKS == <<
  <<1, 1, 1, 1, 1, 2, 2, 2, 2, 4, 4, 4, 4, 4, 6, 6, 6, 6, 7, 8,
    8, 9, 9, 10, 12, 12, 12, 13, 14, 15, 16, 17, 18, 19, 19, 20, 21, 22, 24, 25>>,
  <<1, 1, 1, 2, 2, 4, 4, 4, 5, 5, 5, 8, 9, 9, 10, 10, 11, 13, 14, 16,
    17, 17, 18, 20, 21, 23, 25, 26, 28, 29, 31, 33, 35, 37, 38, 40, 43, 45, 47, 49>>,
  <<1, 1, 2, 2, 4, 4, 6, 6, 8, 8, 8, 10, 12, 16, 12, 17, 16, 18, 21, 20,
    23, 23, 25, 27, 29, 34, 34, 35, 38, 40, 43, 45, 48, 51, 53, 56, 59, 62, 65, 68>>,
  <<1, 1, 2, 4, 4, 4, 5, 6, 8, 8, 11, 11, 16, 16, 18, 16, 19, 21, 25, 25,
    25, 34, 30, 32, 35, 37, 40, 42, 45, 48, 51, 54, 57, 60, 63, 66, 70, 74, 77, 81>>>>

Size(ver) == 4 * ver + 17

NumAlign(ver) == ver \div 7 + 2

getNumRawDataModules_NoVersion(ver) ==
  (16 * ver + 128) * ver + 64
    - (IF ver >= 2 THEN (25 * NumAlign(ver) - 10) * NumAlign(ver) - 55 ELSE 0)

getNumRawDataModules(ver) ==
  (16 * ver + 128) * ver + 64
    - (IF ver >= 2 THEN (25 * NumAlign(ver) - 10) * NumAlign(ver) - 55 ELSE 0)
    - (IF ver >= 7 THEN 36 ELSE 0)

RawCodewords(ver) == getNumRawDataModules(ver) \div 8

NumBlocks(ver, e) == NUM_ERROR_CORRECTION_BLOCKS[e + 1][ver]

BlockEccLen(ver, e) == ECC_CODEWORDS_PER_BLOCK[e + 1][ver]

getNumDataCodewords(ver, e) == RawCodewords(ver) - BlockEccLen(ver, e) * NumBlocks(ver, e)

(***************************************************************************)
(* A text becomes at most one segment: its mode, its length and its bits.  *)
(***************************************************************************)

Mode(charset) ==
  CASE charset = "numeric" -> [modeBits |-> 1, numBitsCharCount |-> <<10, 12, 14>>]
    [] charset = "alphanumeric" -> [modeBits |-> 2, numBitsCharCount |-> <<9, 11, 13>>]
    [] charset = "byte" -> [modeBits |-> 4, numBitsCharCount |-> <<8, 16, 16>>]

numCharCountBits(charset, ver) == Mode(charset).numBitsCharCount[(ver + 7) \div 17 + 1]

\* A function on 1..n as a tuple, which the model checker holds by its values.
Tuple(f) == SubSeq(f, 1, Len(f))

\* appendBits: the low-order bits of a value, the highest first.
Bits(val, len) == [k \in 1..len |-> (val \div 2^(len - k)) % 2]

\* getBit, with the value of the bit.
Bit(val, i) == (val \div 2^i) % 2

\* The characters taken in groups of n, the last one shorter.
Groups(chars, n) ==
  [g \in 1..((Len(chars) + n - 1) \div n) |->
     SubSeq(chars, n * (g - 1) + 1, Min({n * g, Len(chars)}))]

\* A group read as digits of the given base.
ValueOf(group, base) ==
  LET v[i \in 0..Len(group)] == IF i = 0 THEN 0 ELSE base * v[i - 1] + group[i]
  IN v[Len(group)]

\* makeNumeric, makeAlphanumeric and makeBytes.
DataBits(t) ==
  LET width(n) == CASE t.charset = "numeric" -> 3 * n + 1
                    [] t.charset = "alphanumeric" -> 5 * n + 1
                    [] t.charset = "byte" -> 8
      base == CASE t.charset = "numeric" -> 10
                [] t.charset = "alphanumeric" -> 45
                [] t.charset = "byte" -> 256
      groups == Groups(t.chars, CASE t.charset = "numeric" -> 3
                                  [] t.charset = "alphanumeric" -> 2
                                  [] t.charset = "byte" -> 1)
  IN FlattenSeq([g \in DOMAIN groups |-> Bits(ValueOf(groups[g], base), width(Len(groups[g])))])

\* The length of DataBits.
DataLength(t) ==
  LET n == Len(t.chars) IN
  CASE t.charset = "numeric" -> 10 * (n \div 3) + <<0, 4, 7>>[(n % 3) + 1]
    [] t.charset = "alphanumeric" -> 11 * (n \div 2) + 6 * (n % 2)
    [] t.charset = "byte" -> 8 * n

\* getTotalBits is finite and within the capacity.  An empty text has no
\* segment and needs no bits.
Fits(t, ver, e) ==
  t.chars = <<>> \/
  LET cc == numCharCountBits(t.charset, ver) IN
  /\ Len(t.chars) < 2^cc
  /\ 4 + cc + DataLength(t) <= 8 * getNumDataCodewords(ver, e)

\* The bits of the segment, terminated, padded to a byte and packed, then the
\* two padding bytes in turn.
Packed(t, ver, e) ==
  LET capacity == 8 * getNumDataCodewords(ver, e)
      segment == IF t.chars = <<>> THEN <<>>
                 ELSE Bits(Mode(t.charset).modeBits, 4)
                        \o Bits(Len(t.chars), numCharCountBits(t.charset, ver))
                        \o DataBits(t)
      ended == segment \o Bits(0, Min({4, capacity - Len(segment)}))
      bb == ended \o Bits(0, (8 - (Len(ended) % 8)) % 8)
      used == Len(bb) \div 8
  IN [k \in 1..(capacity \div 8) |->
        IF k <= used THEN ValueOf(SubSeq(bb, 8 * k - 7, 8 * k), 2)
        ELSE IF (k - used) % 2 = 1 THEN 236 ELSE 17]

(***************************************************************************)
(* Reed-Solomon error correction over GF(2^8/0x11D).                       *)
(***************************************************************************)

\* Exclusive or: of four bits, of a byte, and of a number of 16 bits.
Xor4 == [a \in 0..15 |-> [b \in 0..15 |->
           ValueOf([k \in 1..4 |-> (Bits(a, 4)[k] + Bits(b, 4)[k]) % 2], 2)]]

Xor8 == [a \in 0..255 |-> [b \in 0..255 |->
           16 * Xor4[a \div 16][b \div 16] + Xor4[a % 16][b % 16]]]

Xor(x, y) == 256 * Xor8[x \div 256][y \div 256] + Xor8[x % 256][y % 256]

\* reedSolomonMultiply, the Russian peasant's way, and its table.
Twice == [z \in 0..255 |-> IF z < 128 THEN 2 * z ELSE Xor(2 * z, 285)]

Times(x, y) ==
  LET z[i \in 0..8] ==
        IF i = 0 THEN 0
        ELSE LET twice == Twice[z[i - 1]]
             IN IF Bit(y, 8 - i) = 1 THEN Xor8[twice][x] ELSE twice
  IN z[8]

Product == [x \in 0..255 |-> [y \in 0..255 |-> Times(x, y)]]

\* reedSolomonComputeDivisor: the product of (x - 2^i) for i below degree,
\* without its leading term.
Divisor(degree) ==
  LET root[i \in 1..degree] == IF i = 1 THEN 1 ELSE Product[root[i - 1]][2]
      result[i \in 0..degree] ==
        IF i = 0 THEN [j \in 1..degree |-> IF j = degree THEN 1 ELSE 0]
        ELSE LET last == result[i - 1]
                 r == root[i]
             IN Tuple([j \in 1..degree |->
                         Xor8[Product[last[j]][r]][IF j < degree THEN last[j + 1] ELSE 0]])
  IN result[degree]

\* reedSolomonComputeRemainder.
Remainder(data, divisor) ==
  LET n == Len(divisor)
      result[k \in 0..Len(data)] ==
        IF k = 0 THEN [i \in 1..n |-> 0]
        ELSE LET last == result[k - 1]
                 factor == Xor8[data[k]][last[1]]
             IN Tuple([i \in 1..n |->
                         Xor8[IF i < n THEN last[i + 1] ELSE 0][Product[divisor[i]][factor]]])
  IN result[Len(data)]

\* addEccAndInterleave.  The long blocks, which come last, hold one data
\* codeword more; the short ones get a zero in its place, which is skipped.
Interleaved(data, ver, e) ==
  LET blocks == NumBlocks(ver, e)
      eccLen == BlockEccLen(ver, e)
      short == blocks - (RawCodewords(ver) % blocks)
      dataLen == RawCodewords(ver) \div blocks - eccLen
      divisor == Divisor(eccLen)
      first(b) == (b - 1) * dataLen + Max({0, b - 1 - short}) + 1
      dat(b) == SubSeq(data, first(b), first(b) + dataLen - (IF b <= short THEN 1 ELSE 0))
      block == Tuple([b \in 1..blocks |->
                        dat(b) \o (IF b <= short THEN <<0>> ELSE <<>>)
                          \o Remainder(dat(b), divisor)])
      column(i) == IF i = dataLen + 1
                   THEN [b \in 1..(blocks - short) |-> block[short + b][i]]
                   ELSE [b \in 1..blocks |-> block[b][i]]
  IN FlattenSeq([i \in 1..(dataLen + 1 + eccLen) |-> column(i)])

(***************************************************************************)
(* The function patterns.  A module is a pair <<x, y>>.                    *)
(***************************************************************************)

\* The remainder of the two codes that protect the format and the version.
CodeOf(data, n, generator) ==
  LET rem[i \in 0..n] ==
        IF i = 0 THEN data
        ELSE LET last == rem[i - 1]
             IN Xor(2 * last, (last \div 2^(n - 1)) * generator)
  IN data * 2^n + rem[n]

FormatCode(e, mask) == Xor(CodeOf(8 * <<1, 0, 3, 2>>[e + 1] + mask, 10, 1335), 21522)

VersionCode(ver) == CodeOf(ver, 12, 7973)

\* Where the two copies of the format keep bit i.
FirstCopy(i) ==
  CASE i <= 5 -> <<8, i>>
    [] i \in {6, 7} -> <<8, i + 1>>
    [] i = 8 -> <<7, 8>>
    [] i >= 9 -> <<14 - i, 8>>

SecondCopy(ver, i) ==
  IF i < 8 THEN <<Size(ver) - 1 - i, 8>> ELSE <<8, Size(ver) - 15 + i>>

FormatModules(ver) ==
  {FirstCopy(i) : i \in 0..14} \cup {SecondCopy(ver, i) : i \in 0..14}
    \cup {<<8, Size(ver) - 8>>}

\* drawFormatBits, over the modules d: the last module is always dark.
drawFormatBits(d, ver, e, mask) ==
  LET on == {i \in 0..14 : Bit(FormatCode(e, mask), i) = 1}
  IN (d \ FormatModules(ver))
       \cup {FirstCopy(i) : i \in on} \cup {SecondCopy(ver, i) : i \in on}
       \cup {<<8, Size(ver) - 8>>}

\* The two copies of the version, transposed, from version 7 on.
VersionModules(ver, on) ==
  IF ver < 7 THEN {}
  ELSE LET at(i) == <<Size(ver) - 11 + (i % 3), i \div 3>>
       IN {at(i) : i \in on} \cup {<<at(i)[2], at(i)[1]>> : i \in on}

Abs(n) == IF n < 0 THEN -n ELSE n

\* A square pattern around a centre: the modules at a distance in rings.
Square(centre, rings, ver) ==
  {m \in ((centre[1] - 4)..(centre[1] + 4)) \X ((centre[2] - 4)..(centre[2] + 4)) :
     /\ Max({Abs(m[1] - centre[1]), Abs(m[2] - centre[2])}) \in rings
     /\ m[1] \in 0..(Size(ver) - 1) /\ m[2] \in 0..(Size(ver) - 1)}

\* getAlignmentPatternPositions, as a set; it has NumAlign members from
\* version 2 on: 6 and the rest counted down from the far side.
AlignmentPositions(ver) ==
  LET n == NumAlign(ver)
      step == IF ver = 32 THEN 26
              ELSE 2 * ((4 * ver + 4 + 2 * n - 3) \div (2 * n - 2))
  IN IF ver = 1 THEN {} ELSE {6} \cup {Size(ver) - 7 - step * k : k \in 0..(n - 2)}

Finders(ver) == {<<3, 3>>, <<Size(ver) - 4, 3>>, <<3, Size(ver) - 4>>}

\* All but the three that would lie on a finder pattern.
Alignments(ver) ==
  (AlignmentPositions(ver) \X AlignmentPositions(ver))
    \ {<<6, 6>>, <<6, Size(ver) - 7>>, <<Size(ver) - 7, 6>>}

Timing(coords) == {<<6, i>> : i \in coords} \cup {<<i, 6>> : i \in coords}

FunctionModules(ver) ==
  Timing(0..(Size(ver) - 1))
    \cup (UNION {Square(c, 0..4, ver) : c \in Finders(ver)})
    \cup (UNION {Square(c, 0..2, ver) : c \in Alignments(ver)})
    \cup FormatModules(ver)
    \cup VersionModules(ver, 0..17)

\* drawFunctionPatterns, each pattern over the ones before.
FunctionDark(ver, e) ==
  LET timing == Timing({i \in 0..(Size(ver) - 1) : i % 2 = 0})
      finders == (timing \ UNION {Square(c, 0..4, ver) : c \in Finders(ver)})
                   \cup UNION {Square(c, {0, 1, 3}, ver) : c \in Finders(ver)}
      aligned == (finders \ UNION {Square(c, 0..2, ver) : c \in Alignments(ver)})
                   \cup UNION {Square(c, {0, 2}, ver) : c \in Alignments(ver)}
  IN drawFormatBits(aligned, ver, e, 0)
       \cup VersionModules(ver, {i \in 0..17 : Bit(VersionCode(ver), i) = 1})

(***************************************************************************)
(* Codewords and masks.                                                    *)
(***************************************************************************)

\* A pair of columns in the order of the scan, upward and downward in turn.
Zigzag(ver, r) ==
  LET upward == ((r + 1) \div 2) % 2 = 0 IN
  [k \in 1..(2 * Size(ver)) |->
     LET vert == (k - 1) \div 2
     IN <<r - ((k - 1) % 2), IF upward THEN Size(ver) - 1 - vert ELSE vert>>]

\* The next pair of columns: the vertical timing pattern is stepped over.
NextRight(r) == IF r - 2 = 6 THEN 5 ELSE r - 2

\* Whether a mask inverts a module.
Inverts(mask, x, y) ==
  CASE mask = 0 -> (x + y) % 2 = 0
    [] mask = 1 -> y % 2 = 0
    [] mask = 2 -> x % 3 = 0
    [] mask = 3 -> (x + y) % 3 = 0
    [] mask = 4 -> (x \div 3 + y \div 2) % 2 = 0
    [] mask = 5 -> ((x * y) % 2) + ((x * y) % 3) = 0
    [] mask = 6 -> (((x * y) % 2) + ((x * y) % 3)) % 2 = 0
    [] mask = 7 -> (((x + y) % 2) + ((x * y) % 3)) % 2 = 0

Grid(ver) == (0..(Size(ver) - 1)) \X (0..(Size(ver) - 1))

\* applyMask, over the modules d.
applyMask(d, function, ver, mask) ==
  {m \in Grid(ver) : (m \in d) # (m \notin function /\ Inverts(mask, m[1], m[2]))}

(***************************************************************************)
(* The penalty score.                                                      *)
(***************************************************************************)

AddHistory_NoBorder(run, history, ver) == <<run>> \o SubSeq(history, 1, 6)

\* finderPenaltyAddHistory: the first run has a light border before it.
AddHistory(run, history, ver) ==
  <<run + (IF history[1] = 0 THEN Size(ver) ELSE 0)>> \o SubSeq(history, 1, 6)

\* finderPenaltyCountPatterns: dark runs of n, 3n and n modules behind the
\* light run just added, with a wide light run on one side.
CountPatterns(h) ==
  LET n == h[2]
      core == n > 0 /\ h[3] = n /\ h[4] = 3 * n /\ h[5] = n /\ h[6] = n
  IN (IF core /\ h[1] >= 4 * n /\ h[7] >= n THEN 1 ELSE 0)
       + (IF core /\ h[7] >= 4 * n /\ h[1] >= n THEN 1 ELSE 0)

\* One module of a line: s is the scan so far, the run it is in included.
ScanModule(s, isDark, ver) ==
  IF isDark = s.color
  THEN [s EXCEPT !.run = @ + 1,
                 !.score = @ + (IF s.run = 4 THEN 3 ELSE IF s.run > 4 THEN 1 ELSE 0)]
  ELSE LET history == AddHistory(s.run, s.history, ver) IN
       [color |-> isDark, run |-> 1, history |-> history,
        score |-> s.score + (IF s.color THEN 0 ELSE 40 * CountPatterns(history))]

\* finderPenaltyTerminateAndCount: the last light run has a border after it.
TerminateAndCount(s, ver) ==
  CountPatterns(
    IF s.color THEN AddHistory(Size(ver), AddHistory(s.run, s.history, ver), ver)
    ELSE AddHistory(s.run + Size(ver), s.history, ver))

\* The penalty of a row or a column, a sequence of the modules' colors.
LineScore(line, ver) ==
  LET start == [color |-> FALSE, run |-> 0, history |-> [i \in 1..7 |-> 0], score |-> 0]
      scan[k \in 0..Size(ver)] ==
        IF k = 0 THEN start ELSE LET s == scan[k - 1] IN ScanModule(s, line[k], ver)
      end == scan[Size(ver)]
  IN end.score + 40 * TerminateAndCount(end, ver)

Row(d, ver, y) == [k \in 1..Size(ver) |-> <<k - 1, y>> \in d]

Column(d, ver, x) == [k \in 1..Size(ver) |-> <<x, k - 1>> \in d]

\* The modules that begin a square of two by two of one color.
Squares(d, ver) ==
  {m \in (0..(Size(ver) - 2)) \X (0..(Size(ver) - 2)) :
     LET c == m \in d IN
     /\ (<<m[1] + 1, m[2]>> \in d) = c
     /\ (<<m[1], m[2] + 1>> \in d) = c
     /\ (<<m[1] + 1, m[2] + 1>> \in d) = c}

\* getPenaltyScore.
PenaltyScore(d, ver) ==
  LET lines == 0..(Size(ver) - 1)
      total == Size(ver) * Size(ver)
      off == Abs(20 * Cardinality(d) - 10 * total)
  IN MapThenSumSet(LAMBDA i : LineScore(Row(d, ver, i), ver) + LineScore(Column(d, ver, i), ver), lines)
       + 3 * Cardinality(Squares(d, ver))
       + 10 * ((off + total - 1) \div total - 1)

(***************************************************************************)
(* The steps.                                                              *)
(***************************************************************************)

\* What the search for the best mask starts with, above every score.
minPenalty == 1000000000

Init ==
  /\ text \in Texts
  /\ pc = "version"
  /\ version = 1
  /\ ecl = StartEcl
  /\ codewords = <<>>
  /\ isFunction = {} /\ dark = {}
  /\ right = 0 /\ drawn = 0
  /\ penalties = <<>>
  /\ best = [mask |-> -1, penalty |-> minPenalty]

\* The text does not fit: the next version, or the end.
NextVersion ==
  /\ pc = "version" /\ ~Fits(text, version, ecl)
  /\ IF version < MAX_VERSION
     THEN version' = version + 1 /\ UNCHANGED pc
     ELSE pc' = "tooLong" /\ UNCHANGED version
  /\ UNCHANGED <<text, ecl, codewords, isFunction, dark, right, drawn, penalties, best>>

Boosted_Once(t, ver, e) == IF e < 3 /\ Fits(t, ver, e + 1) THEN e + 1 ELSE e

\* The text fits: the level is raised as far as it still does, and the text
\* is packed for that level.
Boosted(t, ver, e) == Max({e} \cup {new \in 1..3 : Fits(t, ver, new)})

VersionFound ==
  /\ pc = "version" /\ Fits(text, version, ecl)
  /\ ecl' = Boosted(text, version, ecl)
  /\ codewords' = Packed(text, version, ecl')
  /\ pc' = "patterns"
  /\ UNCHANGED <<text, version, isFunction, dark, right, drawn, penalties, best>>

drawFunctionPatterns ==
  /\ pc = "patterns"
  /\ isFunction' = FunctionModules(version)
  /\ dark' = FunctionDark(version, ecl)
  /\ pc' = "ecc"
  /\ UNCHANGED <<text, version, ecl, codewords, right, drawn, penalties, best>>

addEccAndInterleave ==
  /\ pc = "ecc"
  /\ codewords' = Interleaved(codewords, version, ecl)
  /\ right' = Size(version) - 1
  /\ pc' = "codewords"
  /\ UNCHANGED <<text, version, ecl, isFunction, dark, drawn, penalties, best>>

\* One round of the outer loop of drawCodewords: the modules of two columns
\* that belong to no pattern take the next bits, while there are any.
drawCodewords ==
  /\ pc = "codewords" /\ right >= 1
  /\ LET path == Zigzag(version, right)
         free == {k \in DOMAIN path : path[k] \notin isFunction}
         i(k) == drawn + Cardinality({j \in free : j < k})
         ones == {k \in free : /\ i(k) < 8 * Len(codewords)
                               /\ Bit(codewords[i(k) \div 8 + 1], 7 - (i(k) % 8)) = 1}
     IN /\ dark' = dark \cup {path[k] : k \in ones}
        /\ drawn' = Min({drawn + Cardinality(free), 8 * Len(codewords)})
  /\ right' = NextRight(right)
  /\ UNCHANGED <<text, pc, version, ecl, codewords, isFunction, penalties, best>>

CodewordsDrawn ==
  /\ pc = "codewords" /\ right < 1
  /\ pc' = "mask"
  /\ UNCHANGED <<text, version, ecl, codewords, isFunction, dark, right, drawn, penalties, best>>

\* One round of the choice of a mask: it is applied and named in the format,
\* the symbol is scored, and the mask is undone.  The format stays.
TryMask ==
  /\ pc = "mask" /\ Len(penalties) < 8
  /\ LET i == Len(penalties)
     IN dark' = drawFormatBits(applyMask(dark, isFunction, version, i), version, ecl, i)
  /\ pc' = "score"
  /\ UNCHANGED <<text, version, ecl, codewords, isFunction, right, drawn, penalties, best>>

ScoreMask_Keeps ==
  /\ pc = "score"
  /\ LET i == Len(penalties)
         penalty == PenaltyScore(dark, version)
     IN /\ penalties' = Append(penalties, penalty)
        /\ best' = IF penalty < best.penalty THEN [mask |-> i, penalty |-> penalty] ELSE best
  /\ pc' = "mask"
  /\ UNCHANGED <<text, version, ecl, codewords, isFunction, dark, right, drawn>>

ScoreMask ==
  /\ pc = "score"
  /\ LET i == Len(penalties)
         penalty == PenaltyScore(dark, version)
     IN /\ penalties' = Append(penalties, penalty)
        /\ best' = IF penalty < best.penalty THEN [mask |-> i, penalty |-> penalty] ELSE best
        /\ dark' = applyMask(dark, isFunction, version, i)
  /\ pc' = "mask"
  /\ UNCHANGED <<text, version, ecl, codewords, isFunction, right, drawn>>

Finish_OldFormat ==
  /\ pc = "mask" /\ Len(penalties) = 8
  /\ dark' = applyMask(dark, isFunction, version, best.mask)
  /\ isFunction' = {}
  /\ pc' = "done"
  /\ UNCHANGED <<text, version, ecl, codewords, right, drawn, penalties, best>>

\* The best mask is applied for good.
Finish ==
  /\ pc = "mask" /\ Len(penalties) = 8
  /\ dark' = drawFormatBits(applyMask(dark, isFunction, version, best.mask), version, ecl, best.mask)
  /\ isFunction' = {}
  /\ pc' = "done"
  /\ UNCHANGED <<text, version, ecl, codewords, right, drawn, penalties, best>>

Next ==
  \/ NextVersion
  \/ VersionFound
  \/ drawFunctionPatterns
  \/ addEccAndInterleave
  \/ drawCodewords
  \/ CodewordsDrawn
  \/ TryMask
  \/ ScoreMask
  \/ Finish

Spec == Init /\ [][Next]_vars

(***************************************************************************)
(* Properties.                                                             *)
(***************************************************************************)

\* "The smallest possible QR Code version is automatically chosen", and the
\* level is as high as that version allows: a text that is packed fits at
\* this version and level, no smaller version holds it at the level asked
\* for, and no higher level holds it at this version.
SmallestFit ==
  pc \notin {"version", "tooLong"} =>
    /\ Fits(text, version, ecl) /\ ecl >= StartEcl
    /\ \A v \in 1..(version - 1) : ~Fits(text, v, StartEcl)
    /\ \A e \in (ecl + 1)..3 : ~Fits(text, version, e)

\* The formula for the modules that carry data agrees with the patterns that
\* are drawn, at every version the search comes to, and when the scan is over
\* each bit of each codeword has been given a module (the assertion that ends
\* drawCodewords).
RoomForAll ==
  /\ pc = "version" =>
       Cardinality(Grid(version) \ FunctionModules(version)) = getNumRawDataModules(version)
  /\ pc \in {"mask", "done"} => drawn = 8 * RawCodewords(version)

\* The score as its comments describe it, of each line: three points for a
\* run of five and one for each module more, forty for a finder-like pattern
\* for each side of it with a wide light margin.  Outside all is light.
LineReference(line, ver) ==
  LET n == Size(ver)
      same(p) == p + 4 <= n /\ \A k \in 1..4 : line[p + k] = line[p]
      fives == {p \in 1..n : same(p)}
      heads == {p \in fives : p = 1 \/ line[p - 1] # line[p]}
      light(a, b) == \A p \in Max({1, a})..Min({n, b}) : ~line[p]
      core(p, u) == \A o \in 0..(7 * u - 1) : line[p + o] <=> (o \div u \notin {1, 5})
      like(p, u, before, after) ==
        /\ p + 7 * u - 1 <= n
        /\ core(p, u)
        /\ light(p - before * u, p - 1)
        /\ light(p + 7 * u, p + (7 + after) * u - 1)
      starts == (1..n) \X (1..(n \div 7))
  IN Cardinality(fives) + 2 * Cardinality(heads)
       + 40 * Cardinality({s \in starts : like(s[1], s[2], 4, 1)})
       + 40 * Cardinality({s \in starts : like(s[1], s[2], 1, 4)})

\* The balance: the smallest k with (45-5k)% <= dark <= (55+5k)%.
BalanceReference(d, ver) ==
  LET total == Size(ver) * Size(ver)
      within(k) == /\ (45 - 5 * k) * total <= 100 * Cardinality(d)
                   /\ 100 * Cardinality(d) <= (55 + 5 * k) * total
  IN Min({k \in 0..9 : within(k)})

ScoreReference(d, ver) ==
  MapThenSumSet(LAMBDA i : LineReference(Row(d, ver, i), ver) + LineReference(Column(d, ver, i), ver),
                0..(Size(ver) - 1))
    + 3 * Cardinality(Squares(d, ver))
    + 10 * BalanceReference(d, ver)

\* Every score that a mask gets agrees with the reference.
ScoreRight == pc = "score" => PenaltyScore(dark, version) = ScoreReference(dark, version)

\* The finished symbol is one of the eight that were scored, and the best of
\* them: the masks that were tried left nothing behind, and its score is the
\* least of the eight.
BestMask ==
  pc = "done" =>
    /\ best.penalty = PenaltyScore(dark, version)
    /\ \A i \in 1..8 : best.penalty <= penalties[i]

(***************************************************************************)
(* What a reader makes of a symbol, of which it knows the modules and the  *)
(* size: nothing of the generator's state.                                 *)
(***************************************************************************)

\* The level and the mask that both copies of the format name.
FormatsRead(d, ver) ==
  {f \in (0..3) \X (0..7) :
     \A i \in 0..14 : /\ (FirstCopy(i) \in d) = (Bit(FormatCode(f[1], f[2]), i) = 1)
                      /\ (SecondCopy(ver, i) \in d) = (Bit(FormatCode(f[1], f[2]), i) = 1)}

\* The codewords under a mask, along columns from the right, up and down in
\* turn, the timing column left out.
CodewordsRead(d, ver, mask) ==
  LET pairs == [k \in 1..((Size(ver) - 1) \div 2) |->
                  IF Size(ver) + 1 - 2 * k > 6 THEN Size(ver) + 1 - 2 * k ELSE Size(ver) - 2 * k]
      along(k) == [j \in 1..(2 * Size(ver)) |->
                     <<pairs[k] - ((j - 1) % 2),
                       IF k % 2 = 1 THEN Size(ver) - 1 - (j - 1) \div 2 ELSE (j - 1) \div 2>>]
      function == FunctionModules(ver)
      path == SelectSeq(FlattenSeq([k \in DOMAIN pairs |-> along(k)]), LAMBDA m : m \notin function)
      bit(k) == IF (path[k] \in d) # Inverts(mask, path[k][1], path[k][2]) THEN 1 ELSE 0
  IN [c \in 1..(Len(path) \div 8) |-> ValueOf([k \in 1..8 |-> bit(8 * (c - 1) + k)], 2)]

\* Block b of the codewords, its error correction last.
BlockRead(cw, ver, e, b) ==
  LET blocks == NumBlocks(ver, e)
      data == getNumDataCodewords(ver, e)
      short == data \div blocks
      long == data % blocks
  IN [k \in 1..short |-> cw[(k - 1) * blocks + b]]
       \o (IF b > blocks - long THEN <<cw[short * blocks + b - (blocks - long)]>> ELSE <<>>)
       \o [k \in 1..BlockEccLen(ver, e) |-> cw[data + (k - 1) * blocks + b]]

\* The value of a block, as a polynomial, at 2^i is zero for each root.
Undamaged(block, eccLen) ==
  LET root[i \in 0..(eccLen - 1)] == IF i = 0 THEN 1 ELSE Product[2][root[i - 1]]
  IN \A i \in 0..(eccLen - 1) :
       LET x == root[i]
           value[k \in 0..Len(block)] ==
             IF k = 0 THEN 0 ELSE LET v == value[k - 1] IN Xor8[Product[v][x]][block[k]]
       IN value[Len(block)] = 0

\* The text in the data codewords.
TextRead(data, ver) ==
  LET bits == FlattenSeq([k \in DOMAIN data |-> Bits(data[k], 8)])
      number(from, len) == ValueOf(SubSeq(bits, from, from + len - 1), 2)
      charset == CASE number(1, 4) = 1 -> "numeric"
                   [] number(1, 4) = 2 -> "alphanumeric"
                   [] number(1, 4) \in {0, 4} -> "byte"
      cc == IF number(1, 4) = 0 THEN 0 ELSE numCharCountBits(charset, ver)
      n == IF cc = 0 THEN 0 ELSE number(5, cc)
      digit(i) == LET g == (i - 1) \div 3
                      len == Min({3, n - 3 * g})
                  IN (number(5 + cc + 10 * g, 3 * len + 1) \div 10^(len - 1 - ((i - 1) % 3))) % 10
      letter(i) == LET p == 5 + cc + 11 * ((i - 1) \div 2) IN
                   IF i % 2 = 0 THEN number(p, 11) % 45
                   ELSE IF i < n THEN number(p, 11) \div 45 ELSE number(p, 6)
  IN [i \in 1..n |-> CASE charset = "numeric" -> digit(i)
                       [] charset = "alphanumeric" -> letter(i)
                       [] charset = "byte" -> number(5 + cc + 8 * (i - 1), 8)]

\* Who reads the finished symbol gets the text that was encoded: both copies
\* of the format name one level and one mask, no block shows an error, and
\* the data codewords of the blocks hold the text.
ReadsBack ==
  pc = "done" =>
    \E f \in FormatsRead(dark, version) :
      LET cw == CodewordsRead(dark, version, f[2])
          eccLen == BlockEccLen(version, f[1])
          blocks == [b \in 1..NumBlocks(version, f[1]) |-> BlockRead(cw, version, f[1], b)]
          data == FlattenSeq([b \in DOMAIN blocks |->
                                SubSeq(blocks[b], 1, Len(blocks[b]) - eccLen)])
      IN /\ \A b \in DOMAIN blocks : Undamaged(blocks[b], eccLen)
         /\ TextRead(data, version) = text.chars

=============================================================================
