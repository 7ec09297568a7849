------------------------------- MODULE QrGrid -------------------------------
(***************************************************************************)
(* The grid of a QR code and its image, as qrencode-go draws them.  A grid *)
(* is a function from the positions that are set, pairs <<x, y>> counted   *)
(* from the upper left, to BOOLEAN: TRUE is dark.  A position outside its  *)
(* domain is Empty.                                                        *)
(***************************************************************************)
EXTENDS QrData, TLC

CONSTANT Versions   \* the versions that are drawn
ASSUME VersionsAssumption == Versions \subseteq 1 .. LastVersion

Square(v) == (0 .. dimension(v) - 1) \X (0 .. dimension(v) - 1)

-----------------------------------------------------------------------------
(* Patterns: rings around a centre.                                        *)

Ring(p, c) == Max({p[1] - c[1], c[1] - p[1], p[2] - c[2], c[2] - p[2]})
Around(centres, size, dark, v) ==
    [p \in {q \in Square(v) : \E c \in centres : Ring(q, c) <= size} |->
        \E c \in centres : Ring(p, c) \in dark]

\* positionDetectionPattern, and the light separator that is left of positionDetectionPatternBack.
embedPositionDetectionPatterns(v) ==
    LET d == dimension(v)
    IN  Around({<<3, 3>>, <<d - 4, 3>>, <<3, d - 4>>}, 4, {0, 1, 3}, v)

\* positionAdjustmentPatternCoordinateTable.
adjustmentCoordinates == <<
    <<>>, <<6, 18>>, <<6, 22>>, <<6, 26>>, <<6, 30>>, <<6, 34>>, <<6, 22, 38>>, <<6, 24, 42>>,
    <<6, 26, 46>>, <<6, 28, 50>>, <<6, 30, 54>>, <<6, 32, 58>>, <<6, 34, 62>>, <<6, 26, 46, 66>>,
    <<6, 26, 48, 70>>, <<6, 26, 50, 74>>, <<6, 30, 54, 78>>, <<6, 30, 56, 82>>, <<6, 30, 58, 86>>,
    <<6, 34, 62, 90>>, <<6, 28, 50, 72, 94>>, <<6, 26, 50, 74, 98>>, <<6, 30, 54, 78, 102>>,
    <<6, 28, 54, 80, 106>>, <<6, 32, 58, 84, 110>>, <<6, 30, 58, 86, 114>>,
    <<6, 34, 62, 90, 118>>, <<6, 26, 50, 74, 98, 122>>, <<6, 30, 54, 78, 102, 126>>,
    <<6, 26, 52, 78, 104, 130>>, <<6, 30, 56, 82, 108, 134>>, <<6, 34, 60, 86, 112, 138>>,
    <<6, 30, 58, 86, 114, 142>>, <<6, 34, 62, 90, 118, 146>>, <<6, 30, 54, 78, 102, 126, 150>>,
    <<6, 24, 50, 76, 102, 128, 154>>, <<6, 28, 54, 80, 106, 132, 158>>,
    <<6, 32, 58, 84, 110, 136, 162>>, <<6, 26, 54, 82, 110, 138, 166>>,
    <<6, 30, 58, 86, 114, 142, 170>> >>

\* positionAdjustmentPattern, wherever its centre is Empty.
adjustmentPatterns(v, grid) ==
    LET at == ToSet(adjustmentCoordinates[v])
    IN  Around({c \in at \X at : c \notin DOMAIN grid}, 2, {0, 2}, v)

\* Every second position of row 6 and column 6, where nothing else is.
timingPatterns(v) ==
    [p \in {q \in Square(v) : 6 \in {q[1], q[2]}} |->
        IF p[2] = 6 THEN p[1] % 2 = 0 ELSE p[2] % 2 = 0]

darkDot(v) == [p \in {<<8, dimension(v) - 8>>} |-> TRUE]

embedBasicPatterns(v) ==
    LET corners == darkDot(v) @@ embedPositionDetectionPatterns(v)
    IN  corners @@ adjustmentPatterns(v, corners) @@ timingPatterns(v)

-----------------------------------------------------------------------------
(* Type and version information, each with a BCH code.                     *)

findMSBSet(n) == Min({k \in 0 .. 20 : n < 2 ^ k})
Xor(a, b) == Number([i \in 1 .. 20 |-> (Bits(a, 20)[i] + Bits(b, 20)[i]) % 2])

RECURSIVE Reduced(_, _)
Reduced(n, poly) ==
    IF findMSBSet(n) < findMSBSet(poly) THEN n
    ELSE Reduced(Xor(n, poly * 2 ^ (findMSBSet(n) - findMSBSet(poly))), poly)
calculateBCHCode(n, poly) == Reduced(n * 2 ^ (findMSBSet(poly) - 1), poly)

typeInfoPoly == 1335           \* 0x537
typeInfoMaskPattern == 21522   \* 0x5412
versionInfoPoly == 7973        \* 0x1f25

BitOf(n, i) == (n \div 2 ^ i) % 2 = 1

typeInfo(level, m) ==
    LET info == 8 * LevelNumber[level] + m
    IN  Xor(info * 2 ^ 10 + calculateBCHCode(info, typeInfoPoly), typeInfoMaskPattern)

\* Bit i stands beside the upper left corner and, once more, beside the other two.
typeInfoCoordinates ==
    <<<<8, 0>>, <<8, 1>>, <<8, 2>>, <<8, 3>>, <<8, 4>>, <<8, 5>>, <<8, 7>>, <<8, 8>>,
      <<7, 8>>, <<5, 8>>, <<4, 8>>, <<3, 8>>, <<2, 8>>, <<1, 8>>, <<0, 8>>>>
typeInfoOthers(v) ==
    [i \in 1 .. 15 |-> IF i <= 8 THEN <<dimension(v) - i, 8>> ELSE <<8, dimension(v) + i - 16>>]
embedTypeInfo(v, level, m) ==
    LET info == typeInfo(level, m)
        At(places) == [p \in ToSet(places) |-> BitOf(info, (CHOOSE i \in 1 .. 15 : places[i] = p) - 1)]
    IN  At(typeInfoOthers(v)) @@ At(typeInfoCoordinates)

versionInfoCells(v) == LET d == dimension(v) IN IF v < 7 THEN {} ELSE (0 .. 5) \X (d - 11 .. d - 9)

\* From version 7 on: six by three bits, and their mirror image.
maybeEmbedVersionInfo(v) ==
    LET info == v * 2 ^ 12 + calculateBCHCode(v, versionInfoPoly)
        d == dimension(v)
        bit(i, j) == BitOf(info, 3 * i + j)
        left == versionInfoCells(v)
    IN  IF v < 7 THEN <<>>
        ELSE [p \in left |-> bit(p[1], p[2] - d + 11)]
             @@ [p \in {<<q[2], q[1]>> : q \in left} |-> bit(p[2], p[1] - d + 11)]

-----------------------------------------------------------------------------
(* Data.                                                                   *)

mask(m, x, y) ==
    CASE m = 0 -> (x + y) % 2 = 0
      [] m = 1 -> y % 2 = 0
      [] m = 2 -> x % 3 = 0
      [] m = 3 -> (x + y) % 3 = 0
      [] m = 4 -> (x \div 3 + y \div 2) % 2 = 0
      [] m = 5 -> ((x * y) % 2) + ((x * y) % 3) = 0
      [] m = 6 -> (((x * y) % 2) + ((x * y) % 3)) % 2 = 0
      [] m = 7 -> (((x * y) % 3) + ((x + y) % 2)) % 2 = 0

\* What is set before the data, whichever mask is tried.
Taken(v) ==
    DOMAIN embedBasicPatterns(v) \cup ToSet(typeInfoCoordinates) \cup ToSet(typeInfoOthers(v))
        \cup versionInfoCells(v) \cup {<<p[2], p[1]>> : p \in versionInfoCells(v)}

\* When embedDataBits comes to p: by pairs of columns from the right, the first pair upwards, the
\* next one downwards, and so on; column 6 is passed over.
Turn(v, p) ==
    LET d == dimension(v)
        column == IF p[1] > 6 THEN d - 1 - p[1] ELSE d - 2 - p[1]
        up == (column \div 2) % 2 = 0
    IN  2 * d * (column \div 2) + 2 * (IF up THEN d - 1 - p[2] ELSE p[2]) + (column % 2)

\* What the grids of a version have in common, and which bit goes where.
Fixed == [v \in Versions |-> embedBasicPatterns(v)]
DataIndex == [v \in Versions |->
    LET free == Square(v) \ Taken(v)
        turns == {Turn(v, p) : p \in free}
    IN  [p \in free |-> LET turn == Turn(v, p) IN Cardinality({t \in turns : t <= turn})]]

\* Positions left over are filled as with zeros.
embedDataBits(bits, v, m) ==
    [p \in DOMAIN DataIndex[v] |->
        LET i == DataIndex[v][p]
        IN  (i <= Len(bits) /\ bits[i] = 1) # mask(m, p[1], p[2])]

buildGrid(bits, v, level, m) ==
    embedTypeInfo(v, level, m) @@ maybeEmbedVersionInfo(v) @@ Fixed[v] @@ embedDataBits(bits, v, m)

-----------------------------------------------------------------------------
(* The first mask of least penalty.                                        *)

\* The rows and the columns, as sequences.
Lines(v, grid) ==
    LET d == dimension(v)
        Row(l) == SubSeq([i \in 1 .. d |-> grid[<<i - 1, l - 1>>]], 1, d)
        Column(l) == SubSeq([i \in 1 .. d |-> grid[<<l - 1, i - 1>>]], 1, d)
    IN  SubSeq([l \in 1 .. d |-> Row(l)], 1, d) \o SubSeq([l \in 1 .. d |-> Column(l)], 1, d)
Count(lines, Here(_, _)) ==
    Cardinality({w \in (DOMAIN lines) \X (DOMAIN lines[1]) : Here(lines[w[1]], w[2])})

\* Five of one colour in a row cost 3, each further one 1.
maskPenaltyRule1(lines) ==
    LET Five(l, i) == i + 4 <= Len(l) /\ \A k \in i + 1 .. i + 4 : l[k] = l[i]
        FirstFive(l, i) == Five(l, i) /\ (i = 1 \/ l[i - 1] # l[i])
    IN  Count(lines, Five) + 2 * Count(lines, FirstFive)

maskPenaltyRule2(v, grid) ==
    3 * Cardinality({p \in (1 .. dimension(v) - 1) \X (1 .. dimension(v) - 1) :
            \A q \in (p[1] - 1 .. p[1]) \X (p[2] - 1 .. p[2]) : grid[q] = grid[p]})

\* Dark, light, three dark, light, dark; four light ones after it, or before it, cost 40.
Eye == <<TRUE, FALSE, TRUE, TRUE, TRUE, FALSE, TRUE>>
maskPenaltyRule3(lines) ==
    LET Seen(l, i) == i + 6 <= Len(l) /\ \A k \in 1 .. 7 : l[i + k - 1] = Eye[k]
        Light(l, I) == \A i \in I : i \in DOMAIN l /\ ~l[i]
        LightAfter(l, i) == Seen(l, i) /\ Light(l, i + 7 .. i + 10)
        LightBefore(l, i) == Seen(l, i) /\ Light(l, i - 4 .. i - 1)
    IN  40 * (Count(lines, LightAfter) + Count(lines, LightBefore))

maskPenaltyRule4(v, grid) ==
    LET total == dimension(v) * dimension(v)
        dark == Cardinality({p \in Square(v) : grid[p]}) - total \div 2
    IN  ((IF dark < 0 THEN 1 - dark ELSE dark) * 200) \div total

maskPenalty(v, grid) ==
    LET lines == Lines(v, grid)
    IN  maskPenaltyRule1(lines) + maskPenaltyRule2(v, grid) + maskPenaltyRule3(lines)
            + maskPenaltyRule4(v, grid)

bestMaskPattern(bits, v, level) ==
    Min({8 * maskPenalty(v, buildGrid(bits, v, level, m)) + m : m \in 0 .. 7}) % 8

-----------------------------------------------------------------------------
(* The image is black where no white was put.                              *)

Margin(size, block, width, p) ==
    \E i \in 1 .. 2 : p[i] < block * size \/ p[i] >= width - block * size
ImageWithMargin(v, grid, block, size) ==
    LET width == block * (2 * size + dimension(v))
        module(p) == <<p[1] \div block - size, p[2] \div block - size>>
    IN  [width |-> width,
         black |-> [p \in (0 .. width - 1) \X (0 .. width - 1) |->
                       ~Margin(size, block, width, p) /\ (module(p) \in Square(v) => grid[module(p)])]]

=============================================================================
