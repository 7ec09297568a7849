------------------------------- MODULE QrScan -------------------------------
(***************************************************************************)
(* What a phone reads from the image of a QR code, written from the rules  *)
(* of the standard and not from the code that draws: the order of reading, *)
(* the two copies of the format and of the version, the blocks and their   *)
(* syndromes, and the text.                                                *)
(***************************************************************************)
EXTENDS QrGrid

\* The table of powers is what it should be.
ASSUME PowersAssumption ==
    \A i \in 0 .. 254 : LET twice == 2 * fieldExp[i]
                        IN  fieldExp[i + 1] = IF twice < 256 THEN twice ELSE fieldAddSub(twice, 285)

\* The polynomial is zero at the i-th power of 2: every bit is set in an even number of its terms.
Vanishes(poly, i) ==
    LET terms == [j \in {k \in DOMAIN poly : poly[k] # 0} |->
                     fieldExp[(fieldLog[poly[j]] + i * (Len(poly) - j)) % 255]]
    IN  \A bit \in 0 .. 7 : Cardinality({j \in DOMAIN terms : BitOf(terms[j], bit)}) % 2 = 0

\* Multiples of a generator of a BCH code, with no carries.
RECURSIVE Carryless(_, _)
Carryless(n, poly) ==
    IF n = 0 THEN 0 ELSE Xor(IF n % 2 = 1 THEN poly ELSE 0, 2 * Carryless(n \div 2, poly))

\* The centres of the alignment patterns are evenly spaced, the first distance excepted.
Centres(v) ==
    LET n == v \div 7 + 2
        step == IF v = 32 THEN 26 ELSE 2 * ((4 * v + 2 * n + 1) \div (2 * n - 2))
    IN  IF v = 1 THEN {} ELSE {6} \cup {dimension(v) - 7 - k * step : k \in 0 .. n - 2}

Corner(v, x, y) ==
    LET d == dimension(v) IN (x <= 8 /\ (y <= 8 \/ y >= d - 8)) \/ (x >= d - 8 /\ y <= 8)
Reserved(v, x, y) ==
    LET d == dimension(v)
    IN  \/ Corner(v, x, y)
        \/ 6 \in {x, y}
        \/ \E a, b \in Centres(v) : ~Corner(v, a, b) /\ Ring(<<x, y>>, <<a, b>>) <= 2
        \/ v >= 7 /\ ((x <= 5 /\ y >= d - 11) \/ (y <= 5 /\ x >= d - 11))

\* Up and down in columns two modules wide, from the right, leaving out the timing column.
ReadingOrder(v) ==
    LET d == dimension(v)
        Column(right, up) ==
            [t \in 1 .. 2 * d |-> LET r == (t - 1) \div 2
                                  IN  <<right - ((t - 1) % 2), IF up THEN d - 1 - r ELSE r>>]
        rights == [k \in 1 .. (d - 1) \div 2 |-> IF d + 1 - 2 * k > 6 THEN d + 1 - 2 * k ELSE d - 2 * k]
    IN  SelectSeq(FlattenSeq([k \in DOMAIN rights |-> Column(rights[k], k % 2 = 1)]),
                  LAMBDA c : ~Reserved(v, c[1], c[2]))
Orders == [v \in Versions |-> ReadingOrder(v)]

Masked(m, i, j) ==
    << (i + j) % 2, i % 2, j % 3, (i + j) % 3, ((i \div 2) + (j \div 3)) % 2, (i * j) % 6,
       (((i * j) % 2) + ((i * j) % 3)) % 2, (((i + j) % 2) + ((i * j) % 3)) % 2 >>[m + 1] = 0

-----------------------------------------------------------------------------
(* The image, of blocks of six pixels and a margin of four blocks.         *)

VersionOf(image) == (image.width \div 6 - 25) \div 4
Sampled(image) ==
    LET offset(c) == <<6 * (c[1] + 4), 6 * (c[2] + 4)>>
    IN  [c \in Square(VersionOf(image)) |-> image.black[<<offset(c)[1] + 3, offset(c)[2] + 3>>]]

\* Nothing in the margin, and no block of two colours.
Crisp(image, grid) ==
    /\ \A i \in 0 .. image.width - 1 : \A j \in (0 .. 23) \cup (image.width - 24 .. image.width - 1) :
            ~image.black[<<i, j>>] /\ ~image.black[<<j, i>>]
    /\ \A c \in DOMAIN grid : \A i, j \in {0, 5} :
            image.black[<<6 * (c[1] + 4) + i, 6 * (c[2] + 4) + j>>] = grid[c]

\* Two eyes across, their light borders, and the timing row and column.
Aligned(v, grid) ==
    LET d == dimension(v)
        eye == <<TRUE, FALSE, TRUE, TRUE, TRUE, FALSE, TRUE, FALSE>>
        Across(i, j) == \A k \in 1 .. 8 : /\ grid[<<k - 1, i>>] = eye[k] /\ grid[<<d - k, i>>] = eye[k]
                                          /\ grid[<<j, k - 1>>] = eye[k] /\ grid[<<j, d - k>>] = eye[k]
    IN  /\ Across(3, 3)
        /\ \A k \in 8 .. d - 9 : grid[<<k, 6>>] = (k % 2 = 0) /\ grid[<<6, k>>] = (k % 2 = 0)

Read(grid, cells) == Number([k \in DOMAIN cells |-> IF grid[cells[k]] THEN 1 ELSE 0])
Format(grid) ==
    Read(grid, [k \in 1 .. 6 |-> <<k - 1, 8>>] \o <<<<7, 8>>, <<8, 8>>, <<8, 7>>>> \o [k \in 1 .. 6 |-> <<8, 6 - k>>])
OtherFormat(v, grid) ==
    LET d == dimension(v)
    IN  Read(grid, [k \in 1 .. 7 |-> <<8, d - k>>] \o [k \in 1 .. 8 |-> <<d - 9 + k, 8>>])
VersionBits(v, grid, down) ==
    LET Cell(k) == <<5 - ((k - 1) \div 3), dimension(v) - 9 - ((k - 1) % 3)>>
    IN  Read(grid, [k \in 1 .. 18 |-> IF down THEN Cell(k) ELSE <<Cell(k)[2], Cell(k)[1]>>])

\* Both copies are the same word of the code; the level is Q.
Announced(v, grid) ==
    LET format == Xor(Format(grid), 21522)
    IN  /\ Format(grid) = OtherFormat(v, grid)
        /\ \E n \in 0 .. 31 : Carryless(n, 1335) = format
        /\ format \div 2 ^ 13 = 3
        /\ v >= 7 => /\ \A down \in BOOLEAN : VersionBits(v, grid, down) \div 2 ^ 12 = v
                     /\ \A down \in BOOLEAN : \E n \in 0 .. 63 : Carryless(n, 7973) = VersionBits(v, grid, down)

-----------------------------------------------------------------------------
(* Codewords and blocks.                                                   *)

Codewords(v, grid) ==
    LET m == (Xor(Format(grid), 21522) \div 2 ^ 10) % 8
        Bit(c) == IF grid[c] # Masked(m, c[2], c[1]) THEN 1 ELSE 0
        Byte(k) == Number([j \in 1 .. 8 |-> Bit(Orders[v][8 * (k - 1) + j])])
    IN  SubSeq([k \in 1 .. Len(Orders[v]) \div 8 |-> Byte(k)], 1, totalCodewords(v))

\* How many data codewords each block has, from the table of the level.
Sizes(v) ==
    LET b == Blocks(v, "Q")
    IN  FlattenSeq([g \in 1 .. (Len(b) - 1) \div 2 |-> [k \in 1 .. b[2 * g] |-> b[2 * g + 1]]])
DataOf(v, words) ==
    LET sizes == Sizes(v)
        At(k, j) == Sum([i \in DOMAIN sizes |-> Min({sizes[i], j - 1})])
                        + Cardinality({i \in 1 .. k : sizes[i] >= j})
    IN  [k \in DOMAIN sizes |-> [j \in 1 .. sizes[k] |-> words[At(k, j)]]]
EcOf(v, words) ==
    LET n == Len(Sizes(v))
    IN  [k \in 1 .. n |-> [j \in 1 .. Blocks(v, "Q")[1] |-> words[Sum(Sizes(v)) + (j - 1) * n + k]]]
Correct(v, words) ==
    \A block \in {DataOf(v, words)[k] \o EcOf(v, words)[k] : k \in DOMAIN Sizes(v)} :
        \A i \in 0 .. Blocks(v, "Q")[1] - 1 : Vanishes(block, i)

-----------------------------------------------------------------------------
(* The text.                                                               *)

\* n characters of a mode that packs `per` of them into widths[per] bits; past the end they are zero.
Unpacked(bits, n, base, per, widths) ==
    [k \in 1 .. n |->
        LET group == (k - 1) \div per
            size == Min({per, n - per * group})
            from == group * widths[per]
            value == IF from + widths[size] > Len(bits) THEN 0 ELSE Number(SubSeq(bits, from + 1, from + widths[size]))
        IN  (value \div base ^ (size - 1 - ((k - 1) % per))) % base]

Field(bits, from, size) == Number(SubSeq(bits, from + 1, from + size))
TextOf(v, words) ==
    LET bits == BitsOf(words)
        start == IF Field(bits, 0, 4) = 7 THEN 12 ELSE 0
        mode == Field(bits, start, 4)
        size == IF v <= 9 THEN 1 ELSE 2
        count == CASE mode = 1 -> <<10, 12>>[size] [] mode = 2 -> <<9, 11>>[size] [] OTHER -> <<8, 16>>[size]
        n == Min({Field(bits, start + 4, count), Len(bits)})
        rest == SubSeq(bits, start + 4 + count + 1, Len(bits))
        Symbols(codes) == [k \in DOMAIN codes |-> Alphanumerics[codes[k] + 1]]
    IN  CASE mode = 1 -> Symbols(Unpacked(rest, n, 10, 3, <<4, 7, 10>>))
          [] mode = 2 -> Symbols(Unpacked(rest, n, 45, 2, <<6, 11>>))
          [] mode = 4 /\ (start = 0 \/ Field(bits, 4, 8) = 26) -> Unpacked(rest, n, 256, 1, <<8>>)
          [] OTHER -> <<>>

\* What is read, and whether a phone has nothing to correct.
Scan(image) ==
    LET v == VersionOf(image)
        grid == Sampled(image)
        words == Codewords(v, grid)
    IN  [text |-> TextOf(v, FlattenSeq(DataOf(v, words))),
         sound |-> Crisp(image, grid) /\ Aligned(v, grid) /\ Announced(v, grid) /\ Correct(v, words)]

=============================================================================
