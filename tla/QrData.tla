------------------------------- MODULE QrData -------------------------------
(***************************************************************************)
(* The data of a QR code, as github.com/qpliu/qrencode-go makes it for the *)
(* server's /qrcode: from the bytes of a text to the bits that go into the *)
(* grid, with their error correction.  Bits are 0 and 1, a BitVector is a  *)
(* sequence of them, and a gfPoly the sequence of its coefficients.        *)
(***************************************************************************)
EXTENDS Integers, SequencesExt, FiniteSetsExt

Sum(s) == FoldLeft(LAMBDA x, y : x + y, 0, s)
OddPlaces(s) == [i \in 1 .. (Len(s) + 1) \div 2 |-> s[2 * i - 1]]

\* BitVector.Append: the lowest count bits of b, the highest of them first.
Bits(b, count) == [i \in 1 .. count |-> (b \div 2 ^ (count - i)) % 2]
BitsOf(bytes) ==
    [i \in 1 .. 8 * Len(bytes) |-> (bytes[(i + 7) \div 8] \div 2 ^ (7 - ((i - 1) % 8))) % 2]
Zeros(n) == [i \in 1 .. n |-> 0]
Number(bits) == FoldLeft(LAMBDA n, b : 2 * n + b, 0, bits)

-----------------------------------------------------------------------------
(* Versions and error correction levels.                                   *)

Levels == {"M", "L", "H", "Q"}
LevelNumber == [M |-> 0, L |-> 1, H |-> 2, Q |-> 3]
LastVersion == 40

\* ecBlocks[v][level + 1]: codewordsPerBlock, then count and dataCodewords of each group;
\* the versions up to 20, and from 21 on.
ecBlocksTo20 == <<
    << <<10, 1, 16>>, <<7, 1, 19>>, <<17, 1, 9>>, <<13, 1, 13>> >>,
    << <<16, 1, 28>>, <<10, 1, 34>>, <<28, 1, 16>>, <<22, 1, 22>> >>,
    << <<26, 1, 44>>, <<15, 1, 55>>, <<22, 2, 13>>, <<18, 2, 17>> >>,
    << <<18, 2, 32>>, <<20, 1, 80>>, <<16, 4, 9>>, <<26, 2, 24>> >>,
    << <<24, 2, 43>>, <<26, 1, 108>>, <<22, 2, 11, 2, 12>>, <<18, 2, 15, 2, 16>> >>,
    << <<16, 4, 27>>, <<18, 2, 68>>, <<28, 4, 15>>, <<24, 4, 19>> >>,
    << <<18, 4, 31>>, <<20, 2, 78>>, <<26, 4, 13, 1, 14>>, <<18, 2, 14, 4, 15>> >>,
    << <<22, 2, 38, 2, 39>>, <<24, 2, 97>>, <<26, 4, 14, 2, 15>>, <<22, 4, 18, 2, 19>> >>,
    << <<22, 3, 36, 2, 37>>, <<30, 2, 116>>, <<24, 4, 12, 4, 13>>, <<20, 4, 16, 4, 17>> >>,
    << <<26, 4, 43, 1, 44>>, <<18, 2, 68, 2, 69>>, <<28, 6, 15, 2, 16>>, <<24, 6, 19, 2, 20>> >>,
    << <<30, 1, 50, 4, 51>>, <<20, 4, 81>>, <<24, 3, 12, 8, 13>>, <<28, 4, 22, 4, 23>> >>,
    << <<22, 6, 36, 2, 37>>, <<24, 2, 92, 2, 93>>, <<28, 7, 14, 4, 15>>, <<26, 4, 20, 6, 21>> >>,
    << <<22, 8, 37, 1, 38>>, <<26, 4, 107>>, <<22, 12, 11, 4, 12>>, <<24, 8, 20, 4, 21>> >>,
    << <<24, 4, 40, 5, 41>>, <<30, 3, 115, 1, 116>>, <<24, 11, 12, 5, 13>>, <<20, 11, 16, 5, 17>> >>,
    << <<24, 5, 41, 5, 42>>, <<22, 5, 87, 1, 88>>, <<24, 11, 12, 7, 13>>, <<30, 5, 24, 7, 25>> >>,
    << <<28, 7, 45, 3, 46>>, <<24, 5, 98, 1, 99>>, <<30, 3, 15, 13, 16>>, <<24, 15, 19, 2, 20>> >>,
    << <<28, 10, 46, 1, 47>>, <<28, 1, 107, 5, 108>>, <<28, 2, 14, 17, 15>>, <<28, 1, 22, 15, 23>> >>,
    << <<26, 9, 43, 4, 44>>, <<30, 5, 120, 1, 121>>, <<28, 2, 14, 19, 15>>, <<28, 17, 22, 1, 23>> >>,
    << <<26, 3, 44, 11, 44>>, <<28, 3, 113, 4, 114>>, <<26, 9, 13, 16, 14>>, <<26, 17, 21, 4, 22>> >>,
    << <<26, 3, 41, 13, 42>>, <<28, 3, 107, 5, 108>>, <<28, 15, 15, 10, 16>>, <<30, 15, 24, 5, 25>> >> >>
ecBlocksFrom21 == <<
    << <<26, 17, 42>>, <<28, 4, 116, 4, 117>>, <<30, 19, 16, 6, 17>>, <<28, 17, 22, 6, 23>> >>,
    << <<28, 17, 46>>, <<28, 2, 111, 7, 112>>, <<24, 34, 13>>, <<30, 7, 24, 16, 25>> >>,
    << <<28, 4, 47, 14, 48>>, <<30, 4, 121, 5, 122>>, <<30, 16, 15, 14, 16>>, <<30, 11, 24, 14, 25>> >>,
    << <<28, 6, 45, 14, 46>>, <<30, 6, 117, 4, 118>>, <<30, 30, 16, 2, 17>>, <<30, 11, 24, 16, 25>> >>,
    << <<28, 8, 47, 13, 48>>, <<26, 8, 106, 4, 107>>, <<30, 22, 15, 13, 16>>, <<30, 7, 24, 22, 25>> >>,
    << <<28, 19, 46, 4, 47>>, <<28, 10, 114, 2, 115>>, <<30, 33, 16, 4, 17>>, <<28, 28, 22, 6, 23>> >>,
    << <<28, 22, 45, 3, 46>>, <<30, 8, 122, 4, 123>>, <<30, 12, 15, 28, 16>>, <<30, 8, 23, 26, 24>> >>,
    << <<28, 3, 45, 23, 46>>, <<30, 3, 117, 10, 118>>, <<30, 11, 15, 31, 16>>, <<30, 4, 24, 31, 25>> >>,
    << <<28, 21, 45, 7, 46>>, <<30, 7, 116, 7, 117>>, <<30, 19, 15, 26, 16>>, <<30, 1, 32, 37, 24>> >>,
    << <<28, 19, 47, 10, 48>>, <<30, 5, 115, 10, 116>>, <<30, 23, 15, 25, 16>>, <<30, 15, 24, 25, 25>> >>,
    << <<28, 2, 46, 29, 47>>, <<30, 13, 115, 3, 116>>, <<30, 23, 15, 28, 16>>, <<30, 42, 24, 1, 25>> >>,
    << <<28, 10, 46, 23, 47>>, <<30, 17, 115>>, <<30, 19, 15, 35, 16>>, <<30, 10, 24, 35, 25>> >>,
    << <<28, 14, 46, 21, 47>>, <<30, 17, 115, 1, 116>>, <<30, 11, 15, 46, 16>>, <<30, 29, 24, 19, 25>> >>,
    << <<28, 14, 16, 23, 47>>, <<30, 13, 115, 6, 116>>, <<30, 59, 16, 1, 17>>, <<30, 44, 24, 7, 25>> >>,
    << <<28, 12, 47, 26, 48>>, <<30, 12, 121, 7, 122>>, <<30, 22, 15, 41, 16>>, <<30, 39, 24, 14, 25>> >>,
    << <<28, 6, 47, 34, 48>>, <<30, 6, 121, 14, 122>>, <<30, 2, 15, 64, 16>>, <<30, 46, 24, 10, 25>> >>,
    << <<28, 29, 46, 14, 47>>, <<30, 17, 122, 4, 123>>, <<30, 24, 15, 46, 16>>, <<30, 49, 24, 10, 25>> >>,
    << <<28, 13, 46, 32, 47>>, <<30, 4, 122, 18, 123>>, <<30, 42, 15, 32, 16>>, <<30, 48, 24, 14, 25>> >>,
    << <<28, 40, 47, 7, 48>>, <<30, 20, 117, 4, 118>>, <<30, 10, 15, 67, 16>>, <<30, 43, 24, 22, 25>> >>,
    << <<28, 18, 47, 31, 48>>, <<30, 19, 118, 6, 119>>, <<30, 20, 15, 61, 16>>, <<30, 34, 24, 34, 25>> >> >>
ecBlocks == ecBlocksTo20 \o ecBlocksFrom21

Blocks(v, level) == ecBlocks[v][LevelNumber[level] + 1]
numBlocks(v, level) == Sum(OddPlaces(Tail(Blocks(v, level))))
totalECCodewords(v, level) == numBlocks(v, level) * Blocks(v, level)[1]

totalCodewords(v) ==
    LET b == Blocks(v, "L")
    IN  Sum([i \in 1 .. (Len(b) - 1) \div 2 |-> b[2 * i] * (b[2 * i + 1] + b[1])])
dataCodewords(v, level) == totalCodewords(v) - totalECCodewords(v, level)
dimension(v) == 17 + 4 * v

\* The first version with room for so many bits; 0 when there is none.
chooseVersion(bitCount, level) ==
    LET Large(v) == (bitCount + 7) \div 8 <= dataCodewords(v, level)
    IN  IF \E v \in 1 .. LastVersion : Large(v) THEN CHOOSE v \in 1 .. LastVersion : Large(v) /\ \A u \in 1 .. v - 1 : ~Large(u)
        ELSE 0

-----------------------------------------------------------------------------
(* Content.                                                                *)

\* The characters of the alphanumeric mode, in the order of their codes.
Alphanumerics == [i \in 1 .. 10 |-> 47 + i] \o [i \in 1 .. 26 |-> 64 + i]
                     \o <<32, 36, 37, 42, 43, 45, 46, 47, 58>>
alphanumericCode == [b \in ToSet(Alphanumerics) |->
                        (CHOOSE i \in 1 .. 45 : Alphanumerics[i] = b) - 1]

getMode(content) ==
    LET bytes == ToSet(content)
    IN  IF content = <<>> \/ ~(bytes \subseteq ToSet(Alphanumerics)) THEN "byte"
        ELSE IF \E b \in bytes : alphanumericCode[b] >= 10 THEN "alphanumeric"
        ELSE "numeric"

modeIndicator == [numeric |-> 1, alphanumeric |-> 2, byte |-> 4]
modeECI == 7

\* Versions up to 9, up to 26, and larger ones.
characterCountBits(mode, v) ==
    LET size == IF v <= 9 THEN 1 ELSE IF v <= 26 THEN 2 ELSE 3
    IN  [numeric |-> <<10, 12, 14>>, alphanumeric |-> <<9, 11, 13>>, byte |-> <<8, 16, 16>>][mode][size]

InBase(base, group) == FoldLeft(LAMBDA n, b : base * n + alphanumericCode[b], 0, group)

\* Three digits or two characters at a time, or a byte; what is left over takes fewer bits.
appendContent(content, mode) ==
    LET Packed(base, n, sizes) ==
            LET last == Len(content) % n
                full == sizes[n] * (Len(content) \div n)
                Group(k) == Bits(InBase(base, SubSeq(content, n * (k - 1) + 1, n * k)), sizes[n])
            IN  [i \in 1 .. full |-> Group((i - 1) \div sizes[n] + 1)[((i - 1) % sizes[n]) + 1]]
                \o IF last = 0 THEN <<>>
                   ELSE Bits(InBase(base, SubSeq(content, Len(content) - last + 1, Len(content))), sizes[last])
    IN  CASE mode = "numeric" -> Packed(10, 3, <<4, 7, 10>>)
          [] mode = "alphanumeric" -> Packed(45, 2, <<6, 11>>)
          [] mode = "byte" -> BitsOf(content)

\* Four zeros if there is room, zeros up to a whole byte, and 0xec, 0x11, 0xec and so on.
appendTerminator(capacity, bits) ==
    LET ended == bits \o Zeros(Min({4, 8 * capacity - Len(bits)}))
        whole == ended \o Zeros((8 - (Len(ended) % 8)) % 8)
    IN  whole \o BitsOf([k \in 1 .. capacity - Len(whole) \div 8 |-> IF k % 2 = 1 THEN 236 ELSE 17])

\* A text that is not digits or capitals is announced as UTF-8.
headerBits(mode) ==
    (IF mode = "byte" THEN Bits(modeECI, 4) \o Bits(26, 8) ELSE <<>>) \o Bits(modeIndicator[mode], 4)

\* The version is chosen as if the count had its largest size.
versionFor(content, level) ==
    LET mode == getMode(content)
    IN  chooseVersion(Len(headerBits(mode)) + Len(appendContent(content, mode))
                        + characterCountBits(mode, LastVersion), level)

\* Mutant of contentBits: the count takes the bits with which the version was chosen.
contentBitsLarge(content, v, level) ==
    LET mode == getMode(content)
    IN  appendTerminator(dataCodewords(v, level),
            headerBits(mode) \o Bits(Len(content), characterCountBits(mode, LastVersion))
                \o appendContent(content, mode))
contentBits(content, v, level) ==
    LET mode == getMode(content)
    IN  appendTerminator(dataCodewords(v, level),
            headerBits(mode) \o Bits(Len(content), characterCountBits(mode, v))
                \o appendContent(content, mode))

-----------------------------------------------------------------------------
(* The field of 256 elements, and polynomials over it.                     *)

\* Exclusive or of the values of f; nine bits, since a sum is reduced by a polynomial of degree 8.
fieldSum(f) ==
    LET bit(k) == (Cardinality({i \in DOMAIN f : (f[i] \div 2 ^ k) % 2 = 1}) % 2) * 2 ^ k
    IN  bit(0) + bit(1) + bit(2) + bit(3) + bit(4) + bit(5) + bit(6) + bit(7) + bit(8)
fieldAddSub(a, b) == fieldSum(<<a, b>>)

\* fieldExpTable: the powers of 2, reduced by x^8 + x^4 + x^3 + x^2 + 1.
fieldExpTable == <<
    1, 2, 4, 8, 16, 32, 64, 128, 29, 58, 116, 232, 205, 135, 19, 38, 76, 152, 45, 90, 180, 117, 234,
    201, 143, 3, 6, 12, 24, 48, 96, 192, 157, 39, 78, 156, 37, 74, 148, 53, 106, 212, 181, 119, 238,
    193, 159, 35, 70, 140, 5, 10, 20, 40, 80, 160, 93, 186, 105, 210, 185, 111, 222, 161, 95, 190, 97,
    194, 153, 47, 94, 188, 101, 202, 137, 15, 30, 60, 120, 240, 253, 231, 211, 187, 107, 214, 177, 127,
    254, 225, 223, 163, 91, 182, 113, 226, 217, 175, 67, 134, 17, 34, 68, 136, 13, 26, 52, 104, 208,
    189, 103, 206, 129, 31, 62, 124, 248, 237, 199, 147, 59, 118, 236, 197, 151, 51, 102, 204, 133, 23,
    46, 92, 184, 109, 218, 169, 79, 158, 33, 66, 132, 21, 42, 84, 168, 77, 154, 41, 82, 164, 85, 170,
    73, 146, 57, 114, 228, 213, 183, 115, 230, 209, 191, 99, 198, 145, 63, 126, 252, 229, 215, 179, 123,
    246, 241, 255, 227, 219, 171, 75, 150, 49, 98, 196, 149, 55, 110, 220, 165, 87, 174, 65, 130, 25,
    50, 100, 200, 141, 7, 14, 28, 56, 112, 224, 221, 167, 83, 166, 81, 162, 89, 178, 121, 242, 249, 239,
    195, 155, 43, 86, 172, 69, 138, 9, 18, 36, 72, 144, 61, 122, 244, 245, 247, 243, 251, 235, 203, 139,
    11, 22, 44, 88, 176, 125, 250, 233, 207, 131, 27, 54, 108, 216, 173, 71, 142, 1 >>
fieldExp == [i \in 0 .. 255 |-> fieldExpTable[i + 1]]
fieldLog == [a \in 1 .. 255 |-> CHOOSE i \in 0 .. 254 : fieldExp[i] = a]
fieldMult(a, b) == IF a = 0 \/ b = 0 THEN 0 ELSE fieldExp[(fieldLog[a] + fieldLog[b]) % 255]
fieldInv(a) == fieldExp[256 - fieldLog[a] - 1]

\* Leading zeros go; the zero polynomial keeps one.
newGFPoly(p) ==
    IF \A i \in DOMAIN p : p[i] = 0 THEN <<0>>
    ELSE SubSeq(p, Min({i \in DOMAIN p : p[i] # 0}), Len(p))
IsZero(p) == p[1] = 0

AddSub(p, x) ==
    LET n == Max({Len(p), Len(x)})
        Wide(q) == Zeros(n - Len(q)) \o q
    IN  newGFPoly([i \in 1 .. n |-> fieldAddSub(Wide(p)[i], Wide(x)[i])])
MultiplyByMonomial(p, degree, c) ==
    newGFPoly([i \in DOMAIN p |-> fieldMult(p[i], c)] \o Zeros(degree))
Multiply(p, x) ==
    newGFPoly([k \in 1 .. Len(p) + Len(x) - 1 |->
        fieldSum([i \in {j \in DOMAIN p : k + 1 - j \in DOMAIN x} |-> fieldMult(p[i], x[k + 1 - i])])])

RECURSIVE Remainder(_, _)
Remainder(p, x) ==
    IF Len(p) < Len(x) \/ IsZero(p) THEN p
    ELSE Remainder(AddSub(p, MultiplyByMonomial(x, Len(p) - Len(x), fieldMult(p[1], fieldInv(x[1])))), x)

\* The factor by which the generator of degree d becomes that of degree d + 1.
\* Mutant of Factor: the next one.
FactorNext(d) == <<1, fieldExp[d + 1]>>
Factor(d) == <<1, fieldExp[d]>>

\* generateECBytes: the remainder of the data; copy panics when it has too many coefficients.
Correction(data, n, generator) ==
    Remainder(MultiplyByMonomial(newGFPoly(data), n, 1), generator)
ecBytes(correction, n) == Zeros(n - Len(correction)) \o correction

-----------------------------------------------------------------------------
(* Blocks.                                                                 *)

\* getBlockSizes: the blocks of the second group have one byte more.
inGroup1(v, level) == numBlocks(v, level) - (totalCodewords(v) % numBlocks(v, level))
dataSize(v, level, i) ==
    dataCodewords(v, level) \div numBlocks(v, level) + (IF i <= inGroup1(v, level) THEN 0 ELSE 1)
ecSize(v, level, i) ==
    totalCodewords(v) \div numBlocks(v, level) - dataCodewords(v, level) \div numBlocks(v, level)

dataBlock(bits, v, level, i) ==
    LET offset == Sum([k \in 1 .. i - 1 |-> dataSize(v, level, k)])
    IN  [j \in 1 .. dataSize(v, level, i) |->
            Number(SubSeq(bits, 8 * (offset + j) - 7, 8 * (offset + j)))]

\* The first bytes of all blocks, the second ones, and so on; then their correction.
\* Mutant of Interleaved: block after block.
InterleavedNot(blocks) == FlattenSeq(blocks)
Interleaved(blocks) ==
    FlattenSeq([i \in 1 .. Max({Len(blocks[k]) : k \in DOMAIN blocks}) |->
        LET having == SelectSeq(blocks, LAMBDA b : i <= Len(b))
        IN  [k \in DOMAIN having |-> having[k][i]]])
interleaveWithECBytes(data, ecs) == BitsOf(Interleaved(data) \o Interleaved(ecs))

=============================================================================
