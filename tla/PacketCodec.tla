---------------------------- MODULE PacketCodec -----------------------------
(***************************************************************************)
(* The packet codec of the game MuOnline (ghp_ENCDEC.cpp), as functions on *)
(* sequences of bytes.  C3 makes eleven bytes of eight: four words are     *)
(* chained, multiplied and reduced modulo four keys, and packed as 18 bits *)
(* each before a checksum and a length.  Xor32 chains bytes.  Words are    *)
(* unsigned and have 32 bits; TLC's integers have 31, which is why         *)
(* products are taken in halves.  A block is a sequence of 88 bits.        *)
(*                                                                         *)
(* The exclusive or of two words is taken half by half, without recursion, *)
(* so that the proofs can go down to the single bit.                       *)
(***************************************************************************)
EXTENDS Integers, Sequences

\* Only the 48 bytes of a key table that LoadKeys reads.
Enc1 ==
    <<\hD4, \h53, \h09, \h3F, \h01, \h41, \h5E, \hE2, \hE2, \h68, \hD3, \h93, \h2D, \h06, \hDF, \h20,
      \h5A, \hFC, \h08, \h3F, \h00, \hEC, \h5C, \hE2, \hD1, \h37, \hD2, \h93, \hF0, \h92, \hDE, \h20,
      \h86, \h1A, \h08, \h3F, \hD2, \h76, \h5C, \hE2, \hFA, \h41, \hD2, \h93, \h86, \h35, \hDE, \h20>>
Dec1 ==
    <<\hD4, \h53, \h09, \h3F, \h01, \h41, \h5E, \hE2, \hE2, \h68, \hD3, \h93, \h2D, \h06, \hDF, \h20,
      \hA3, \hDC, \h08, \h3F, \h78, \hC5, \h5C, \hE2, \h0A, \hA4, \hD2, \h93, \h78, \h80, \hDE, \h20,
      \h86, \h1A, \h08, \h3F, \hD2, \h76, \h5C, \hE2, \hFA, \h41, \hD2, \h93, \h86, \h35, \hDE, \h20>>
C3Keys ==
    <<\h9B, \hA7, \h08, \h3F, \h87, \hC2, \h5C, \hE2, \hB9, \h7A, \hD2, \h93, \hBF, \hA7, \hDE, \h20>>
C2Keys ==
    <<\hE7, \h6D, \h3A, \h89, \hBC, \hB2, \h9F, \h73, \h23, \hA8, \hFE, \hB6, \h49, \h5D, \h39, \h5D,
      \h8A, \hCB, \h63, \h8D, \hEA, \h7D, \h2B, \h5F, \hC3, \hB1, \hE9, \h83, \h29, \h51, \hE8, \h56>>
LoginKeys ==
    <<\hFC, \hCF, \hAB>>

-----------------------------------------------------------------------------
(* Bytes and 32-bit words. *)

Byte(word, k) == (word \div 256^k) % 256

Xor1(a, b) == (a + b) % 2
Xor2(a, b) == 2 * Xor1(a \div 2, b \div 2) + Xor1(a % 2, b % 2)
Xor4(a, b) == 4 * Xor2(a \div 4, b \div 4) + Xor2(a % 4, b % 4)
Xor8(a, b) == 16 * Xor4(a \div 16, b \div 16) + Xor4(a % 16, b % 16)
Xor16(a, b) == 256 * Xor8(a \div 256, b \div 256) + Xor8(a % 256, b % 256)
Xor32(a, b) == 65536 * Xor16(a \div 65536, b \div 65536) + Xor16(a % 65536, b % 65536)

XorBytes(a, b, c) == Xor8(a, Xor8(b, c))
XorWords(a, b, c) == Xor32(a, Xor32(b, c))

\* (a * b) % m, the product in an unsigned long: high and low half of it.
TimesMod(a, b, m) ==
    LET p1 == (a \div 512) * b
        p0 == (a % 512) * b
        low == (p1 % 128) * 512 + (p0 % 65536)
        high == (p1 \div 128 + p0 \div 65536 + low \div 65536) % 65536
    IN  (((high * 256) % m) * 256 + (low % 65536)) % m

(* LoadKeys: four moduli, four factors and four masks, numbered from 0.    *)
LoadKeys(buf) ==
    [k \in 0 .. 11 |->
        LET byte(n) == Xor8(buf[4 * k + n + 1], C3Keys[4 * (k % 4) + n + 1])
        IN  byte(0) + 256 * byte(1) + 65536 * byte(2)]

(* HashBuffer copies n bits of one buffer into another one, counted from    *)
(* the highest bit of the first byte.  Both ends are packed without a gap. *)
HashBuffer(src, from, n) == SubSeq(src, from + 1, from + n)

Bits(byte) ==
    <<byte \div 128, (byte \div 64) % 2, (byte \div 32) % 2, (byte \div 16) % 2,
      (byte \div 8) % 2, (byte \div 4) % 2, (byte \div 2) % 2, byte % 2>>
BitsOf(word) == Bits(Byte(word, 0)) \o Bits(Byte(word, 1)) \o Bits(Byte(word, 2))

ByteAt(bits, p) ==
    128 * bits[p + 1] + 64 * bits[p + 2] + 32 * bits[p + 3] + 16 * bits[p + 4]
    + 8 * bits[p + 5] + 4 * bits[p + 6] + 2 * bits[p + 7] + bits[p + 8]
WordOf(bits) == ByteAt(bits, 0) + 256 * ByteAt(bits, 8) + 65536 * ByteAt(bits, 16)

-----------------------------------------------------------------------------
(* A block: four fields of 18 bits of 24, then one of 16. *)
Pack(word) == HashBuffer(BitsOf(word), 0, 16) \o HashBuffer(BitsOf(word), 22, 2)
Unpack(src, i) ==
    WordOf(HashBuffer(src, 18 * i, 16) \o <<0, 0, 0, 0, 0, 0>>
           \o HashBuffer(src, 18 * i + 16, 2))
UnpackLast(src) == WordOf(HashBuffer(src, 72, 16) \o <<0, 0, 0, 0, 0, 0, 0, 0>>)

CheckByte(bytes) ==
    XorBytes(XorBytes(\hF8, bytes[1], bytes[2]), XorBytes(bytes[3], bytes[4], bytes[5]),
             XorBytes(bytes[6], bytes[7], bytes[8]))

EncC3Bytes(src, len, keys) ==
    LET word(i) == src[2 * i + 1] + 256 * src[2 * i + 2]
        chain(i, before) ==
            TimesMod(XorWords(keys[i + 8], word(i), before % 65536), keys[i + 4], keys[i])
        e0 == chain(0, 0)
        e1 == chain(1, e0)
        e2 == chain(2, e1)
        e3 == chain(3, e2)
        mask(i, e, next) == XorWords(e, keys[8 + i], next % 65536)
        last == XorBytes(CheckByte(src), len, \h3D) + 256 * CheckByte(src)
    IN  Pack(mask(0, e0, e1)) \o Pack(mask(1, e1, e2)) \o Pack(mask(2, e2, e3)) \o Pack(e3)
        \o HashBuffer(BitsOf(last), 0, 16)

(* The bytes, and their number or -1 if the checksum is wrong.             *)
DecC3Bytes(src, keys) ==
    LET unmask(i, next) == XorWords(Unpack(src, i), keys[8 + i], next % 65536)
        d3 == Unpack(src, 3)
        d2 == unmask(2, d3)
        d1 == unmask(1, d2)
        d0 == unmask(0, d1)
        word(i, d, before) ==
            XorWords(TimesMod(d, keys[4 + i], keys[i]), keys[i + 8], before % 65536) % 65536
        bytes(i, d, before) == <<Byte(word(i, d, before), 0), Byte(word(i, d, before), 1)>>
        dest == bytes(0, d0, 0) \o bytes(1, d1, d0) \o bytes(2, d2, d1) \o bytes(3, d3, d2)
        last == UnpackLast(src)
    IN  [bytes |-> dest,
         length |-> IF CheckByte(dest) # Byte(last, 1) THEN -1
                    ELSE XorBytes(Byte(last, 1), Byte(last, 0), \h3D)]

-----------------------------------------------------------------------------
(* A packet, whose length is a multiple of eight in the packets that the   *)
(* client handles.  DecryptC3 stops at a wrong checksum; what the buffer   *)
(* holds then is not defined, here nothing.                                *)
EncryptC3(bytes, keys) ==
    [k \in 1 .. (Len(bytes) \div 8) |->
        EncC3Bytes(SubSeq(bytes, 8 * k - 7, 8 * k), 8, keys)]

DecryptC3(blocks, keys) ==
    LET dec == [k \in DOMAIN blocks |-> DecC3Bytes(blocks[k], keys)]
    IN  IF \E k \in DOMAIN dec : dec[k].length < 0 THEN <<>>
        ELSE [b \in 1 .. 8 * Len(blocks) |-> dec[((b - 1) \div 8) + 1].bytes[((b - 1) % 8) + 1]]

ClientEncryptKeys == LoadKeys(Enc1)
ServerDecryptKeys == LoadKeys(Dec1)
EncryptC3asClient(bytes) == EncryptC3(bytes, ClientEncryptKeys)
DecryptC3asServer(blocks) == DecryptC3(blocks, ServerDecryptKeys)

(* Xor32 of the bytes behind the first one, which stays.                   *)
XorKey(b, size) == C2Keys[((b - 2 + size) % 32) + 1]

\* For a mutant: the chain goes over the plain bytes.
EncXor32Plain(bytes, size) ==
    [b \in DOMAIN bytes |->
        IF b = 1 THEN bytes[1] ELSE XorBytes(bytes[b], XorKey(b, size), bytes[b - 1])]

EncXor32(bytes, size) ==
    LET enc[n \in 0 .. Len(bytes)] ==
            IF n = 0 THEN <<>>
            ELSE LET done == enc[n - 1]
                 IN  Append(done, IF n = 1 THEN bytes[1]
                                  ELSE XorBytes(bytes[n], XorKey(n, size), done[n - 1]))
    IN  enc[Len(bytes)]

DecXor32(bytes, size) ==
    [b \in DOMAIN bytes |->
        IF b = 1 THEN bytes[1] ELSE XorBytes(bytes[b], XorKey(b, size), bytes[b - 1])]

EncDecLogin(bytes) == [b \in DOMAIN bytes |-> Xor8(bytes[b], LoginKeys[((b - 1) % 3) + 1])]
=============================================================================
