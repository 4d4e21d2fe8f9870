----------------------------- MODULE Encodings -----------------------------
(***************************************************************************)
(* From what an authenticator returns to what the secp256r1 precompile     *)
(* takes: a DER signature becomes r and s at a fixed width with s in the   *)
(* lower half, a DER key becomes a compressed point.  Numbers are Width    *)
(* bytes wide instead of 32, over a small Order, which keeps every case of *)
(* the encodings: short numbers, full ones, and ones with the top bit set. *)
(***************************************************************************)
EXTENDS Integers, Sequences, SequencesExt

Width == 2
Order == 65521     \* stands for the order of P-256, whose top bit is set too

\* Big-endian bytes, exactly n of them.
Bytes(v, n) == [i \in 1..n |-> (v \div 256^(n - i)) % 256]
Value(b)    == FoldLeft(LAMBDA v, d : 256 * v + d, 0, b)

-----------------------------------------------------------------------------
(* The authenticator.                                                      *)

\* DER: as few bytes as a signed number needs.
DerInteger(v) ==
  LET n == CHOOSE k \in 1..(Width + 1) :
             v < 128 * 256^(k - 1) /\ \A j \in 1..(k - 1) : v >= 128 * 256^(j - 1)
  IN <<2, n>> \o Bytes(v, n)

Der(rs) ==
  LET body == DerInteger(rs.r) \o DerInteger(rs.s)
  IN <<48, Len(body)>> \o body

\* An uncompressed point behind a header, which for P-256 is 26 bytes without a 4.
SpkiHeader == <<48, 89, 48, 19, 6, 7, 42, 134, 72, 206, 61, 2, 1, 6, 8, 42, 134,
                72, 206, 61, 3, 1, 7, 3, 66, 0>>
Spki(p) == SpkiHeader \o <<4>> \o Bytes(p.x, Width) \o Bytes(p.y, Width)

-----------------------------------------------------------------------------
(* The SDK's core.                                                         *)

\* The last Width bytes, filled up with zeros on the left.
RightAligned(b) ==
  [i \in 1..Width |-> LET j == i + Len(b) - Width IN IF j >= 1 THEN b[j] ELSE 0]

DerToCompact(der) ==
  LET rLen == der[4]
      sLen == der[6 + rLen]
  IN RightAligned(SubSeq(der, 5, 4 + rLen))
       \o RightAligned(SubSeq(der, 7 + rLen, 6 + rLen + sLen))

\* Variant: the signature is passed on as the authenticator made it.
AnyS(compact) == compact

NormalizeLowS(compact) ==
  LET s == Value(SubSeq(compact, Width + 1, 2 * Width))
  IN IF s <= Order \div 2
     THEN compact
     ELSE SubSeq(compact, 1, Width) \o Bytes(Order - s, Width)

\* The point starts at the first 4 that leaves room for it.
SpkiToCompressedKey(spki) ==
  LET at == CHOOSE i \in DOMAIN spki :
              /\ spki[i] = 4 /\ i + 2 * Width <= Len(spki)
              /\ \A j \in 1..(i - 1) : spki[j] # 4
      x == SubSeq(spki, at + 1, at + Width)
      y == SubSeq(spki, at + Width + 1, at + 2 * Width)
  IN <<2 + (y[Width] % 2)>> \o x

-----------------------------------------------------------------------------
(* The React package's own copies.                                         *)

\* Skips a leading zero by the length alone, and pads what is short.
ReactNumber(der, at, len) ==
  LET b == IF len > Width THEN SubSeq(der, at + 1, at + Width)
                          ELSE SubSeq(der, at, at + len - 1)
  IN [i \in 1..(Width - Len(b)) |-> 0] \o b

ReactDerToCompact(der) ==
  LET rLen == der[4]
      sLen == der[6 + rLen]
  IN ReactNumber(der, 5, rLen) \o ReactNumber(der, 7 + rLen, sLen)

ReactLowS(compact) ==
  LET s == Value(SubSeq(compact, Width + 1, 2 * Width))
  IN IF s > Order \div 2
     THEN SubSeq(compact, 1, Width) \o Bytes(Order - s, Width)
     ELSE compact

CompressP256(point) ==
  <<IF point[2 * Width + 1] % 2 = 0 THEN 2 ELSE 3>> \o SubSeq(point, 2, Width + 1)

ReactExtractPubkey(spki) ==
  LET at == CHOOSE i \in DOMAIN spki : spki[i] = 4 /\ \A j \in 1..(i - 1) : spki[j] # 4
  IN CompressP256(SubSeq(spki, at, at + 2 * Width))

-----------------------------------------------------------------------------
(* The testing helper writes the low s into a copy that it drops.          *)

EnsureLowS(compact) ==
  IF Value(SubSeq(compact, Width + 1, 2 * Width)) <= Order \div 2
  THEN compact
  ELSE SubSeq(compact, 1, Width) \o Bytes(0, Width)

-----------------------------------------------------------------------------
(* The precompile: both numbers in range at their full width, s low, and   *)
(* the signature made with the key.  A signature with Order - s in place   *)
(* of s verifies as well.                                                  *)

PrecompileAccepts(compact, rs) ==
  LET s == Value(SubSeq(compact, Width + 1, 2 * Width))
  IN /\ Len(compact) = 2 * Width
     /\ Value(SubSeq(compact, 1, Width)) = rs.r
     /\ s \in {rs.s, Order - rs.s}
     /\ s <= Order \div 2

Edges == {1, 127, 128, 255, 256, 32767, 32768, 65280,
          Order \div 2, Order \div 2 + 1, Order - 1}

Signatures == [r : Edges, s : Edges]

\* Both packages hand the precompile the same signature and the same key, and it
\* accepts the signature; that of the testing helper only if its s was low anyway.
ASSUME EncodersAgree ==
  /\ \A rs \in Signatures :
       ReactLowS(ReactDerToCompact(Der(rs))) = NormalizeLowS(DerToCompact(Der(rs)))
  /\ \A rs \in Signatures :
       LET compact == Bytes(rs.r, Width) \o Bytes(rs.s, Width)
       IN /\ DerToCompact(Der(rs)) = compact
          /\ PrecompileAccepts(NormalizeLowS(compact), rs)
          /\ PrecompileAccepts(EnsureLowS(compact), rs) <=> rs.s <= Order \div 2
  /\ \A p \in [x : Edges \cup {4, 1028}, y : Edges \cup {4, 1028}] :
       /\ SpkiToCompressedKey(Spki(p)) = <<2 + (p.y % 2)>> \o Bytes(p.x, Width)
       /\ ReactExtractPubkey(Spki(p)) = SpkiToCompressedKey(Spki(p))
=============================================================================
