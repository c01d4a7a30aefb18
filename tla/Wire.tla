---------------------------------- MODULE Wire ----------------------------------
(***************************************************************************)
(* Two conversions of the SOCKS5 handshake, on pairs of bytes in network    *)
(* order: the bound port sendCommandResponse (socks5.cpp) writes, and the   *)
(* text formIpAddressString (string_utils.h) makes of two bytes of an IPv6  *)
(* address, which the resolver reads back as one hexadecimal group.         *)
(***************************************************************************)
EXTENDS Naturals

Byte == 0 .. 255
Pairs == Byte \X Byte

\* The number a pair stands for.
Word(w) == 256 * w[1] + w[2]

\* The two bytes of BND.PORT: (bindPort & 0xFF) >> 8, then bindPort & 0x00FF.
BindPortBytes(p) == <<(p % 256) \div 256, p % 256>>

\* Seeded bug: decimal digits.
HexWidthDecimal(b) == IF b < 10 THEN 10 ELSE 100

\* 16 to the number of hexadecimal digits a byte is written with, no zero in front.
HexWidth(b) == IF b < 16 THEN 16 ELSE 256

\* The value of the group written for a pair: the digits of one byte after the other's.
GroupValue(w) == w[1] * HexWidth(w[2]) + w[2]
================================================================================
