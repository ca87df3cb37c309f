---------------------------------- MODULE Md5 ----------------------------------
(* The digest of passwords, which the repository has twice: md5.js for pages  *)
(* ("page") and MD5_hex.java for the server.  They share the rounds, and      *)
(* differ in how they lay out and pad a text and in how they add words.  The   *)
(* login pages load md5.js; encrypt.js does not call it at this commit.       *)
EXTENDS Integers, Sequences, Bitwise

CONSTANT Messages  \* the texts, sequences of character codes

ASSUME Md5Assumption == \A t \in Messages : \A i \in DOMAIN t : t[i] \in 0 .. 255

VARIABLES message, \* the text
          block,   \* the block that comes next
          browser, \* a, b, c and d of core_md5
          server   \* a, b, c and d of calcMD5

md5Vars == <<message, block, browser, server>>

(* A word is a pair of halves of 16 bits, as TLC's integers end at 2^31 - 1.  *)
Half == 65536

-----------------------------------------------------------------------------

ToWord(n) == <<(n \div Half) % Half, n % Half>>

Both(op(_, _), x, y) == <<op(x[1], y[1]), op(x[2], y[2])>>
AndW(x, y) == Both(&, x, y)
OrW(x, y) == Both(|, x, y)
XorW(x, y) == Both(^^, x, y)
NotW(x) == <<Half - 1 - x[1], Half - 1 - x[2]>>

(* safe_add of the page: the halves are added, and the carry to the upper.   *)
SafeAdd(x, y) ==
    LET lsw == x[2] + y[2] IN
    <<(x[1] + y[1] + lsw \div Half) % Half, lsw % Half>>

(* add of the server: the 31 lower bits are added, which carries into the     *)
(* sign, and the signs are added to that without a carry.                   *)
AddServer(x, y) ==
    LET low == x[2] + y[2]
        high == (x[1] % 32768) + (y[1] % 32768) + low \div Half
    IN <<(high + 32768 * (x[1] \div 32768) + 32768 * (y[1] \div 32768)) % Half, low % Half>>

Rol(x, n) ==
    LET y == IF n < 16 THEN x ELSE <<x[2], x[1]>>
        k == n % 16
    IN <<(y[1] * 2^k + y[2] \div 2^(16 - k)) % Half, (y[2] * 2^k + y[1] \div 2^(16 - k)) % Half>>

Constants ==
  << -680876936, -389564586, 606105819, -1044525330, -176418897, 1200080426, -1473231341,
     -45705983, 1770035416, -1958414417, -42063, -1990404162, 1804603682, -40341101,
     -1502002290, 1236535329, -165796510, -1069501632, 643717713, -373897302, -701558691,
     38016083, -660478335, -405537848, 568446438, -1019803690, -187363961, 1163531501,
     -1444681467, -51403784, 1735328473, -1926607734, -378558, -2022574463, 1839030562,
     -35309556, -1530992060, 1272893353, -155497632, -1094730640, 681279174, -358537222,
     -722521979, 76029189, -640364487, -421815835, 530742520, -995338651, -198630844,
     1126891415, -1416354905, -57434055, 1700485571, -1894986606, -1051523, -2054922799,
     1873313359, -30611744, -1560198380, 1309151649, -145523070, -1120210379, 718787259,
     -343485551 >>

Shifts == << <<7, 12, 17, 22>>, <<5, 9, 14, 20>>, <<4, 11, 16, 23>>, <<6, 10, 15, 21>> >>

(* The word of the block that step n takes, and ff, gg, hh and ii.           *)
WordOf(n) == CASE n < 16 -> n
               [] n \in 16 .. 31 -> (5 * n + 1) % 16
               [] n \in 32 .. 47 -> (3 * n + 5) % 16
               [] OTHER -> (7 * n) % 16

Mix(n, b, c, d) == CASE n < 16 -> OrW(AndW(b, c), AndW(NotW(b), d))
                     [] n \in 16 .. 31 -> OrW(AndW(b, d), AndW(c, NotW(d)))
                     [] n \in 32 .. 47 -> XorW(b, XorW(c, d))
                     [] OTHER -> XorW(c, OrW(b, NotW(d)))

-----------------------------------------------------------------------------

Byte(t, i) == IF i <= Len(t) THEN t[i] ELSE IF i = Len(t) + 1 THEN 128 ELSE 0

(* The words of a text with the bit that ends it, from word 0.              *)
WordAt(t, w) == << Byte(t, 4 * w + 4) * 256 + Byte(t, 4 * w + 3),
                   Byte(t, 4 * w + 2) * 256 + Byte(t, 4 * w + 1) >>

LengthWordEarly(t) == (((8 * Len(t) + 32) \div 512) * 16) + 14

(* core_md5 of the page: where the length goes, and how long x becomes by it.  *)
LengthWord(t) == (((8 * Len(t) + 64) \div 512) * 16) + 14

PageWord(t, w) == IF w = LengthWord(t) THEN ToWord(8 * Len(t)) ELSE WordAt(t, w)
PageBlocks(t) == (LengthWord(t) + 16) \div 16

(* str2blks_MD5 of the server: the number of blocks first.                 *)
ServerBlocks(t) == ((Len(t) + 8) \div 64) + 1
ServerWord(t, w) == IF w = 16 * ServerBlocks(t) - 2 THEN ToWord(8 * Len(t)) ELSE WordAt(t, w)

Start == <<ToWord(1732584193), ToWord(-271733879), ToWord(-1732584194), ToWord(271733878)>>

(* The 64 steps on the block, by the page or by the server: each makes a new  *)
(* value of one of a, b, c and d, and the next step finds them turned by one  *)
(* place.                                                                   *)
Rounds(side, start) ==
    LET add(v, w) == IF side = "page" THEN SafeAdd(v, w) ELSE AddServer(v, w)
        word(n) == IF side = "page" THEN PageWord(message, 16 * block + n)
                   ELSE ServerWord(message, 16 * block + n)
        step[n \in 0 .. 64] ==
            IF n = 0 THEN start
            ELSE LET s == step[n - 1]
                     q == Mix(n - 1, s[2], s[3], s[4])
                     sum == add(add(s[1], q), add(word(WordOf(n - 1)), ToWord(Constants[n])))
                     shift == Shifts[((n - 1) \div 16) + 1][((n - 1) % 4) + 1]
                 IN <<s[4], add(Rol(sum, shift), s[2]), s[2], s[3]>>
        end == step[64]
    IN [i \in 1 .. 4 |-> add(end[i], start[i])]

Md5Init ==
    /\ message \in Messages
    /\ block = 0 /\ browser = Start /\ server = Start

Md5Done == block >= PageBlocks(message) /\ block >= ServerBlocks(message)

(* One turn of the loops, in the page and in the server.                   *)
Md5Block ==
    /\ ~Md5Done
    /\ block' = block + 1
    /\ browser' = IF block < PageBlocks(message)
               THEN Rounds("page", browser)
               ELSE browser
    /\ server' = IF block < ServerBlocks(message)
                 THEN Rounds("server", server)
                 ELSE server
    /\ UNCHANGED message

Md5Spec == Md5Init /\ [][Md5Block]_md5Vars

-----------------------------------------------------------------------------
(* Properties.                                                             *)

(* binl2hex on one word: the digits of its bytes, the lowest first.         *)
HexDigits == <<"0", "1", "2", "3", "4", "5", "6", "7", "8", "9", "a", "b", "c", "d", "e", "f">>
HexByte(n) == HexDigits[(n \div 16) + 1] \o HexDigits[(n % 16) + 1]
HexWord(x) == HexByte(x[2] % 256) \o HexByte(x[2] \div 256) \o HexByte(x[1] % 256) \o HexByte(x[1] \div 256)
Hex(s) == HexWord(s[1]) \o HexWord(s[2]) \o HexWord(s[3]) \o HexWord(s[4])

(* The page and the server make the same digest of every text, also of those  *)
(* whose padding just fills a block or needs another one, and that of "abc"   *)
(* is the one md5_vm_test expects.                                          *)
SameDigest ==
    Md5Done => /\ browser = server
               /\ message = <<97, 98, 99>> => Hex(browser) = "900150983cd24fb0d6963f7d28e17f72"
=============================================================================
