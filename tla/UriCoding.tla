----------------------------- MODULE UriCoding ------------------------------
(***************************************************************************)
(* HttpHelpers (code/utils/HttpHelpers.cpp): names become links and links  *)
(* become paths again, with the extension that chooses the type. Texts are *)
(* sequences of bytes; a disk is a function from paths, without the slash  *)
(* that may end them, to "file" or "dir".                                  *)
(***************************************************************************)
EXTENDS Integers, SequencesExt

CONSTANTS CharSigned,  \* whether char is signed, as on x86
          Beyond       \* the byte that lies behind the end of a text

Space     == 32
Percent   == 37
Plus      == 43
Dot       == 46
Slash     == 47
BackSlash == 92

IsNumber(c)  == c \in 48..57
IsLetter(c)  == c \in (65..90) \cup (97..122)
LowerCase(c) == IF c \in 65..90 THEN c + 32 ELSE c

EndsIn(text, c) == text # <<>> /\ Last(text) = c

-----------------------------------------------------------------------------
HexToInt(c) ==
  IF IsNumber(c) THEN c - 48
  ELSE IF LowerCase(c) \in 97..102 THEN LowerCase(c) - 97 + 10
  ELSE 128

(* Only the low four bits count.                                           *)
IntToHex(v) == (IF v % 16 < 10 THEN 48 ELSE 55) + (v % 16)

(* Seeded fault: a plus is left as it is.                                  *)
UnreservedPlus(c) == IsLetter(c) \/ IsNumber(c) \/ c \in {Plus, 45, Dot, 95, 126}

Unreserved(c) == IsLetter(c) \/ IsNumber(c) \/ c \in {45, Dot, 95, 126}

Escaped(c) ==
  IF Unreserved(c) THEN <<c>> ELSE <<Percent, IntToHex(c \div 16), IntToHex(c)>>

UriEncode(text) ==
  LET after[n \in 0..Len(text)] ==
        IF n = 0 THEN <<>> ELSE after[n - 1] \o Escaped(text[n])
  IN after[Len(text)]

(* The byte that the escape at i stands for, or -1 where there is none.    *)
(* The length less two is unsigned: in a text of one character the two     *)
(* beyond its end are looked at. What is no hexadecimal digit passes for   *)
(* one where char is signed, and leaves no bits.                           *)
Escape(text, i) ==
  LET at(j)  == IF j <= Len(text) THEN text[j] ELSE IF j = 2 THEN 0 ELSE Beyond
      hex(j) == IF CharSigned THEN HexToInt(at(j)) % 128 ELSE HexToInt(at(j))
  IN IF (i + 2 <= Len(text) \/ Len(text) = 1) /\ {hex(i + 1), hex(i + 2)} \subseteq 0..15
       THEN hex(i + 1) * 16 + hex(i + 2) ELSE 0 - 1

Begin(ext) == [out |-> <<>>, skip |-> 0, ext |-> ext]

(* The decoding of a title: one character, of which two more may be part.  *)
Unescaped(text, s, i) ==
  LET c == text[i] IN
  IF s.skip > 0 THEN [s EXCEPT !.skip = @ - 1]
  ELSE IF c # Percent THEN [s EXCEPT !.out = Append(@, IF c = Plus THEN Space ELSE c)]
  ELSE IF Escape(text, i) >= 0 THEN [s EXCEPT !.out = Append(@, Escape(text, i)), !.skip = 2]
  ELSE s

UriDecode(text) ==
  LET after[n \in 0..Len(text)] ==
        IF n = 0 THEN Begin(<<>>) ELSE Unescaped(text, after[n - 1], n)
  IN after[Len(text)].out

(* The decoding of a path: slashes and dots neither lead nor come twice.   *)
(* The extension starts at a dot, ends at a slash, and grows by what is    *)
(* neither escaped nor a plus.                                             *)
PathUnescaped(text, s, i) ==
  LET c == IF text[i] = BackSlash THEN Slash ELSE text[i]
      once == IF s.out = <<>> \/ EndsIn(s.out, c) THEN s.out ELSE Append(s.out, c)
  IN IF s.skip > 0 \/ c \in {Percent, Plus} THEN Unescaped(text, s, i)
     ELSE IF c = Slash THEN [s EXCEPT !.out = once, !.ext = <<>>]
     ELSE IF c = Dot THEN [s EXCEPT !.out = once, !.ext = <<Dot>>]
     ELSE [s EXCEPT !.out = Append(@, c), !.ext = IF @ = <<>> THEN @ ELSE Append(@, c)]

MakeLower(text) == [i \in DOMAIN text |-> LowerCase(text[i])]

UriDecodeExt(text, ext) ==
  LET after[n \in 0..Len(text)] ==
        IF n = 0 THEN Begin(ext) ELSE PathUnescaped(text, after[n - 1], n)
  IN [uri |-> after[Len(text)].out, ext |-> MakeLower(after[Len(text)].ext)]

-----------------------------------------------------------------------------
(* stat: a slash at the end asks for a directory.                          *)
IsDirectory(disk, path) ==
  LET p == IF EndsIn(path, Slash) THEN Front(path) ELSE path
  IN p \in DOMAIN disk /\ disk[p] = "dir"

IsFile(disk, path) == path \in DOMAIN disk /\ disk[path] = "file"

Closed(path) == IF path = <<>> \/ EndsIn(path, Slash) THEN path ELSE Append(path, Slash)

(* What a request gets: the path under the base, with the default document *)
(* where a directory, or a name without an extension, has one, and the     *)
(* extension or else the default type.                                     *)
Resolve(disk, base, defaultDoc, uri, defmime) ==
  LET decoded == UriDecodeExt(uri, <<>>)
      whole   == Closed(base) \o decoded.uri
      path    == IF IsDirectory(disk, whole) THEN Closed(whole) ELSE whole
      default == UriDecodeExt(defaultDoc, decoded.ext)
      isDir   == IsDirectory(disk, whole) \/ decoded.ext = <<>>
      found   == isDir /\ IsFile(disk, path \o default.uri)
      ext     == IF found THEN default.ext ELSE IF isDir THEN <<>> ELSE decoded.ext
  IN [uri |-> IF found THEN path \o default.uri ELSE path,
      ext |-> IF ext = <<>> THEN defmime ELSE ext]

(* The index of a directory shows neither symbolic links nor hidden names, *)
(* and links a directory with a slash.                                     *)
Listed(entry) == entry.kind # "symlink" /\ entry.name[1] # Dot

Link(entry) == UriEncode(entry.name) \o (IF entry.kind = "dir" THEN <<Slash>> ELSE <<>>)
=============================================================================
