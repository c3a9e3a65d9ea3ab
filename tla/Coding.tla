------------------------------- MODULE Coding -------------------------------
(***************************************************************************)
(* The conversions of vic.cpp, HttpHelpers.cpp and HttpAccess.cpp, there   *)
(* and back, over inputs that grow by one character at a time.             *)
(***************************************************************************)
EXTENDS Vic, Base64, UriCoding

CONSTANTS VicOffsets,   \* the offsets tried: records [sign, digits]
          Characters,   \* of a text of a given length, what may follow
          NameBytes,    \* of a name
          Octets,       \* of what is encoded in base 64, by its length
          MaxText, MaxName, MaxBytes,  \* bounds on the lengths
          DefaultDoc, DefMime          \* the settings of the server

ASSUME CodingAssumption ==
  /\ MaxText \in Nat /\ MaxName \in Nat /\ MaxBytes \in Nat
  /\ CharSigned \in BOOLEAN /\ Beyond \in 0..255
  /\ VicOffsets \subseteq [sign : {"", "+", "-"}, digits : Seq(0..10)]
  /\ \A n \in 0..(MaxBytes - 1) : Octets[n] \subseteq 0..255
  /\ NameBytes \subseteq (1..255) \ {Slash}
  /\ DefaultDoc \in Seq(1..255)

VARIABLES task,   \* which conversion, and what else it takes
          input   \* the text, the name or the bytes

codingVars == <<task, input>>

CodingInit ==
  /\ input = <<>>
  /\ \/ \E offset \in VicOffsets : task = [is |-> "vic", offset |-> offset]
     \/ task = [is |-> "base64"]
     \/ \E kind \in {"file", "dir", "symlink"}, default, slash \in BOOLEAN :
          task = [is |-> "uri", kind |-> kind, default |-> default, slash |-> slash]

GrowText ==
  /\ task.is = "vic" /\ Len(input) < MaxText
  /\ \E c \in Characters[Len(input)] : input' = Append(input, c)
  /\ UNCHANGED task

GrowName ==
  /\ task.is = "uri" /\ Len(input) < MaxName
  /\ \E c \in NameBytes : input' = Append(input, c)
  /\ UNCHANGED task

GrowBytes ==
  /\ task.is = "base64" /\ Len(input) < MaxBytes
  /\ \E b \in Octets[Len(input)] : input' = Append(input, b)
  /\ UNCHANGED task

CodingNext == GrowText \/ GrowName \/ GrowBytes

CodingSpec == CodingInit /\ [][CodingNext]_codingVars

-----------------------------------------------------------------------------
(* A text without its spaces.                                              *)
Unspaced(text) ==
  LET kept[n \in 0..Len(text)] ==
        IF n = 0 THEN <<>>
        ELSE IF text[n] = " " THEN kept[n - 1]
        ELSE Append(kept[n - 1], text[n])
  IN kept[Len(text)]

(* An odd number of slashes stands before the character i.                 *)
InNumber(solid, i) == Cardinality({j \in 1..(i - 1) : solid[j] = "/"}) % 2 = 1

(* Where the digits mean one text: between slashes there are digits only,  *)
(* and no 4 that an 8 follows, which is read as the end of the number, or  *)
(* nothing.                                                                *)
Unambiguous(text) ==
  LET solid == Unspaced(text)
  IN \A i \in DOMAIN solid :
       /\ InNumber(solid, i) => solid[i] \in ToSet(Digits) \cup {"/"}
       /\ solid[i] = "4" => i < Len(solid) /\ solid[i + 1] # "8"

Solid(text) == LET solid == Unspaced(text)
               IN [i \in DOMAIN solid |-> Lower(solid[i])]

(* How many characters a cipher that ends in a 4 within a number loses: a  *)
(* digit that follows a 4 stands for both of them.                         *)
Lost(solid) ==
  LET n == Len(solid)
  IN IF n > 1 /\ solid[n - 1] = "4" /\ solid[n] # "/" THEN 2 ELSE 1

Opposite(offset) == [offset EXCEPT !.sign = IF @ = "-" THEN "+" ELSE "-"]

(* What vic prints, put in again with the opposite number, gives the text  *)
(* back, in small letters and without its spaces. If the digits ended in   *)
(* the middle of a letter, one or two letters more follow (vic.cpp:407);   *)
(* if they ended in a 4 within a number, the end of the text is lost: its  *)
(* last character, or its last two.                                        *)
VicRecovers ==
  task.is = "vic" /\ ToSet(task.offset.digits) \subseteq 0..9 /\ Unambiguous(input) =>
    LET there == Main(task.offset, input)
        back  == Main(Opposite(task.offset), there.text)
        state == Ends(there.cipher).state
    IN there.accepted =>
         /\ back.accepted
         /\ CASE state \in {"zero", "four"} -> IsPrefix(Solid(input), back.text)
              [] state = "number4" ->
                   IsPrefix(SubSeq(Solid(input), 1, Len(Solid(input)) - Lost(Solid(input))), back.text)
              [] state \in {"top", "number"} -> back.text = Solid(input)

(* A text with a space put in behind its first p characters.               *)
Spaced(text, p) ==
  [i \in 1..(Len(text) + 1) |->
     IF i <= p THEN text[i] ELSE IF i = p + 1 THEN Blank ELSE text[i - 1]]

(* Base 64 gives the bytes back, however much of the padding is cut off    *)
(* and wherever a space comes in between.                                  *)
Base64Recovers ==
  task.is = "base64" =>
    LET text   == Base64Encode(input)
        digits == (4 * Len(input) + 2) \div 3
        cut(n) == SubSeq(text, 1, n)
    IN \A n \in digits..Len(text) :
         \A t \in {cut(n)} \cup {Spaced(cut(n), p) : p \in 0..n} :
           LET d == DecodeBase64(t) IN ~d.bad /\ d.out = input

-----------------------------------------------------------------------------
Base == <<98>>             \* the path of the host, with no slash at its end
Dir  == <<98, 47, 100>>    \* the directory that is listed

(* What a browser puts before a link of the index: the path it asked for,  *)
(* up to its last slash. The server lists the directory for /d/ and for /d *)
(* alike (HttpHelpers.cpp:204) and sends the browser to neither.           *)
Page(slash) == IF slash THEN <<47, 100, 47>> ELSE <<47>>

(* The disk that holds the entry, and maybe a default document in it or    *)
(* where its name is taken for a directory's.                              *)
DiskOf(path, kind, defaultPath, default) ==
  [p \in {path, Dir, IF default THEN defaultPath ELSE Base} |->
     IF p = path THEN kind ELSE IF default /\ p = defaultPath THEN "file" ELSE "dir"]

TwoDots(name) == \E i \in 1..(Len(name) - 1) : name[i] = Dot /\ name[i + 1] = Dot

Plain(name) == /\ name # <<>> /\ name[1] # Dot /\ ~TwoDots(name)
               /\ \A i \in DOMAIN name : Unreserved(name[i])

LastDot(name, d) == d \in DOMAIN name /\ name[d] = Dot /\ \A i \in (d + 1)..Len(name) : name[i] # Dot

Extension(name) ==
  IF \E d \in DOMAIN name : LastDot(name, d)
  THEN SubSeq(name, CHOOSE d \in DOMAIN name : LastDot(name, d), Len(name))
  ELSE <<>>

(* A link of the index that was asked for as /d/, followed, leads back to  *)
(* the entry: to the file, or to the directory or its default document;    *)
(* with the extension of the name, if no character of it was escaped. The  *)
(* extension keeps its dot, with which the settings name the types, though *)
(* HttpHelpers.hpp:65 says that it comes without. A link of the index that *)
(* was asked for as /d leads past the directory, to the name beside it.    *)
(* The title shows the name. Excepted are names with two dots in a row,    *)
(* which become one. A file whose name has no dot gives way to one whose   *)
(* name goes on with that of the default document, which has a name that   *)
(* needs no escapes.                                                       *)
LinksLeadBack ==
  LET entry == [name |-> input, kind |-> task.kind]
      path  == Dir \o <<Slash>> \o input
      own   == IF entry.kind = "dir" THEN path \o <<Slash>> ELSE path
      disk  == DiskOf(path, entry.kind, own \o DefaultDoc, task.default)
      link  == Page(task.slash) \o Link(entry)
      got   == Resolve(disk, Base, DefaultDoc, link, DefMime)
      ext   == Extension(input)
      open  == entry.kind = "dir" \/ ext = <<>>
      type(e) == IF e = <<>> THEN DefMime ELSE MakeLower(e)
  IN task.is = "uri" /\ input # <<>> /\ Listed(entry) /\ ~TwoDots(input) /\ Plain(DefaultDoc) =>
       /\ UriDecode(UriEncode(input)) = input
       /\ ~task.slash =>
            UriDecodeExt(link, <<>>).uri = input \o (IF entry.kind = "dir" THEN <<Slash>> ELSE <<>>)
       /\ task.slash =>
            /\ got.uri = IF open /\ task.default THEN own \o DefaultDoc ELSE own
            /\ IF open THEN got.ext = IF task.default THEN type(Extension(DefaultDoc)) ELSE DefMime
               ELSE IF \A i \in DOMAIN ext : Unreserved(ext[i]) THEN got.ext = type(ext)
               ELSE got.ext[1] = Dot
=============================================================================
