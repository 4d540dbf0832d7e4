------------------------------ MODULE KeyText -------------------------------
(***************************************************************************)
(* The key generator uoskey: a private key from the hash of each seed, and *)
(* the texts it prints of the key and of its public key, which whoever     *)
(* runs it pastes into a wallet or a snapshot, perhaps with blanks around. *)
(* The texts are read by fc's private_key and public_key, of which the     *)
(* forms uoskey prints are modelled: the wallet import format, and the     *)
(* prefix UOS with a checksum.  Bytes are 0..Base - 1, characters of the   *)
(* base-58 alphabet their positions in it; the first stands for zero.      *)
(***************************************************************************)
EXTENDS Numerals, SequencesExt

CONSTANTS Base,         \* 256
          Digits,       \* 58
          CheckBytes,   \* bytes of a checksum: 4
          KeyBytes,     \* bytes of a private key: 32
          PubBytes,     \* bytes of a compressed public key: 33
          MainNet,      \* the first byte of a private key's text: 0x80
          Blank,        \* isspace
          LetterO,      \* 'O', which is not in the alphabet
          LetterU, LetterS,
          Hash(_, _),   \* sha256 and ripemd160: n bytes of a sequence
          PublicOf(_),  \* the compressed public key of a private key
          Secrets       \* the hashes of the seeds

\* The strings of n bytes.
Blobs(n) == [1..n -> 0..Base - 1]

\* A hash gives as many bytes as it is asked for, of whatever uoskey hashes.
ASSUME KeyTextConsts ==
  /\ Base \in Nat \ {0} /\ Base % 2 = 0 /\ Digits \in Nat \ {0, 1}
  /\ KeyBytes \in Nat /\ PubBytes \in Nat \ {0} /\ CheckBytes \in 0..KeyBytes
  /\ MainNet \in 0..Base - 1 /\ {LetterU, LetterS} \subseteq 0..Digits - 1
  /\ {Blank, LetterO} \cap 0..Digits - 1 = {} /\ Blank # LetterO
  /\ \A h \in Blobs(KeyBytes) : Hash(h, KeyBytes) \in Blobs(KeyBytes)
  /\ \A k \in Secrets : /\ k \in Blobs(KeyBytes) /\ PublicOf(k) \in Blobs(PubBytes)
                        /\ Hash(<<MainNet>> \o k, KeyBytes) \in Blobs(KeyBytes)
                        /\ Hash(PublicOf(k), CheckBytes) \in Blobs(CheckBytes)

VARIABLES secret,  \* the private key of the last seed, or << >>
          private, \* the texts printed of it
          public,
          pasted   \* what reading them gave, as either kind

keyvars == <<secret, private, public, pasted>>

Throw == [ok |-> FALSE, bytes |-> << >>]
Bytes(b) == [ok |-> TRUE, bytes |-> b]

-----------------------------------------------------------------------------
(* base58.cpp.                                                             *)

Zeros(s) == SubSeq(s, 1, SelectInSeq(Append(s, 1), LAMBDA d : d # 0) - 1)

EncodeBase58(bytes) == Zeros(bytes) \o InBase(Value(bytes, Base), Digits)

\* The bytes of a bignum that is read as signed: a zero byte before a high one.
getvch(n) ==
  LET b == InBase(n, Base) IN IF b # << >> /\ Head(b) >= Base \div 2 THEN <<0>> \o b ELSE b

\* Mutant: the sign byte stays.
TrimSignKept(b) == b

TrimSign(b) ==
  IF Len(b) >= 2 /\ b[1] = 0 /\ b[2] >= Base \div 2 THEN Tail(b) ELSE b

\* Blanks are skipped before the digits, and after them if nothing follows.
DecodeBase58(text) ==
  LET psz   == SubSeq(text, SelectInSeq(Append(text, 0), LAMBDA c : c # Blank), Len(text))
      end   == SelectInSeq(Append(psz, Blank), LAMBDA c : c \notin 0..Digits - 1)
      chars == SubSeq(psz, 1, end - 1)
  IN  IF \E k \in end..Len(psz) : psz[k] # Blank THEN Throw
      ELSE Bytes(Zeros(chars) \o TrimSign(getvch(Value(chars, Digits))))

-----------------------------------------------------------------------------
(* private_key.cpp.                                                        *)

\* The checksum of the last bytes, by the hash of the hash.
to_wif(key) ==
  LET data == <<MainNet>> \o key
  IN  EncodeBase58(data \o SubSeq(Hash(Hash(data, KeyBytes), KeyBytes), 1, CheckBytes))

\* As long as a key: what is too long is cut, what is missing is zero.
Fitted(b) == [k \in 1..KeyBytes |-> IF k \in DOMAIN b THEN b[k] ELSE 0]

\* The first byte is not looked at, and one hash is enough.
from_wif(text) ==
  LET wif == DecodeBase58(text).bytes
      cut == Len(wif) - CheckBytes
      one == Hash(SubSeq(wif, 1, cut), KeyBytes)
      check == SubSeq(wif, cut + 1, Len(wif))
  IN  IF ~DecodeBase58(text).ok \/ cut < 1 THEN Throw
      ELSE IF check \in {SubSeq(h, 1, CheckBytes) : h \in {one, Hash(one, KeyBytes)}}
           THEN Bytes(Fitted(SubSeq(wif, 2, cut)))
           ELSE Throw

-----------------------------------------------------------------------------
(* public_key.cpp and common.hpp.                                          *)

legacy_prefix == <<LetterU, LetterO, LetterS>>

ToLegacy(data) == legacy_prefix \o EncodeBase58(data \o Hash(data, CheckBytes))

\* Without the prefix there would have to be a '_', which uoskey never prints.
FromLegacy(text) ==
  LET bin == DecodeBase58(SubSeq(text, 4, Len(text)))
      data == SubSeq(bin.bytes, 1, PubBytes)
  IN  IF Len(text) > 3 /\ SubSeq(text, 1, 3) = legacy_prefix
         /\ bin.ok /\ Len(bin.bytes) = PubBytes + CheckBytes
         /\ SubSeq(bin.bytes, PubBytes + 1, Len(bin.bytes)) = Hash(data, CheckBytes)
      THEN Bytes(data) ELSE Throw

-----------------------------------------------------------------------------
NothingRead == [asPrivate |-> Throw, asPublic |-> Throw, of |-> "none", before |-> << >>]
Idle == secret = << >> /\ private = << >> /\ public = << >> /\ pasted = NothingRead

GenerateKey(key) ==
  /\ secret' = key
  /\ private' = to_wif(key) /\ public' = ToLegacy(PublicOf(key))
  /\ pasted' = NothingRead

\* Both readers are given what was printed, with blanks before and after it.
Paste(of, before, after) ==
  /\ secret # << >> /\ pasted = NothingRead
  /\ LET text == before \o (IF of = "private" THEN private ELSE public) \o after
     IN  pasted' = [asPrivate |-> from_wif(text), asPublic |-> FromLegacy(text),
                     of |-> of, before |-> before]
  /\ UNCHANGED <<secret, private, public>>

Blanks == {<< >>, <<Blank>>}
KeyNext ==
  \/ \E key \in Secrets : GenerateKey(key)
  \/ \E of \in {"private", "public"}, before \in Blanks, after \in Blanks : Paste(of, before, after)
-----------------------------------------------------------------------------
(***************************************************************************)
(* A key printed by uoskey is read back as that key, blanks around it or   *)
(* not, but for a blank before the prefix of a public key, which is        *)
(* refused; and a text of one kind is never taken for one of the other: a  *)
(* private key has no prefix, and the O of the prefix is not in the        *)
(* base-58 alphabet (uoskey main.cpp:29, private_key.cpp, public_key.cpp). *)
(***************************************************************************)
KeysReadBack ==
  /\ pasted.of = "private" => pasted.asPrivate = Bytes(secret) /\ ~pasted.asPublic.ok
  /\ pasted.of = "public" =>
       /\ pasted.asPublic = IF pasted.before = << >> THEN Bytes(PublicOf(secret)) ELSE Throw
       /\ ~pasted.asPrivate.ok
=============================================================================
