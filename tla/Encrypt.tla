------------------------------- MODULE Encrypt -------------------------------
(***************************************************************************)
(* Encrypt and Decrypt of safe/encrypt.go.  A string is a text under zero  *)
(* or more seals, the outermost one last; each seal records the algorithm  *)
(* of the ciphertext's header and the key material it was made with.       *)
(* The block ciphers and SHA-256 are external: a cipher accepts keys of    *)
(* its own lengths, and different key material never opens the same seal.  *)
(*                                                                         *)
(* The options are passed by pointer and fixAlgo writes the algorithm it   *)
(* chooses back to them, so a caller that reuses them hands the choice on  *)
(* to the next call: opts is state.                                        *)
(***************************************************************************)
EXTENDS Integers, Sequences

CONSTANTS
  Keys,      \* the keys callers use
  KeyLen,    \* the length of each key in bytes
  NoKey,     \* the empty key
  Texts,     \* the strings callers encrypt
  Blank,     \* the empty string
  Marked,    \* a text of the caller's that begins with "{CRYPT}"
  Noise      \* what a wrong key makes of a ciphertext

AllKeys == Keys \cup {NoKey}

ASSUME KeyAssumption ==
  /\ NoKey \notin Keys
  /\ KeyLen \in [AllKeys -> Nat]
  /\ KeyLen[NoKey] = 0
ASSUME TextAssumption == Noise \notin Texts /\ Blank # Marked

VARIABLES
  opts,     \* the EncryptOptions a caller holds on to
  sealed    \* the last ciphertext made, with its text and key; or empty

encVars == <<opts, sealed>>

Algorithms == {"3DES", "DES", "AES", "TEA"}

Plain(t) == [text |-> t, seals |-> <<>>]
HasPrefix(v) == v.seals # <<>> \/ v.text = Marked

Ok(v) == [ok |-> TRUE, val |-> v]
Failed == [ok |-> FALSE, val |-> Plain(Blank)]

\* The lengths that are used as they are; any other key is hashed to 32 bytes.
ProperLengths == {8, 16, 24, 32}
Raw(k) == [key |-> k, len |-> KeyLen[k], hashed |-> FALSE]
Fixed(k) ==
  IF KeyLen[k] \in ProperLengths THEN Raw(k)
  ELSE [key |-> k, len |-> 32, hashed |-> TRUE]

\* The algorithm for a key, starting from the one in the options.
fixAlgo(k, algo) ==
  LET n == Fixed(k).len
  IN  CASE n = 8  -> "DES"
        [] n = 16 -> IF algo \in {"AES", "TEA"} THEN algo ELSE "AES"
        [] n = 24 -> IF algo \in {"AES", "3DES"} THEN algo ELSE "3DES"
        [] n = 32 -> "AES"

\* NewCipher: the key lengths of each algorithm.
NewCipher(algo, n) ==
  \/ algo = "DES" /\ n = 8
  \/ algo = "3DES" /\ n = 24
  \/ algo = "AES" /\ n \in {16, 24, 32}
  \/ algo = "TEA" /\ n = 16

NewEncryptOptions == [algo |-> "3DES", fix |-> FALSE]
FixOptions == [NewEncryptOptions EXCEPT !.fix = TRUE]

\* The options as Encrypt leaves them.
OptionsAfter(k, o) ==
  IF o.fix THEN [o EXCEPT !.algo = fixAlgo(k, @)] ELSE o

\* Encrypt(v, k, o): fails when the key does not fit the algorithm.
EncryptTo(v, k, o) ==
  LET mat  == IF o.fix THEN Fixed(k) ELSE Raw(k)
      algo == OptionsAfter(k, o).algo
  IN  IF NewCipher(algo, mat.len)
      THEN Ok([v EXCEPT !.seals = Append(@, [algo |-> algo, mat |-> mat])])
      ELSE Failed

\* Mutant: Decrypt does not hash a key of another length.
DecryptRaw(v, k) ==
  LET seal == v.seals[Len(v.seals)]
  IN  IF v.seals = <<>> THEN Failed
      ELSE IF ~NewCipher(seal.algo, Raw(k).len) THEN Failed
      ELSE IF Raw(k) # seal.mat THEN Ok(Plain(Noise))
      ELSE Ok([v EXCEPT !.seals = SubSeq(@, 1, Len(@) - 1)])

\* Decrypt(v, k): the algorithm comes from the header.  Nothing in the
\* ciphertext tells a wrong key that fits from the right one.
Decrypt(v, k) ==
  LET seal == v.seals[Len(v.seals)]
  IN  IF v.seals = <<>> THEN Failed
      ELSE IF ~NewCipher(seal.algo, Fixed(k).len) THEN Failed
      ELSE IF Fixed(k) # seal.mat THEN Ok(Plain(Noise))
      ELSE Ok([v EXCEPT !.seals = SubSeq(@, 1, Len(@) - 1)])

-----------------------------------------------------------------------------
EncInit == opts = NewEncryptOptions /\ sealed = {}

\* NewEncryptOptions with WithAlgorithm, WithFixAlgo or WithoutFixAlgo.
SetOptions(algo, fix) ==
  /\ opts' = [algo |-> algo, fix |-> fix]
  /\ UNCHANGED sealed

\* A caller encrypts with the options it holds.
EncryptCall(t, k) ==
  LET res == EncryptTo(Plain(t), k, opts)
  IN  /\ opts' = OptionsAfter(k, opts)
      /\ sealed' = IF res.ok THEN {[text |-> t, key |-> k, box |-> res.val]} ELSE {}

EncNext ==
  \/ \E a \in Algorithms, fix \in BOOLEAN : SetOptions(a, fix)
  \/ \E t \in Texts, k \in AllKeys : EncryptCall(t, k)

EncSpec == EncInit /\ [][EncNext]_encVars

-----------------------------------------------------------------------------
(* Properties.                                                             *)

\* "WithFixAlgo enables adjusting the algorithm to match the key length": with
\* it Encrypt accepts every key, whatever keys the same options served before.
FixAlgoFits ==
  opts.fix => \A t \in Texts, k \in AllKeys : EncryptTo(Plain(t), k, opts).ok

\* "Decrypt decrypts a string produced by Encrypt and returns the original
\* bytes": with options or without, Decrypt finds algorithm and key material
\* that Encrypt used, though Decrypt alone decides which keys to hash.
StaysOpenable ==
  \A s \in sealed : Decrypt(s.box, s.key) = Ok(Plain(s.text))

\* Every key is taken if the options say so, and opens what it has sealed.
RoundTrip == FixAlgoFits /\ StaysOpenable
=============================================================================
