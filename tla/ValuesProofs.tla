----------------------------- MODULE ValuesProofs -----------------------------
(***************************************************************************)
(* Proofs about Encrypt, SafeString and Capacity: values that are written  *)
(* out and read back, for any keys, texts and numbers.                     *)
(***************************************************************************)
EXTENDS SafeString, Capacity, SelectionProofs, SequenceTheorems, TLAPS

-----------------------------------------------------------------------------
(* Encrypt and SafeString, for any keys and any texts.                     *)

Options == [algo : Algorithms, fix : BOOLEAN]

\* fixAlgo returns an algorithm that takes the key as Decrypt will see it.
LEMMA FixAlgoAccepts ==
  ASSUME NEW k \in AllKeys, NEW algo \in Algorithms
  PROVE  /\ fixAlgo(k, algo) \in Algorithms
         /\ NewCipher(fixAlgo(k, algo), Fixed(k).len)
<1>1. Fixed(k).len \in {8, 16, 24, 32}
  BY DEF Fixed, Raw, ProperLengths
<1>2. CASE Fixed(k).len = 8
  BY <1>2 DEF fixAlgo, NewCipher, Algorithms
<1>3. CASE Fixed(k).len = 16
  BY <1>3 DEF fixAlgo, NewCipher, Algorithms
<1>4. CASE Fixed(k).len = 24
  BY <1>4 DEF fixAlgo, NewCipher, Algorithms
<1>5. CASE Fixed(k).len = 32
  BY <1>5 DEF fixAlgo, NewCipher, Algorithms
<1>6. QED
  BY <1>1, <1>2, <1>3, <1>4, <1>5

\* An algorithm that takes a key without fixAlgo takes it as Decrypt sees it.
LEMMA RawAccepted ==
  ASSUME NEW k \in AllKeys, NEW algo \in Algorithms, NewCipher(algo, Raw(k).len)
  PROVE  Fixed(k) = Raw(k)
  BY DEF NewCipher, Algorithms, Fixed, Raw, ProperLengths

\* What Encrypt returns for a plain text: one seal, made with the key material
\* that Decrypt derives from the same key.
LEMMA EncryptShape ==
  ASSUME NEW k \in AllKeys, NEW o \in Options, NEW t,
         EncryptTo(Plain(t), k, o).ok
  PROVE  \E algo \in Algorithms :
           /\ NewCipher(algo, Fixed(k).len)
           /\ EncryptTo(Plain(t), k, o)
                = Ok([text |-> t, seals |-> <<[algo |-> algo, mat |-> Fixed(k)]>>])
<1> DEFINE mat  == IF o.fix THEN Fixed(k) ELSE Raw(k)
           algo == OptionsAfter(k, o).algo
<1>0. o.algo \in Algorithms /\ o.fix \in BOOLEAN
  BY DEF Options
<1>1. algo \in Algorithms
  BY <1>0, FixAlgoAccepts DEF OptionsAfter, Options
<1>2. NewCipher(algo, mat.len)
  BY DEF EncryptTo, Failed, Ok
<1>3. mat = Fixed(k)
  <2>1. CASE o.fix
    BY <2>1
  <2>2. CASE ~o.fix
    BY <2>2, <1>1, <1>2, RawAccepted
  <2>3. QED
    BY <2>1, <2>2, <1>0
<1>4. EncryptTo(Plain(t), k, o)
        = Ok([Plain(t) EXCEPT !.seals = Append(@, [algo |-> algo, mat |-> mat])])
  BY <1>2 DEF EncryptTo
<1>5. [Plain(t) EXCEPT !.seals = Append(@, [algo |-> algo, mat |-> mat])]
        = [text |-> t, seals |-> <<[algo |-> algo, mat |-> mat]>>]
  BY DEF Plain
<1>6. QED
  BY <1>1, <1>2, <1>3, <1>4, <1>5

\* Decrypt opens such a seal with the same key.
LEMMA DecryptShape ==
  ASSUME NEW k \in AllKeys, NEW algo \in Algorithms, NEW t,
         NewCipher(algo, Fixed(k).len)
  PROVE  Decrypt([text |-> t, seals |-> <<[algo |-> algo, mat |-> Fixed(k)]>>], k)
           = Ok(Plain(t))
<1> DEFINE seal == [algo |-> algo, mat |-> Fixed(k)]
           v == [text |-> t, seals |-> <<seal>>]
<1>1. v.seals # <<>> /\ Len(v.seals) = 1 /\ v.seals[1] = seal
  OBVIOUS
<1>2. SubSeq(v.seals, 1, 0) = <<>>
  OBVIOUS
<1>3. [v EXCEPT !.seals = SubSeq(@, 1, Len(@) - 1)] = Plain(t)
  BY <1>1, <1>2 DEF Plain
<1>4. QED
  BY <1>1, <1>3 DEF Decrypt

\* With fixAlgo, Encrypt never fails.
LEMMA FixFits ==
  ASSUME NEW k \in AllKeys, NEW o \in Options, NEW v, o.fix
  PROVE  EncryptTo(v, k, o).ok
  BY FixAlgoAccepts DEF EncryptTo, OptionsAfter, Options, Ok

-----------------------------------------------------------------------------
(* Encrypt.                                                                *)

\* The options a caller reuses stay options, whatever fixAlgo wrote to them.
EncInv == opts \in Options /\ StaysOpenable

\* EncryptCall and SetOptions keep the invariant.
LEMMA EncNextInv == EncInv /\ [EncNext]_encVars => EncInv'
<1> SUFFICES ASSUME EncInv, [EncNext]_encVars PROVE EncInv'
  OBVIOUS
<1>1. CASE UNCHANGED encVars
  BY <1>1 DEF EncInv, StaysOpenable, encVars
<1>2. ASSUME NEW a \in Algorithms, NEW fix \in BOOLEAN, SetOptions(a, fix)
      PROVE  EncInv'
  BY <1>2 DEF EncInv, StaysOpenable, SetOptions, Options
<1>3. ASSUME NEW t \in Texts, NEW k \in AllKeys, EncryptCall(t, k)
      PROVE  EncInv'
  <2> DEFINE res == EncryptTo(Plain(t), k, opts)
  <2>1. opts' \in Options
    BY <1>3, FixAlgoAccepts DEF EncryptCall, OptionsAfter, Options, EncInv
  <2>2. CASE ~res.ok
    BY <1>3, <2>1, <2>2 DEF EncryptCall, EncInv, StaysOpenable
  <2>3. CASE res.ok
    <3>1. PICK algo \in Algorithms :
            /\ NewCipher(algo, Fixed(k).len)
            /\ res = Ok([text |-> t, seals |-> <<[algo |-> algo, mat |-> Fixed(k)]>>])
      BY <2>3, EncryptShape DEF EncInv
    <3>2. Decrypt(res.val, k) = Ok(Plain(t))
      BY <3>1, DecryptShape DEF Ok
    <3>3. sealed' = {[text |-> t, key |-> k, box |-> res.val]}
      BY <1>3, <2>3 DEF EncryptCall
    <3>4. QED
      BY <2>1, <3>2, <3>3 DEF EncInv, StaysOpenable
  <2>4. QED
    BY <2>2, <2>3
<1>4. QED
  BY <1>1, <1>2, <1>3 DEF EncNext

\* The options stay options and the last ciphertext can be decrypted.
THEOREM EncInvariance == EncSpec => []EncInv
<1>1. EncInit => EncInv
  BY DEF EncInit, EncInv, StaysOpenable, NewEncryptOptions, Options, Algorithms
<1>2. QED
  BY <1>1, EncNextInv, PTL DEF EncSpec

\* What Encrypt returned, Decrypt gives back, for every key length and every
\* combination of options, also when the options are used again and again; and
\* with fixAlgo no key is ever refused, whatever keys came before it.
THEOREM EncryptDecrypt == EncSpec => []RoundTrip
<1>1. EncInv => RoundTrip
  BY FixFits DEF EncInv, RoundTrip, FixAlgoFits
<1>2. QED
  BY <1>1, EncInvariance, PTL

-----------------------------------------------------------------------------
(* SafeString.                                                             *)

\* A value Seal made from a plain text is a ciphertext, and its key opens it.
LEMMA SealOpens ==
  ASSUME NEW k \in AllKeys, NEW t
  PROVE  /\ HasPrefix(Seal(Plain(t), k))
         /\ Decrypt(Seal(Plain(t), k), k) = Ok(Plain(t))
<1>1. FixOptions \in Options /\ FixOptions.fix
  BY DEF FixOptions, NewEncryptOptions, Options, Algorithms
<1>2. EncryptTo(Plain(t), k, FixOptions).ok
  BY <1>1, FixFits
<1>3. PICK algo \in Algorithms :
        /\ NewCipher(algo, Fixed(k).len)
        /\ EncryptTo(Plain(t), k, FixOptions)
             = Ok([text |-> t, seals |-> <<[algo |-> algo, mat |-> Fixed(k)]>>])
  BY <1>1, <1>2, EncryptShape
<1>4. Seal(Plain(t), k) = [text |-> t, seals |-> <<[algo |-> algo, mat |-> Fixed(k)]>>]
  BY <1>3 DEF Seal, Ok
<1>5. HasPrefix(Seal(Plain(t), k))
  BY <1>4 DEF HasPrefix
<1>6. QED
  BY <1>3, <1>4, <1>5, DecryptShape

\* Value v stands for text w under secret k: in clear, or under one seal.
Holds(v, w, k) ==
  \/ v = Plain(w) /\ w # Marked
  \/ k # NoKey /\ v = Seal(Plain(w), k)

\* A plain text is mistaken for a ciphertext only if it begins like one.
LEMMA PlainPrefix == \A t : HasPrefix(Plain(t)) <=> t = Marked
  BY DEF HasPrefix, Plain

\* UnsafeString returns the text that the value stands for.
LEMMA ReadsBack ==
  ASSUME NEW s, NEW w, getSecret(s) \in AllKeys, Holds(s.value, w, getSecret(s))
  PROVE  UnsafeString(s) = Ok(Plain(w))
<1>1. CASE s.value = Plain(w) /\ w # Marked
  BY <1>1, PlainPrefix DEF UnsafeString
<1>2. CASE getSecret(s) # NoKey /\ s.value = Seal(Plain(w), getSecret(s))
  BY <1>2, SealOpens DEF UnsafeString
<1>3. QED
  BY <1>1, <1>2 DEF Holds

StrTypeInv ==
  /\ env \in AllKeys
  /\ str = [value |-> str.value, secret |-> str.secret]
  /\ str.secret \in AllKeys
  /\ saved.key \in AllKeys
  /\ lost \in BOOLEAN /\ saved.lost \in BOOLEAN

StrInv ==
  /\ StrTypeInv
  /\ ~lost => Holds(str.value, want, getSecret(str))
  /\ ~saved.lost => Holds(saved.val, saved.want, saved.key)

\* An incoming text is held under the secret it was sealed with.
LEMMA IncomingHolds ==
  ASSUME NEW t, NEW k \in AllKeys, t # Marked
  PROVE  Holds(Incoming(Plain(t), k), t, k)
  BY PlainPrefix DEF Incoming, Holds

\* The steps that store a text.
LEMMA StoreInv ==
  ASSUME StrInv, NEW t, Stores(t),
         str' = [value |-> str'.value, secret |-> str'.secret],
         str'.secret \in AllKeys,
         t # Marked => Holds(str'.value, t, IF str'.secret # NoKey THEN str'.secret ELSE env)
  PROVE  StrInv'
  BY DEF StrInv, StrTypeInv, Stores, getSecret

\* SetValue, the decoders and the constructors are such steps.
LEMMA StoringSteps ==
  ASSUME StrInv, NEW t, NEW k \in AllKeys,
         \/ SetValue(t)
         \/ UnmarshalText(t)
         \/ DecodeHook(t)
         \/ NewEncryptedString(t, k)
  PROVE  StrInv'
<1>0. getSecret(str) \in AllKeys /\ env \in AllKeys
  BY DEF StrInv, StrTypeInv, getSecret
<1>1. CASE SetValue(t)
  <2>1. CASE ~HasPrefix(Plain(t)) /\ getSecret(str) # NoKey /\ ~Empty(Plain(t))
    <3>1. str' = [value |-> Seal(Plain(t), getSecret(str)), secret |-> getSecret(str)]
      BY <1>1, <2>1 DEF SetValue
    <3>2. QED
      BY <1>0, <1>1, <2>1, <3>1, StoreInv DEF SetValue, Holds
  <2>2. CASE ~(~HasPrefix(Plain(t)) /\ getSecret(str) # NoKey /\ ~Empty(Plain(t)))
    <3>1. str' = [value |-> Plain(t), secret |-> str.secret]
      BY <1>1, <2>2 DEF SetValue, StrInv, StrTypeInv
    <3>2. QED
      BY <1>0, <1>1, <3>1, StoreInv DEF SetValue, Holds, StrInv, StrTypeInv
  <2>3. QED
    BY <2>1, <2>2
<1>2. CASE UnmarshalText(t)
  <2>1. CASE t = Marked
    BY <1>0, <1>2, <2>1, StoreInv DEF UnmarshalText, Unmarshaled, StrInv, StrTypeInv
  <2>2. CASE t # Marked
    <3>1. str' = [value |-> Incoming(Plain(t), getSecret(str)), secret |-> getSecret(str)]
      BY <1>2, <2>2, PlainPrefix DEF UnmarshalText, Unmarshaled
    <3>2. QED
      BY <1>0, <1>2, <2>2, <3>1, StoreInv, IncomingHolds DEF UnmarshalText, getSecret
  <2>3. QED
    BY <2>1, <2>2
<1>3. CASE DecodeHook(t)
  <2>1. str' = [value |-> Incoming(Plain(t), env), secret |-> env]
    BY <1>3 DEF DecodeHook
  <2>2. QED
    BY <1>0, <1>3, <2>1, StoreInv, IncomingHolds DEF DecodeHook
<1>4. CASE NewEncryptedString(t, k)
  <2>1. str' = [value |-> Incoming(Plain(t), k), secret |-> k]
    BY <1>4 DEF NewEncryptedString
  <2>2. t # Marked => Holds(str'.value, t, IF str'.secret # NoKey THEN str'.secret ELSE env)
    <3>1. CASE k # NoKey
      BY <2>1, <3>1, IncomingHolds
    <3>2. CASE k = NoKey
      BY <2>1, <3>2 DEF Incoming, Holds
    <3>3. QED
      BY <3>1, <3>2
  <2>3. QED
    BY <1>4, <2>1, <2>2, StoreInv DEF NewEncryptedString
<1>5. QED
  BY <1>1, <1>2, <1>3, <1>4

\* UpdateSecret and SetSecret: the key follows the ciphertext, or the text is
\* counted as lost.
LEMMA KeySteps ==
  ASSUME StrInv, NEW k \in AllKeys, UpdateSecret(k) \/ SetSecret(k)
  PROVE  StrInv'
<1>0. /\ getSecret(str) \in AllKeys /\ env \in AllKeys /\ env' = env
      /\ saved' = saved /\ want' = want
      /\ lost \in BOOLEAN
  BY DEF StrInv, StrTypeInv, getSecret, UpdateSecret, SetSecret
<1>1. ASSUME NEW v, str' = [value |-> v, secret |-> k], lost' \in BOOLEAN,
             ~lost' => ~lost /\ Holds(v, want, IF k # NoKey THEN k ELSE env)
      PROVE  StrInv'
  BY <1>0, <1>1 DEF StrInv, StrTypeInv, getSecret
<1>2. ASSUME NEW v, v = str.value \/ v = Plain(want), ~lost, ~HasPrefix(v)
      PROVE  Holds(v, want, IF k # NoKey THEN k ELSE env)
  BY <1>0, <1>2, SealOpens, PlainPrefix DEF StrInv, Holds
<1>3. CASE SetSecret(k)
  <2>1. str' = [value |-> str.value, secret |-> k]
    BY <1>3 DEF SetSecret, StrInv, StrTypeInv
  <2>2. getSecret(str') = IF k # NoKey THEN k ELSE env
    BY <2>1 DEF getSecret
  <2>3. lost' = (lost \/ KeyChanges(str, str'))
    BY <1>3 DEF SetSecret
  <2>4. lost' \in BOOLEAN /\ (~lost' => ~lost /\ ~KeyChanges(str, str'))
    BY <2>3, <1>0 DEF KeyChanges
  <2>5. ~lost' => Holds(str.value, want, IF k # NoKey THEN k ELSE env)
    <3>1. CASE HasPrefix(str.value)
      BY <2>1, <2>2, <2>4, <3>1 DEF KeyChanges, StrInv
    <3>2. CASE ~HasPrefix(str.value)
      BY <2>4, <3>2, <1>2
    <3>3. QED
      BY <3>1, <3>2
  <2>6. QED
    BY <1>1, <2>1, <2>4, <2>5
<1>4. CASE UpdateSecret(k)
  <2>1. str' = Updated(str, k)
    BY <1>4 DEF UpdateSecret
  <2>2. lost' = (lost \/ (k = NoKey /\ KeyChanges(str, str')))
    BY <1>4 DEF UpdateSecret
  <2>3. lost' \in BOOLEAN /\ (~lost' => ~lost)
    BY <2>2, <1>0
  <2>4. CASE ~UnsafeString(str).ok
    <3>1. lost
      BY <1>0, <2>4, ReadsBack DEF StrInv, Ok
    <3>2. str' = str /\ lost'
      BY <2>1, <2>2, <2>4, <3>1 DEF Updated
    <3>3. QED
      BY <1>0, <2>3, <3>2 DEF StrInv, StrTypeInv
  <2>5. CASE UnsafeString(str).ok /\ k # NoKey
    <3>1. str' = [value |-> Seal(UnsafeString(str).val, k), secret |-> k]
      BY <2>1, <2>5 DEF Updated
    <3>2. ~lost => UnsafeString(str).val = Plain(want)
      BY <1>0, ReadsBack DEF StrInv, Ok
    <3>3. QED
      BY <1>1, <2>3, <2>5, <3>1, <3>2 DEF Holds
  <2>6. CASE UnsafeString(str).ok /\ k = NoKey
    <3>1. str' = [value |-> str.value, secret |-> k]
      BY <2>1, <2>6 DEF Updated
    <3>2. getSecret(str') = env
      BY <2>6, <3>1 DEF getSecret
    <3>3. ~lost' => ~KeyChanges(str, str')
      BY <2>2, <2>6
    <3>4. ~lost' => Holds(str.value, want, env)
      <4>1. CASE HasPrefix(str.value)
        BY <2>3, <3>1, <3>2, <3>3, <4>1 DEF KeyChanges, StrInv
      <4>2. CASE ~HasPrefix(str.value)
        BY <2>3, <2>6, <4>2, <1>2
      <4>3. QED
        BY <4>1, <4>2
    <3>5. QED
      BY <1>1, <2>3, <2>6, <3>1, <3>4
  <2>7. QED
    BY <2>4, <2>5, <2>6
<1>5. QED
  BY <1>3, <1>4

\* String on a String that is not lost encrypts under the key it will be read
\* with, unless the secret is the environment's.
LEMMA StringedHolds ==
  ASSUME StrInv, ~lost, ~EnvOnly(str)
  PROVE  Holds(Stringed(str).value, want, getSecret(str))
<1>1. CASE Stringed(str) = str
  BY <1>1 DEF StrInv
<1>2. CASE Stringed(str) # str
  <2>1. str.secret # NoKey /\ getSecret(str) = str.secret
    BY <1>2 DEF EnvOnly, getSecret
  <2>2. ~HasPrefix(str.value) /\ Stringed(str).value = Seal(str.value, str.secret)
    BY <1>2 DEF Stringed, StrInv, StrTypeInv
  <2>3. str.value = Plain(want)
    BY <2>1, <2>2, SealOpens DEF StrInv, StrTypeInv, Holds
  <2>4. QED
    BY <2>1, <2>2, <2>3 DEF Holds
<1>3. QED
  BY <1>1, <1>2

\* Writing a String, and reading it back under the same secret.
LEMMA CopySteps ==
  ASSUME StrInv, String \/ MarshalJSON \/ UnmarshalJSON \/ Value \/ Scan
  PROVE  StrInv'
<1>0. /\ getSecret(str) \in AllKeys /\ env \in AllKeys /\ env' = env
      /\ str.secret \in AllKeys /\ saved.key \in AllKeys
      /\ lost \in BOOLEAN /\ saved.lost \in BOOLEAN
  BY DEF StrInv, StrTypeInv, getSecret, String, MarshalJSON, UnmarshalJSON, Value,
         Scan, Reads
<1>1. CASE String
  <2>1. str' = Stringed(str) /\ saved' = saved /\ want' = want
    BY <1>1 DEF String
  <2>2. lost' \in BOOLEAN /\ (~lost' => ~lost /\ ~EnvOnly(str))
    BY <1>0, <1>1 DEF String, EnvOnly
  <2>3. str' = [value |-> Stringed(str).value, secret |-> str.secret]
    BY <2>1 DEF Stringed, StrInv, StrTypeInv
  <2>4. getSecret(str)' = getSecret(str)
    BY <1>0, <2>3 DEF getSecret
  <2>5. ~lost' => Holds(str'.value, want, getSecret(str))
    BY <2>1, <2>2, StringedHolds
  <2>6. QED
    BY <1>0, <2>1, <2>2, <2>3, <2>4, <2>5 DEF StrInv, StrTypeInv
<1>2. CASE MarshalJSON
  <2>1. /\ str' = str /\ want' = want /\ lost' = lost
        /\ saved'.val = Stringed(str).value /\ saved'.want = want
        /\ saved'.key = getSecret(str) /\ saved'.lost = (lost \/ EnvOnly(str))
    BY <1>2 DEF MarshalJSON, Copy
  <2>2. saved'.lost \in BOOLEAN /\ (~saved'.lost => ~lost /\ ~EnvOnly(str))
    BY <1>0, <2>1 DEF EnvOnly
  <2>3. ~saved'.lost => Holds(saved'.val, want, getSecret(str))
    BY <2>1, <2>2, StringedHolds
  <2>4. QED
    BY <1>0, <2>1, <2>2, <2>3 DEF StrInv, StrTypeInv, getSecret
<1>3. CASE Value
  BY <1>0, <1>3 DEF Value, Copy, StrInv, StrTypeInv, getSecret
<1>4. ASSUME Reads
      PROVE  /\ lost' \in BOOLEAN /\ saved' = saved /\ want' = saved.want
             /\ ~lost' => Holds(saved.val, want', saved.key)
             /\ ~lost' /\ HasPrefix(saved.val) => saved.key = getSecret(str)
  BY <1>0, <1>4 DEF Reads, StrInv
<1>5. ASSUME Reads, ~lost', ~HasPrefix(saved.val)
      PROVE  saved.val = Plain(want') /\ want' # Marked
  <2>1. Holds(saved.val, want', saved.key)
    BY <1>4, <1>5, Zenon
  <2>2. QED
    BY <1>0, <1>5, <2>1, SealOpens DEF Holds
<1>6. CASE Scan
  <2>1. str' = [value |-> saved.val, secret |-> str.secret] /\ Reads
    BY <1>6 DEF Scan, StrInv, StrTypeInv
  <2>2. getSecret(str)' = getSecret(str)
    BY <1>0, <2>1 DEF getSecret
  <2>3. ~lost' => Holds(saved.val, want', getSecret(str))
    <3>1. CASE HasPrefix(saved.val)
      <4>1. ASSUME ~lost'
            PROVE  Holds(saved.val, want', saved.key) /\ saved.key = getSecret(str)
        BY <2>1, <1>4, <3>1, <4>1, Zenon
      <4>2. QED
        BY <4>1
    <3>2. CASE ~HasPrefix(saved.val)
      BY <2>1, <1>5, <3>2 DEF Holds
    <3>3. QED
      BY <3>1, <3>2
  <2>4. QED
    BY <1>0, <1>4, <2>1, <2>2, <2>3 DEF StrInv, StrTypeInv
<1>7. CASE UnmarshalJSON
  <2>1. str' = Unmarshaled(saved.val) /\ Reads
    BY <1>7 DEF UnmarshalJSON
  <2>2. CASE HasPrefix(saved.val)
    <3>1. str' = [value |-> saved.val, secret |-> str.secret]
      BY <2>1, <2>2 DEF Unmarshaled, Incoming
    <3>2. getSecret(str)' = getSecret(str)
      BY <1>0, <3>1 DEF getSecret
    <3>3. ASSUME ~lost'
          PROVE  Holds(saved.val, want', saved.key) /\ saved.key = getSecret(str)
      BY <2>1, <1>4, <2>2, <3>3, Zenon
    <3>4. lost' \in BOOLEAN /\ saved' = saved
      BY <1>4, <2>1, Zenon
    <3>5. QED
      BY <1>0, <3>1, <3>2, <3>3, <3>4 DEF StrInv, StrTypeInv
  <2>3. CASE ~HasPrefix(saved.val)
    <3>1. str' = [value |-> Incoming(saved.val, getSecret(str)), secret |-> getSecret(str)]
      BY <2>1, <2>3 DEF Unmarshaled
    <3>2. getSecret(str)' = getSecret(str)
      BY <1>0, <3>1 DEF getSecret
    <3>3. ~lost' => Holds(str'.value, want', getSecret(str))
      BY <1>0, <1>5, <2>1, <2>3, <3>1, IncomingHolds
    <3>4. QED
      BY <1>0, <1>4, <2>1, <3>1, <3>2, <3>3 DEF StrInv, StrTypeInv
  <2>4. QED
    BY <2>2, <2>3
<1>8. QED
  BY <1>1, <1>2, <1>3, <1>6, <1>7

\* StrInv holds in every reachable state.
THEOREM StrInvariance == StrSpec => []StrInv
<1>1. StrInit => StrInv
  <2> SUFFICES ASSUME StrInit PROVE StrInv
    OBVIOUS
  <2>1. NoKey \in AllKeys /\ env \in AllKeys
    BY EnvAssumption DEF StrInit, AllKeys
  <2>2. QED
    BY <2>1, TextAssumption DEF StrInit, StrInv, StrTypeInv, Copy, Holds, getSecret
<1>2. StrInv /\ [StrNext]_strVars => StrInv'
  <2> SUFFICES ASSUME StrInv, [StrNext]_strVars PROVE StrInv'
    OBVIOUS
  <2>0. NoKey \in AllKeys
    BY DEF AllKeys
  <2>1. CASE UNCHANGED strVars
    BY <2>1 DEF strVars, StrInv, StrTypeInv, getSecret
  <2>2. CASE Reset
    BY <2>0, <2>2, StoreInv DEF Reset, Holds
  <2>3. ASSUME NEW t \in Texts, SetValue(t) \/ UnmarshalText(t) \/ DecodeHook(t)
        PROVE  StrInv'
    BY <2>0, <2>3, StoringSteps
  <2>4. ASSUME NEW t \in Texts, NEW k \in AllKeys, NewEncryptedString(t, k)
        PROVE  StrInv'
    BY <2>4, StoringSteps
  <2>5. ASSUME NEW k \in AllKeys, UpdateSecret(k) \/ SetSecret(k)
        PROVE  StrInv'
    BY <2>5, KeySteps
  <2>6. CASE String \/ MarshalJSON \/ UnmarshalJSON \/ Value \/ Scan
    BY <2>6, CopySteps
  <2>7. QED
    BY <2>1, <2>2, <2>3, <2>4, <2>5, <2>6 DEF StrNext
<1>3. QED
  BY <1>1, <1>2, PTL DEF StrSpec

\* A String, its column and its JSON document give back the text that was
\* stored, for any keys and texts and however often the secret changes.
THEOREM TextStaysReadable == StrSpec => []TextReadable
<1>1. StrInv => TextReadable
  <2> SUFFICES ASSUME StrInv PROVE TextReadable
    OBVIOUS
  <2>1. getSecret(str) \in AllKeys
    BY DEF StrInv, StrTypeInv, getSecret
  <2>2. ~lost => UnsafeString(str) = Ok(Plain(want))
    BY <2>1, ReadsBack DEF StrInv
  <2> DEFINE c == [value |-> saved.val, secret |-> saved.key]
  <2>3. ASSUME ~saved.lost PROVE UnsafeString(c) = Ok(Plain(saved.want))
    <3>1. Holds(c.value, saved.want, saved.key) /\ saved.key \in AllKeys
      BY <2>3 DEF StrInv, StrTypeInv
    <3>2. CASE saved.key # NoKey
      <4>1. getSecret(c) = saved.key
        BY <3>2 DEF getSecret
      <4>2. QED
        BY <3>1, <4>1, ReadsBack
    <3>3. CASE saved.key = NoKey
      <4>1. c.value = Plain(saved.want) /\ saved.want # Marked
        BY <3>1, <3>3 DEF Holds
      <4>2. QED
        BY <4>1, PlainPrefix DEF UnsafeString
    <3>4. QED
      BY <3>2, <3>3
  <2>4. QED
    BY <2>2, <2>3 DEF TextReadable
<1>2. QED
  BY <1>1, StrInvariance, PTL

-----------------------------------------------------------------------------
(* Capacity, for any base, word and number of units.                       *)

\* Multiplication keeps the order.
LEMMA TimesOrder ==
  ASSUME NEW a \in Nat, NEW b \in Nat, NEW u \in Nat, a <= b
  PROVE  a * u <= b * u /\ a * u \in Nat /\ b * u \in Nat
<1>1. PICK d \in Nat : b = a + d
  <2>1. b - a \in Nat /\ b = a + (b - a)
    OBVIOUS
  <2>2. QED
    BY <2>1
<1>2. b * u = a * u + d * u /\ d * u \in Nat /\ a * u \in Nat
  BY <1>1
<1>3. QED
  BY <1>2

\* What division by a positive number gives.
LEMMA DivOf ==
  ASSUME NEW a \in Nat, NEW b \in Nat \ {0}
  PROVE  /\ a \div b \in Nat /\ a % b \in 0 .. b - 1
         /\ a = (a \div b) * b + (a % b)
  OBVIOUS

\* Quotient and rest are the only numbers with this property.
LEMMA DivIs ==
  ASSUME NEW a \in Nat, NEW b \in Nat \ {0}, NEW q \in Nat, NEW r \in 0 .. b - 1,
         a = q * b + r
  PROVE  a \div b = q /\ a % b = r
<1> DEFINE p == a \div b
           s == a % b
<1>1. p \in Nat /\ s \in 0 .. b - 1 /\ a = p * b + s
  BY DivOf
<1> HIDE DEF p, s
<1>2. ~(p < q)
  <2> SUFFICES ASSUME p < q PROVE FALSE
    OBVIOUS
  <2>1. (p + 1) * b <= q * b /\ (p + 1) * b = p * b + b /\ p * b \in Nat /\ q * b \in Nat
    BY <1>1, TimesOrder
  <2>2. QED
    BY <1>1, <2>1
<1>3. ~(q < p)
  <2> SUFFICES ASSUME q < p PROVE FALSE
    OBVIOUS
  <2>1. (q + 1) * b <= p * b /\ (q + 1) * b = q * b + b /\ p * b \in Nat /\ q * b \in Nat
    BY <1>1, TimesOrder
  <2>2. QED
    BY <1>1, <2>1
<1>4. p = q
  BY <1>1, <1>2, <1>3
<1>5. QED
  BY <1>1, <1>4 DEF p, s

\* A product overflows exactly if the factor is above the quotient.
LEMMA QuotientBound ==
  ASSUME NEW m \in Nat, NEW u \in Nat \ {0}, NEW v \in Nat
  PROVE  v > m \div u <=> v * u > m
<1> DEFINE q == m \div u
           r == m % u
<1>1. q \in Nat /\ r \in 0 .. u - 1 /\ m = q * u + r
  BY DivOf
<1> HIDE DEF q, r
<1>2. CASE v > q
  <2>1. (q + 1) * u <= v * u /\ (q + 1) * u = q * u + u /\ q * u \in Nat /\ v * u \in Nat
    BY <1>1, <1>2, TimesOrder
  <2>2. QED
    BY <1>1, <1>2, <2>1 DEF q
<1>3. CASE v <= q
  <2>1. v * u <= q * u /\ q * u \in Nat /\ v * u \in Nat
    BY <1>1, <1>3, TimesOrder
  <2>2. QED
    BY <1>1, <1>3, <2>1 DEF q
<1>4. QED
  BY <1>1, <1>2, <1>3

\* A fraction of a unit is less than the unit.
LEMMA FractionBound ==
  ASSUME NEW f \in Nat, NEW s \in Nat \ {0}, NEW u \in Nat \ {0}, f < s
  PROVE  (f * u) \div s \in Nat /\ (f * u) \div s < u
<1> DEFINE q == (f * u) \div s
<1>1. f * u \in Nat
  OBVIOUS
<1>2. q \in Nat /\ q * s <= f * u /\ q * s \in Nat
  <2> DEFINE a == f * u
             r == a % s
  <2>1. a \in Nat
    BY <1>1
  <2> HIDE DEF a
  <2>2. a \div s \in Nat /\ r \in 0 .. s - 1 /\ a = (a \div s) * s + r
    BY <2>1, DivOf
  <2>3. q = a \div s
    BY DEF a
  <2> HIDE DEF q, r
  <2>4. q \in Nat /\ r \in 0 .. s - 1 /\ a = q * s + r
    BY <2>2, <2>3
  <2>5. q * s \in Nat
    BY <2>4
  <2>6. QED
    BY <2>4, <2>5 DEF a
<1> HIDE DEF q
<1>3. ~(u <= q)
  <2> SUFFICES ASSUME u <= q PROVE FALSE
    OBVIOUS
  <2>1. u * s <= q * s
    BY <1>2, TimesOrder
  <2>2. f * u + u <= u * s
    <3>1. (f + 1) * u <= s * u /\ (f + 1) * u = f * u + u /\ s * u = u * s
      BY TimesOrder
    <3>2. QED
      BY <3>1
  <2>3. u * s \in Nat /\ f * u \in Nat
    OBVIOUS
  <2>4. QED
    BY <1>2, <2>1, <2>2, <2>3
<1>4. QED
  BY <1>2, <1>3 DEF q

\* A result below twice the range of the word has become negative exactly if
\* it does not fit.
LEMMA WordOf ==
  ASSUME NEW x \in Nat, x <= 2 * MaxInt + 1
  PROVE  Word(x) = IF x <= MaxInt THEN x ELSE x - 2 * (MaxInt + 1)
<1> DEFINE b == 2 * (MaxInt + 1)
           a == x + MaxInt + 1
<1>1. MaxInt \in Nat
  BY WordAssumption
<1>2. b \in Nat \ {0} /\ a \in Nat
  BY <1>1
<1>3. CASE x <= MaxInt
  <2>1. a \in 0 .. b - 1 /\ a = 0 * b + a /\ 0 \in Nat
    BY <1>1, <1>3
  <2>2. a % b = a
    BY <1>2, <2>1, DivIs
  <2>3. QED
    BY <1>1, <1>3, <2>2 DEF Word
<1>4. CASE ~(x <= MaxInt)
  <2>1. a - b \in 0 .. b - 1 /\ a = 1 * b + (a - b) /\ 1 \in Nat
    BY <1>1, <1>4
  <2>2. a % b = a - b
    BY <1>2, <2>1, DivIs
  <2>3. QED
    BY <1>1, <1>4, <2>2 DEF Word
<1>5. QED
  BY <1>3, <1>4

\* Nothing else is left of any other number.
LEMMA WordRange ==
  ASSUME NEW x \in Int
  PROVE  Word(x) \in Int /\ Word(x) <= MaxInt
<1> DEFINE b == 2 * (MaxInt + 1)
           a == x + MaxInt + 1
<1>1. MaxInt \in Nat /\ b \in Nat \ {0} /\ a \in Int
  BY WordAssumption
<1>2. Word(x) = (a % b) - (MaxInt + 1) /\ b = 2 * MaxInt + 2
  BY <1>1 DEF Word
<1> HIDE DEF a, b
<1>3. a % b \in 0 .. b - 1
  BY <1>1
<1>4. QED
  BY <1>1, <1>2, <1>3

\* The powers, one after the other.
LEMMA PowersSteps ==
  ASSUME NEW b \in Nat, NEW n \in Nat
  PROVE  \E h \in [0 .. n -> Nat] :
           /\ h[0] = 1
           /\ \A i \in 1 .. n : h[i] = h[i - 1] * b
           /\ Powers(b, n) = h
<1> DEFINE L == n
           F(f) == [i \in 0 .. L |-> IF i = 0 THEN 1 ELSE f[i - 1] * b]
           G == [p \in Nat \X (1 .. L) |-> p[1] * b]
<1>1. L \in Nat
  OBVIOUS
<1>2. \A q \in Nat, i \in 1 .. L : q * b \in Nat
  OBVIOUS
<1>3. 1 \in Nat
  OBVIOUS
<1>4. G \in [Nat \X (1 .. L) -> Nat]
  BY <1>2
<1>5. \A q \in Nat, i \in 1 .. L : G[<<q, i>>] = q * b
  OBVIOUS
<1> HIDE DEF G, L
<1>6. PICK f \in [0 .. L -> Nat] :
        f[0] = 1 /\ \A i \in 1 .. L : f[i] = G[<<f[i - 1], i>>]
  <2>1. Steps(L, Nat, 1, G) # {}
    BY <1>1, <1>3, <1>4, Stepwise
  <2>2. QED
    BY <2>1 DEF Steps
<1>7. f = F(f)
  <2>1. ASSUME NEW i \in 0 .. L PROVE f[i] = F(f)[i]
    <3>1. CASE i = 0
      BY <1>6, <3>1
    <3>2. CASE i # 0
      <4>1. i \in 1 .. L /\ i - 1 \in 0 .. L
        BY <1>1, <3>2
      <4>2. QED
        BY <1>5, <1>6, <4>1
    <3>3. QED
      BY <3>1, <3>2
  <2>2. QED
    BY <2>1
<1> DEFINE h == CHOOSE g : g = F(g)
<1>8. Powers(b, n) = h
  BY DEF Powers, L
<1>9. h = F(h)
  BY <1>7
<1> HIDE DEF h
<1>10. h[0] = 1 /\ \A i \in 1 .. L : h[i] = h[i - 1] * b
  <2>1. h[0] = 1
    BY <1>1, <1>9
  <2>2. ASSUME NEW i \in 1 .. L PROVE h[i] = h[i - 1] * b
    <3>1. i \in 0 .. L /\ i # 0
      BY <1>1
    <3>2. h[i] = F(h)[i]
      BY <1>9, Zenon
    <3>3. F(h)[i] = h[i - 1] * b
      BY <3>1
    <3>4. QED
      BY <3>2, <3>3, Zenon
  <2>3. QED
    BY <2>1, <2>2
<1>11. h \in [0 .. L -> Nat]
  <2> DEFINE T == {i \in 0 .. L : h[i] \in Nat}
  <2>1. 0 \in T
    BY <1>1, <1>3, <1>10
  <2>2. ASSUME NEW j \in 0 .. L - 1, j \in T PROVE j + 1 \in T
    <3>1. j + 1 \in 1 .. L /\ (j + 1) - 1 = j /\ h[j] \in Nat /\ j + 1 \in 0 .. L
      BY <1>1, <2>2
    <3>2. h[j + 1] \in Nat
      BY <1>2, <1>10, <3>1
    <3>3. QED
      BY <3>1, <3>2
  <2> HIDE DEF T
  <2>3. 0 .. L \subseteq T
    BY <1>1, <2>1, <2>2, UpTo
  <2>4. \A i \in 0 .. L : h[i] \in Nat
    BY <2>3 DEF T
  <2>5. QED
    BY <1>9, <2>4
<1>12. QED
  BY <1>8, <1>10, <1>11 DEF L

\* The value of a list of digits, digit after digit.
LEMMA NumberSteps ==
  ASSUME NEW ds \in Seq(CapDigits)
  PROVE  \E h \in [0 .. Len(ds) -> Nat] :
           /\ h[0] = 0
           /\ \A i \in 1 .. Len(ds) : h[i] = h[i - 1] * 10 + ds[i]
           /\ Number(ds) = h[Len(ds)]
<1> DEFINE L == Len(ds)
           F(f) == [i \in 0 .. L |-> IF i = 0 THEN 0 ELSE f[i - 1] * 10 + ds[i]]
           G == [p \in Nat \X (1 .. L) |-> p[1] * 10 + ds[p[2]]]
<1>1. L \in Nat
  OBVIOUS
<1>2. \A q \in Nat, i \in 1 .. L : q * 10 + ds[i] \in Nat
  <2>1. \A i \in 1 .. L : ds[i] \in CapDigits
    OBVIOUS
  <2>2. \A i \in 1 .. L : ds[i] \in Nat
    BY <2>1 DEF CapDigits
  <2>3. QED
    BY <2>2
<1>3. 0 \in Nat
  OBVIOUS
<1>4. G \in [Nat \X (1 .. L) -> Nat]
  BY <1>2
<1>5. \A q \in Nat, i \in 1 .. L : G[<<q, i>>] = q * 10 + ds[i]
  OBVIOUS
<1> HIDE DEF G, L
<1>6. PICK f \in [0 .. L -> Nat] :
        f[0] = 0 /\ \A i \in 1 .. L : f[i] = G[<<f[i - 1], i>>]
  <2>1. Steps(L, Nat, 0, G) # {}
    BY <1>1, <1>3, <1>4, Stepwise
  <2>2. QED
    BY <2>1 DEF Steps
<1>7. f = F(f)
  <2>1. ASSUME NEW i \in 0 .. L PROVE f[i] = F(f)[i]
    <3>1. CASE i = 0
      BY <1>6, <3>1
    <3>2. CASE i # 0
      <4>1. i \in 1 .. L /\ i - 1 \in 0 .. L
        BY <1>1, <3>2
      <4>2. QED
        BY <1>5, <1>6, <4>1
    <3>3. QED
      BY <3>1, <3>2
  <2>2. QED
    BY <2>1
<1> DEFINE h == CHOOSE g : g = F(g)
<1>8. Number(ds) = h[L]
  BY DEF Number, L
<1>9. h = F(h)
  BY <1>7
<1> HIDE DEF h
<1>10. h[0] = 0 /\ \A i \in 1 .. L : h[i] = h[i - 1] * 10 + ds[i]
  <2>1. h[0] = 0
    BY <1>1, <1>9
  <2>2. ASSUME NEW i \in 1 .. L PROVE h[i] = h[i - 1] * 10 + ds[i]
    <3>1. i \in 0 .. L /\ i # 0
      BY <1>1
    <3>2. h[i] = F(h)[i]
      BY <1>9, Zenon
    <3>3. F(h)[i] = h[i - 1] * 10 + ds[i]
      BY <3>1
    <3>4. QED
      BY <3>2, <3>3, Zenon
  <2>3. QED
    BY <2>1, <2>2
<1>11. h \in [0 .. L -> Nat]
  <2> DEFINE T == {i \in 0 .. L : h[i] \in Nat}
  <2>1. 0 \in T
    BY <1>1, <1>3, <1>10
  <2>2. ASSUME NEW n \in 0 .. L - 1, n \in T PROVE n + 1 \in T
    <3>1. n + 1 \in 1 .. L /\ (n + 1) - 1 = n /\ h[n] \in Nat /\ n + 1 \in 0 .. L
      BY <1>1, <2>2
    <3>2. h[n + 1] \in Nat
      BY <1>2, <1>10, <3>1
    <3>3. QED
      BY <3>1, <3>2
  <2> HIDE DEF T
  <2>3. 0 .. L \subseteq T
    BY <1>1, <2>1, <2>2, UpTo
  <2>4. \A i \in 0 .. L : h[i] \in Nat
    BY <2>3 DEF T
  <2>5. QED
    BY <1>9, <2>4
<1>12. QED
  BY <1>8, <1>10, <1>11 DEF L

\* A word, or Bad.
CapWords == 0 .. MaxInt
CapResults == CapWords \cup {Bad}

\* One digit more fits, and is then added, or it is refused.
LEMMA DigitAdded ==
  ASSUME NEW x \in CapWords, NEW c \in CapDigits
  PROVE  AddDigit(x, c) = IF x * 10 + c <= MaxInt THEN x * 10 + c ELSE Bad
<1>1. MaxInt \in Nat /\ MaxInt >= 9 /\ x \in Nat /\ x <= MaxInt /\ c \in Nat /\ c <= 9
  BY WordAssumption DEF CapWords, CapDigits
<1> DEFINE y == x * 10 + c
<1>2. y \in Nat
  BY <1>1
<1>3. x # Bad
  BY <1>1 DEF Bad
<1>4. CASE x > MaxInt \div 10
  <2>1. y > MaxInt
    BY <1>1, <1>4
  <2>2. QED
    BY <1>1, <1>2, <1>4, <2>1 DEF AddDigit
<1>5. CASE ~(x > MaxInt \div 10)
  <2>1. y <= 2 * MaxInt + 1
    BY <1>1, <1>5
  <2>2. Word(y) = IF y <= MaxInt THEN y ELSE y - 2 * (MaxInt + 1)
    BY <1>2, <2>1, WordOf
  <2>3. (y <= MaxInt => ~(y < 0)) /\ (~(y <= MaxInt) => y - 2 * (MaxInt + 1) < 0)
    BY <1>1, <1>2, <2>1
  <2>4. QED
    BY <1>3, <1>5, <2>2, <2>3 DEF AddDigit
<1>6. QED
  BY <1>4, <1>5

\* Once refused, always refused.
LEMMA DigitRefused == \A c : AddDigit(Bad, c) = Bad
  BY DEF AddDigit

\* A word or Bad stays one.
LEMMA DigitTyped ==
  ASSUME NEW x \in CapResults, NEW c \in CapDigits
  PROVE  AddDigit(x, c) \in CapResults
<1>1. CASE x = Bad
  BY <1>1, DigitRefused DEF CapResults
<1>2. CASE x \in CapWords
  <2>1. x * 10 + c \in Nat /\ MaxInt \in Nat
    BY <1>2, WordAssumption DEF CapWords, CapDigits
  <2>2. QED
    BY <1>2, <2>1, DigitAdded DEF CapResults, CapWords
<1>3. QED
  BY <1>1, <1>2 DEF CapResults

\* leadingInt, digit after digit.
LEMMA LeadingSteps ==
  ASSUME NEW ds \in Seq(CapDigits)
  PROVE  \E h \in [0 .. Len(ds) -> CapResults] :
           /\ h[0] = 0
           /\ \A i \in 1 .. Len(ds) : h[i] = AddDigit(h[i - 1], ds[i])
           /\ leadingInt(ds) = h[Len(ds)]
<1> DEFINE L == Len(ds)
           F(f) == [i \in 0 .. L |-> IF i = 0 THEN 0 ELSE AddDigit(f[i - 1], ds[i])]
           G == [p \in CapResults \X (1 .. L) |-> AddDigit(p[1], ds[p[2]])]
<1>1. L \in Nat
  OBVIOUS
<1>2. \A q \in CapResults, i \in 1 .. L : AddDigit(q, ds[i]) \in CapResults
  <2>1. \A i \in 1 .. L : ds[i] \in CapDigits
    OBVIOUS
  <2>2. QED
    BY <2>1, DigitTyped
<1>3. 0 \in CapResults
  BY WordAssumption DEF CapResults, CapWords
<1>4. G \in [CapResults \X (1 .. L) -> CapResults]
  BY <1>2
<1>5. \A q \in CapResults, i \in 1 .. L : G[<<q, i>>] = AddDigit(q, ds[i])
  OBVIOUS
<1> HIDE DEF G, L
<1>6. PICK f \in [0 .. L -> CapResults] :
        f[0] = 0 /\ \A i \in 1 .. L : f[i] = G[<<f[i - 1], i>>]
  <2>1. Steps(L, CapResults, 0, G) # {}
    BY <1>1, <1>3, <1>4, Stepwise
  <2>2. QED
    BY <2>1 DEF Steps
<1>7. f = F(f)
  <2>1. ASSUME NEW i \in 0 .. L PROVE f[i] = F(f)[i]
    <3>1. CASE i = 0
      BY <1>6, <3>1
    <3>2. CASE i # 0
      <4>1. i \in 1 .. L /\ i - 1 \in 0 .. L
        BY <1>1, <3>2
      <4>2. QED
        BY <1>5, <1>6, <4>1
    <3>3. QED
      BY <3>1, <3>2
  <2>2. QED
    BY <2>1
<1> DEFINE h == CHOOSE g : g = F(g)
<1>8. leadingInt(ds) = h[L]
  BY DEF leadingInt, L
<1>9. h = F(h)
  BY <1>7
<1> HIDE DEF h
<1>10. h[0] = 0 /\ \A i \in 1 .. L : h[i] = AddDigit(h[i - 1], ds[i])
  <2>1. h[0] = 0
    BY <1>1, <1>9
  <2>2. ASSUME NEW i \in 1 .. L PROVE h[i] = AddDigit(h[i - 1], ds[i])
    <3>1. i \in 0 .. L /\ i # 0
      BY <1>1
    <3>2. h[i] = F(h)[i]
      BY <1>9, Zenon
    <3>3. F(h)[i] = AddDigit(h[i - 1], ds[i])
      BY <3>1
    <3>4. QED
      BY <3>2, <3>3, Zenon
  <2>3. QED
    BY <2>1, <2>2
<1>11. h \in [0 .. L -> CapResults]
  <2> DEFINE T == {i \in 0 .. L : h[i] \in CapResults}
  <2>1. 0 \in T
    BY <1>1, <1>3, <1>10
  <2>2. ASSUME NEW n \in 0 .. L - 1, n \in T PROVE n + 1 \in T
    <3>1. n + 1 \in 1 .. L /\ (n + 1) - 1 = n /\ h[n] \in CapResults /\ n + 1 \in 0 .. L
      BY <1>1, <2>2
    <3>2. h[n + 1] \in CapResults
      BY <1>2, <1>10, <3>1
    <3>3. QED
      BY <3>1, <3>2
  <2> HIDE DEF T
  <2>3. 0 .. L \subseteq T
    BY <1>1, <2>1, <2>2, UpTo
  <2>4. \A i \in 0 .. L : h[i] \in CapResults
    BY <2>3 DEF T
  <2>5. QED
    BY <1>9, <2>4
<1>12. QED
  BY <1>8, <1>10, <1>11 DEF L

\* leadingInt is exact or Bad.
LEMMA LeadingExact ==
  ASSUME NEW ds \in Seq(CapDigits)
  PROVE  /\ Number(ds) \in Nat
         /\ leadingInt(ds) = IF Number(ds) <= MaxInt THEN Number(ds) ELSE Bad
<1> DEFINE L == Len(ds)
<1>1. L \in Nat /\ \A i \in 1 .. L : ds[i] \in CapDigits
  OBVIOUS
<1>2. PICK n \in [0 .. L -> Nat] :
        n[0] = 0 /\ (\A i \in 1 .. L : n[i] = n[i - 1] * 10 + ds[i]) /\ Number(ds) = n[L]
  BY NumberSteps
<1>3. PICK h \in [0 .. L -> CapResults] :
        h[0] = 0 /\ (\A i \in 1 .. L : h[i] = AddDigit(h[i - 1], ds[i])) /\ leadingInt(ds) = h[L]
  BY LeadingSteps
<1> HIDE DEF L
<1> DEFINE T == {i \in 0 .. L : h[i] = IF n[i] <= MaxInt THEN n[i] ELSE Bad}
<1>4. 0 \in T
  BY <1>1, <1>2, <1>3, WordAssumption
<1>5. ASSUME NEW i \in 0 .. L - 1, i \in T PROVE i + 1 \in T
  <2> DEFINE c == ds[i + 1]
             m == n[i]
  <2>1. i \in 0 .. L /\ i + 1 \in 0 .. L /\ i + 1 \in 1 .. L /\ (i + 1) - 1 = i
    BY <1>1
  <2>2. c \in CapDigits /\ m \in Nat /\ n[i + 1] = m * 10 + c /\ h[i + 1] = AddDigit(h[i], c)
    BY <1>1, <1>2, <1>3, <2>1
  <2>3. h[i] = IF m <= MaxInt THEN m ELSE Bad
    BY <1>5
  <2> HIDE DEF c, m
  <2>4. h[i + 1] = IF m * 10 + c <= MaxInt THEN m * 10 + c ELSE Bad
    <3>1. CASE m <= MaxInt
      <4>1. m \in CapWords
        BY <2>2, <3>1, WordAssumption DEF CapWords
      <4>2. QED
        BY <2>2, <2>3, <3>1, <4>1, DigitAdded
    <3>2. CASE ~(m <= MaxInt)
      <4>1. ~(m * 10 + c <= MaxInt)
        BY <2>2, <3>2, WordAssumption DEF CapDigits
      <4>2. QED
        BY <2>2, <2>3, <3>2, <4>1, DigitRefused
    <3>3. QED
      BY <3>1, <3>2
  <2>5. QED
    BY <2>1, <2>2, <2>4
<1> HIDE DEF T
<1>6. L \in T
  <2>1. 0 .. L \subseteq T
    BY <1>1, <1>4, <1>5, UpTo
  <2>2. QED
    BY <1>1, <2>1
<1>7. h[L] = IF n[L] <= MaxInt THEN n[L] ELSE Bad
  BY <1>6 DEF T
<1>8. QED
  BY <1>1, <1>2, <1>3, <1>7

\* The states of the loop in leadingFraction.
Fractions == [f : CapWords, scale : Nat \ {0}, over : BOOLEAN]

\* One turn of the loop keeps their types.
LEMMA FractionTyped ==
  ASSUME NEW r \in Fractions, NEW c \in CapDigits
  PROVE  AddFraction(r, c) \in Fractions
<1>1. r.f \in CapWords /\ r.scale \in Nat \ {0} /\ r.f \in CapResults
  BY DEF Fractions, CapResults
<1>2. AddDigit(r.f, c) \in CapResults
  BY <1>1, DigitTyped
<1>3. r.scale * 10 \in Nat
  BY <1>1
<1>4. AddDigit(r.f, c) # Bad => AddDigit(r.f, c) \in CapWords
  BY <1>2 DEF CapResults
<1>5. QED
  BY <1>1, <1>3, <1>4 DEF AddFraction, Fractions

\* leadingFraction, digit after digit.
LEMMA FractionSteps ==
  ASSUME NEW ds \in Seq(CapDigits)
  PROVE  \E h \in [0 .. Len(ds) -> Fractions] :
           /\ h[0] = [f |-> 0, scale |-> 1, over |-> FALSE]
           /\ \A i \in 1 .. Len(ds) : h[i] = AddFraction(h[i - 1], ds[i])
           /\ leadingFraction(ds) = h[Len(ds)]
<1> DEFINE L == Len(ds)
           F(f) == [i \in 0 .. L |-> IF i = 0 THEN [f |-> 0, scale |-> 1, over |-> FALSE] ELSE AddFraction(f[i - 1], ds[i])]
           G == [p \in Fractions \X (1 .. L) |-> AddFraction(p[1], ds[p[2]])]
<1>1. L \in Nat
  OBVIOUS
<1>2. \A q \in Fractions, i \in 1 .. L : AddFraction(q, ds[i]) \in Fractions
  <2>1. \A i \in 1 .. L : ds[i] \in CapDigits
    OBVIOUS
  <2>2. QED
    BY <2>1, FractionTyped
<1>3. [f |-> 0, scale |-> 1, over |-> FALSE] \in Fractions
  BY WordAssumption DEF Fractions, CapWords
<1>4. G \in [Fractions \X (1 .. L) -> Fractions]
  BY <1>2
<1>5. \A q \in Fractions, i \in 1 .. L : G[<<q, i>>] = AddFraction(q, ds[i])
  OBVIOUS
<1> HIDE DEF G, L
<1>6. PICK f \in [0 .. L -> Fractions] :
        f[0] = [f |-> 0, scale |-> 1, over |-> FALSE] /\ \A i \in 1 .. L : f[i] = G[<<f[i - 1], i>>]
  <2>1. Steps(L, Fractions, [f |-> 0, scale |-> 1, over |-> FALSE], G) # {}
    BY <1>1, <1>3, <1>4, Stepwise
  <2>2. QED
    BY <2>1 DEF Steps
<1>7. f = F(f)
  <2>1. ASSUME NEW i \in 0 .. L PROVE f[i] = F(f)[i]
    <3>1. CASE i = 0
      BY <1>6, <3>1
    <3>2. CASE i # 0
      <4>1. i \in 1 .. L /\ i - 1 \in 0 .. L
        BY <1>1, <3>2
      <4>2. QED
        BY <1>5, <1>6, <4>1
    <3>3. QED
      BY <3>1, <3>2
  <2>2. QED
    BY <2>1
<1> DEFINE h == CHOOSE g : g = F(g)
<1>8. leadingFraction(ds) = h[L]
  BY DEF leadingFraction, L
<1>9. h = F(h)
  BY <1>7
<1> HIDE DEF h
<1>10. h[0] = [f |-> 0, scale |-> 1, over |-> FALSE] /\ \A i \in 1 .. L : h[i] = AddFraction(h[i - 1], ds[i])
  <2>1. h[0] = [f |-> 0, scale |-> 1, over |-> FALSE]
    BY <1>1, <1>9
  <2>2. ASSUME NEW i \in 1 .. L PROVE h[i] = AddFraction(h[i - 1], ds[i])
    <3>1. i \in 0 .. L /\ i # 0
      BY <1>1
    <3>2. h[i] = F(h)[i]
      BY <1>9, Zenon
    <3>3. F(h)[i] = AddFraction(h[i - 1], ds[i])
      BY <3>1
    <3>4. QED
      BY <3>2, <3>3, Zenon
  <2>3. QED
    BY <2>1, <2>2
<1>11. h \in [0 .. L -> Fractions]
  <2> DEFINE T == {i \in 0 .. L : h[i] \in Fractions}
  <2>1. 0 \in T
    BY <1>1, <1>3, <1>10
  <2>2. ASSUME NEW n \in 0 .. L - 1, n \in T PROVE n + 1 \in T
    <3>1. n + 1 \in 1 .. L /\ (n + 1) - 1 = n /\ h[n] \in Fractions /\ n + 1 \in 0 .. L
      BY <1>1, <2>2
    <3>2. h[n + 1] \in Fractions
      BY <1>2, <1>10, <3>1
    <3>3. QED
      BY <3>1, <3>2
  <2> HIDE DEF T
  <2>3. 0 .. L \subseteq T
    BY <1>1, <2>1, <2>2, UpTo
  <2>4. \A i \in 0 .. L : h[i] \in Fractions
    BY <2>3 DEF T
  <2>5. QED
    BY <1>9, <2>4
<1>12. QED
  BY <1>8, <1>10, <1>11 DEF L

\* A fraction is below 1.
LEMMA FractionSmall ==
  ASSUME NEW ds \in Seq(CapDigits)
  PROVE  LET s == Powers(10, Len(ds))[Len(ds)]
         IN  s \in Nat \ {0} /\ Number(ds) \in Nat /\ Number(ds) < s
<1> DEFINE L == Len(ds)
<1>1. L \in Nat /\ \A i \in 1 .. L : ds[i] \in CapDigits
  OBVIOUS
<1>2. PICK n \in [0 .. L -> Nat] :
        n[0] = 0 /\ (\A i \in 1 .. L : n[i] = n[i - 1] * 10 + ds[i]) /\ Number(ds) = n[L]
  BY NumberSteps
<1>3. PICK p \in [0 .. L -> Nat] :
        p[0] = 1 /\ (\A i \in 1 .. L : p[i] = p[i - 1] * 10) /\ Powers(10, L) = p
  BY <1>1, PowersSteps
<1> HIDE DEF L
<1> DEFINE T == {i \in 0 .. L : p[i] \in Nat \ {0} /\ n[i] < p[i]}
<1>4. 0 \in T
  BY <1>1, <1>2, <1>3
<1>5. ASSUME NEW i \in 0 .. L - 1, i \in T PROVE i + 1 \in T
  <2> DEFINE c == ds[i + 1]
             m == n[i]
             s == p[i]
  <2>1. i \in 0 .. L /\ i + 1 \in 0 .. L /\ i + 1 \in 1 .. L /\ (i + 1) - 1 = i
    BY <1>1
  <2>2. c \in CapDigits /\ m \in Nat /\ n[i + 1] = m * 10 + c /\ p[i + 1] = s * 10
    BY <1>1, <1>2, <1>3, <2>1
  <2>3. s \in Nat \ {0} /\ m < s
    BY <1>5
  <2> HIDE DEF c, m, s
  <2>4. m * 10 + c < s * 10 /\ s * 10 \in Nat \ {0}
    BY <2>2, <2>3 DEF CapDigits
  <2>5. QED
    BY <2>1, <2>2, <2>4
<1> HIDE DEF T
<1>6. L \in T
  <2>1. 0 .. L \subseteq T
    BY <1>1, <1>4, <1>5, UpTo
  <2>2. QED
    BY <1>1, <2>1
<1>7. p[L] \in Nat \ {0} /\ n[L] < p[L] /\ n[L] \in Nat
  BY <1>1, <1>6 DEF T
<1>8. QED
  BY <1>2, <1>3, <1>7 DEF L

\* leadingFraction keeps a fraction whose digits fit the word as it is.
LEMMA FractionExact ==
  ASSUME NEW ds \in Seq(CapDigits), Number(ds) <= MaxInt
  PROVE  /\ leadingFraction(ds).f = Number(ds)
         /\ leadingFraction(ds).scale = Powers(10, Len(ds))[Len(ds)]
<1> DEFINE L == Len(ds)
<1>1. L \in Nat /\ \A i \in 1 .. L : ds[i] \in CapDigits
  OBVIOUS
<1>2. PICK n \in [0 .. L -> Nat] :
        n[0] = 0 /\ (\A i \in 1 .. L : n[i] = n[i - 1] * 10 + ds[i]) /\ Number(ds) = n[L]
  BY NumberSteps
<1>3. PICK h \in [0 .. L -> Fractions] :
        /\ h[0] = [f |-> 0, scale |-> 1, over |-> FALSE]
        /\ \A i \in 1 .. L : h[i] = AddFraction(h[i - 1], ds[i])
        /\ leadingFraction(ds) = h[L]
  BY FractionSteps
<1>4. PICK p \in [0 .. L -> Nat] :
        p[0] = 1 /\ (\A i \in 1 .. L : p[i] = p[i - 1] * 10) /\ Powers(10, L) = p
  BY <1>1, PowersSteps
<1> HIDE DEF L
\* The number grows with every digit, so that all beginnings of the list fit.
<1>5. \A i \in 0 .. L : n[i] <= MaxInt
  <2> DEFINE T == {j \in 0 .. L : n[L - j] <= MaxInt}
  <2>1. 0 \in T
    BY <1>1, <1>2
  <2>2. ASSUME NEW j \in 0 .. L - 1, j \in T PROVE j + 1 \in T
    <3> DEFINE i == L - j
    <3>1. i \in 1 .. L /\ i - 1 = L - (j + 1) /\ i - 1 \in 0 .. L /\ j + 1 \in 0 .. L
      BY <1>1
    <3>2. n[i] <= MaxInt
      BY <2>2
    <3> HIDE DEF i
    <3>3. n[i] = n[i - 1] * 10 + ds[i] /\ n[i - 1] \in Nat /\ ds[i] \in Nat
      <4>1. ds[i] \in CapDigits
        BY <1>1, <3>1
      <4>2. n[i] = n[i - 1] * 10 + ds[i] /\ n[i - 1] \in Nat
        BY <1>2, <3>1
      <4>3. QED
        BY <4>1, <4>2 DEF CapDigits
    <3> DEFINE m == n[i - 1]
               c == ds[i]
    <3>4. m \in Nat /\ c \in Nat /\ m * 10 + c <= MaxInt
      BY <3>2, <3>3
    <3> HIDE DEF m, c
    <3>5. m <= MaxInt
      BY <3>4, WordAssumption
    <3>6. n[L - (j + 1)] <= MaxInt
      BY <3>1, <3>5 DEF m
    <3>7. QED
      BY <3>1, <3>6
  <2> HIDE DEF T
  <2>3. 0 .. L \subseteq T
    BY <1>1, <2>1, <2>2, UpTo
  <2>4. ASSUME NEW i \in 0 .. L PROVE n[i] <= MaxInt
    <3>1. L - i \in 0 .. L /\ L - (L - i) = i
      BY <1>1
    <3>2. L - i \in T
      BY <2>3, <3>1
    <3>3. QED
      BY <3>1, <3>2 DEF T
  <2>5. QED
    BY <2>4
<1> DEFINE Shown(i) == h[i] = [f |-> n[i], scale |-> p[i], over |-> FALSE]
           T == {i \in 0 .. L : Shown(i)}
<1>6. 0 \in T
  BY <1>1, <1>2, <1>3, <1>4
<1>7. ASSUME NEW i \in 0 .. L - 1, i \in T PROVE i + 1 \in T
  <2> DEFINE c == ds[i + 1]
             m == n[i]
             s == p[i]
  <2>1. i \in 0 .. L /\ i + 1 \in 0 .. L /\ i + 1 \in 1 .. L /\ (i + 1) - 1 = i
    BY <1>1
  <2>2. /\ c \in CapDigits /\ m \in Nat /\ n[i + 1] = m * 10 + c /\ p[i + 1] = s * 10
        /\ h[i + 1] = AddFraction(h[i], c)
    BY <1>1, <1>2, <1>3, <1>4, <2>1
  <2>3. h[i] = [f |-> m, scale |-> s, over |-> FALSE]
    BY <1>7
  <2>4. m <= MaxInt /\ n[i + 1] <= MaxInt
    BY <1>5, <2>1
  <2> HIDE DEF c, m, s
  <2>5. AddDigit(m, c) = m * 10 + c
    <3>1. m \in CapWords
      BY <2>2, <2>4, WordAssumption DEF CapWords
    <3>2. QED
      BY <2>2, <2>4, <3>1, DigitAdded
  <2>6. m * 10 + c # Bad
    BY <2>2 DEF Bad, CapDigits
  <2>7. h[i + 1] = [f |-> m * 10 + c, scale |-> s * 10, over |-> FALSE]
    BY <2>2, <2>3, <2>5, <2>6 DEF AddFraction
  <2>8. Shown(i + 1)
    BY <2>2, <2>7
  <2>9. QED
    BY <2>1, <2>8
<1> HIDE DEF T
<1>8. L \in T
  <2>1. 0 .. L \subseteq T
    BY <1>1, <1>6, <1>7, UpTo
  <2>2. QED
    BY <1>1, <2>1
<1>9. Shown(L)
  BY <1>8 DEF T
<1>10. QED
  BY <1>2, <1>3, <1>4, <1>9 DEF L

\* The units: each is the base times the one before, and all are below Limit.
LEMMA UnitSizes ==
  /\ UnitSize(1) = 1 /\ Limit \in Nat \ {0} /\ Limit <= MaxInt
  /\ Limit = UnitSize(UnitCount) * Base
  /\ \A k \in 1 .. UnitCount : UnitSize(k) \in Nat \ {0} /\ UnitSize(k) <= Limit
  /\ \A k \in 1 .. UnitCount - 1 : UnitSize(k + 1) = UnitSize(k) * Base
<1> DEFINE L == UnitCount
<1>1. L \in Nat \ {0} /\ Base \in Nat /\ Base > 1 /\ MaxInt \in Nat /\ Limit <= MaxInt
  BY WordAssumption
<1>2. PICK p \in [0 .. L -> Nat] :
        p[0] = 1 /\ (\A i \in 1 .. L : p[i] = p[i - 1] * Base) /\ Powers(Base, L) = p
  BY <1>1, PowersSteps
<1>3. Limit = p[L] /\ \A k \in 1 .. L : UnitSize(k) = p[k - 1]
  BY <1>2 DEF Limit, UnitSize
<1> HIDE DEF L
<1>4. \A i \in 0 .. L : p[i] \in Nat \ {0}
  <2> DEFINE T == {i \in 0 .. L : p[i] \in Nat \ {0}}
  <2>1. 0 \in T
    BY <1>1, <1>2
  <2>2. ASSUME NEW i \in 0 .. L - 1, i \in T PROVE i + 1 \in T
    <3> DEFINE m == p[i]
    <3>1. i + 1 \in 0 .. L /\ i + 1 \in 1 .. L /\ (i + 1) - 1 = i
      BY <1>1
    <3>2. p[i + 1] = m * Base /\ m \in Nat \ {0}
      BY <1>2, <2>2, <3>1
    <3> HIDE DEF m
    <3>3. m * Base \in Nat /\ 1 * Base <= m * Base
      BY <1>1, <3>2, TimesOrder
    <3>4. m * Base \in Nat \ {0}
      BY <1>1, <3>3
    <3>5. QED
      BY <3>1, <3>2, <3>4
  <2> HIDE DEF T
  <2>3. 0 .. L \subseteq T
    BY <1>1, <2>1, <2>2, UpTo
  <2>4. QED
    BY <2>3 DEF T
<1>5. \A i \in 0 .. L : p[i] <= p[L]
  <2> DEFINE T == {j \in 0 .. L : p[L - j] <= p[L]}
  <2>1. 0 \in T
    <3>1. L - 0 = L /\ p[L] \in Nat
      BY <1>1, <1>4
    <3>2. QED
      BY <1>1, <3>1
  <2>2. ASSUME NEW j \in 0 .. L - 1, j \in T PROVE j + 1 \in T
    <3> DEFINE i == L - j
               m == p[i - 1]
               t == p[L]
    <3>1. i \in 1 .. L /\ i - 1 = L - (j + 1) /\ i - 1 \in 0 .. L /\ j + 1 \in 0 .. L
      BY <1>1
    <3>2. p[i] = m * Base /\ m \in Nat /\ t \in Nat /\ p[i] <= t
      BY <1>1, <1>2, <1>4, <2>2, <3>1
    <3>3. p[L - (j + 1)] = m
      BY <3>1
    <3> HIDE DEF i, m, t
    <3>4. m * 1 <= m * Base /\ m * Base <= t
      <4>1. 1 * m <= Base * m /\ 1 * m = m * 1 /\ Base * m = m * Base
        BY <1>1, <3>2, TimesOrder
      <4>2. QED
        BY <3>2, <4>1
    <3>5. m <= t
      <4>1. m * 1 = m /\ m * Base \in Nat
        BY <1>1, <3>2
      <4>2. QED
        BY <3>2, <3>4, <4>1
    <3>6. QED
      BY <3>1, <3>3, <3>5 DEF t
  <2> HIDE DEF T
  <2>3. 0 .. L \subseteq T
    BY <1>1, <2>1, <2>2, UpTo
  <2>4. ASSUME NEW i \in 0 .. L PROVE p[i] <= p[L]
    <3>1. L - i \in 0 .. L /\ L - (L - i) = i
      BY <1>1
    <3>2. L - i \in T
      BY <2>3, <3>1
    <3>3. QED
      BY <3>1, <3>2 DEF T
  <2>5. QED
    BY <2>4
<1>6. UnitSize(1) = 1
  <2>1. 1 \in 1 .. L /\ 1 - 1 = 0
    BY <1>1
  <2>2. QED
    BY <1>2, <1>3, <2>1
<1>7. Limit = UnitSize(L) * Base
  <2>1. L \in 1 .. L
    BY <1>1
  <2>2. QED
    BY <1>2, <1>3, <2>1
<1>8. ASSUME NEW k \in 1 .. L PROVE UnitSize(k) \in Nat \ {0} /\ UnitSize(k) <= Limit
  <2>1. k - 1 \in 0 .. L
    BY <1>1
  <2>2. QED
    BY <1>3, <1>4, <1>5, <2>1
<1>9. ASSUME NEW k \in 1 .. L - 1 PROVE UnitSize(k + 1) = UnitSize(k) * Base
  <2>1. k \in 1 .. L /\ k + 1 \in 1 .. L /\ (k + 1) - 1 = k
    BY <1>1
  <2>2. QED
    BY <1>2, <1>3, <2>1
<1>10. Limit \in Nat \ {0}
  BY <1>1, <1>3, <1>4
<1>11. QED
  BY <1>1, <1>6, <1>7, <1>8, <1>9, <1>10 DEF L

\* leadingFraction loses no byte of a term with a known unit: the digits of its
\* fraction fit the word, or those that are skipped are worth less than what is
\* missing to the next byte.
FractionKept(u) ==
  LET r == leadingFraction(u.frac)
      k == UnitSize(u.unit)
  IN  u.unit \in 1 .. UnitCount =>
        \/ Number(u.frac) <= MaxInt
        \/ (r.f * k) \div r.scale
             = (Number(u.frac) * k) \div Powers(10, Len(u.frac))[Len(u.frac)]

\* A term without digits or with an unknown unit is refused.
LEMMA TermRefused ==
  ASSUME NEW u \in CapTerms, ~GoodTerm(u)
  PROVE  TermValue(u) = Bad
  BY DEF GoodTerm, TermValue

\* What float64 makes of the fraction of a term is not above the unit.
Fits(u) == u.unit \in 1 .. UnitCount => FractionBytes(u) \in 0 .. UnitSize(u.unit)

\* And it is at most one byte away from the exact one, which it is if there is
\* no fraction.
Doubt(u) == IF u.frac = <<>> THEN 0 ELSE 1
Close(u) ==
  /\ Fits(u)
  /\ u.unit \in 1 .. UnitCount => FractionBytes(u) - ExactFraction(u) \in -Doubt(u) .. Doubt(u)

\* The value of a term as it is computed, before it has to fit the word.
RoundedValue(u) == Number(u.int) * UnitSize(u.unit) + FractionBytes(u)

\* A term without a fraction adds nothing to its integer part.
LEMMA NoFraction ==
  ASSUME NEW u \in CapTerms, u.frac = <<>>
  PROVE  Close(u) /\ (u.unit \in 1 .. UnitCount => ExactFraction(u) = 0)
<1> DEFINE ds == u.frac
           k == UnitSize(u.unit)
<1>1. ds \in Seq(CapDigits) /\ Len(ds) = 0
  BY DEF CapTerms
<1> HIDE DEF ds
<1>2. Number(ds) = 0
  <2>1. PICK n \in [0 .. Len(ds) -> Nat] : n[0] = 0 /\ Number(ds) = n[Len(ds)]
    BY <1>1, NumberSteps
  <2>2. QED
    BY <1>1, <2>1
<1>3. Powers(10, Len(ds))[Len(ds)] = 1
  <2>1. 10 \in Nat /\ 0 \in Nat
    OBVIOUS
  <2>2. Powers(10, 0)[0] = 1
    BY <2>1, PowersSteps
  <2>3. QED
    BY <1>1, <2>2
<1>4. leadingFraction(ds).f = 0
  <2>1. Number(ds) <= MaxInt
    BY <1>2, WordAssumption
  <2>2. leadingFraction(ds).f = Number(ds)
    BY <1>1, <2>1, FractionExact
  <2>3. QED
    BY <1>2, <2>2
<1>5. FractionBytes(u) = 0
  BY <1>4 DEF FractionBytes, ds
<1> SUFFICES ASSUME u.unit \in 1 .. UnitCount
             PROVE  Close(u) /\ ExactFraction(u) = 0
  BY <1>5 DEF Close, Fits
<1>6. k \in Nat \ {0}
  BY UnitSizes
<1>7. ExactFraction(u) = (0 * k) \div 1
  BY <1>2, <1>3 DEF ExactFraction, ds
<1>8. Doubt(u) = 0
  BY DEF Doubt
<1> HIDE DEF k
<1>9. 0 * k = 0 /\ 0 \div 1 = 0
  BY <1>6
<1>10. ExactFraction(u) = 0
  BY <1>7, <1>9
<1>11. 0 \in 0 .. k /\ 0 - 0 \in -0 .. 0
  BY <1>6
<1>12. QED
  BY <1>5, <1>8, <1>10, <1>11 DEF Close, Fits, k

\* The terms of the texts of a program.
LEMMA TermsFit ==
  ASSUME NEW t \in CapTexts, NEW i \in DOMAIN t.terms
  PROVE  t.terms[i] \in CapTerms /\ Fits(t.terms[i])
<1> DEFINE u == t.terms[i]
           r == leadingFraction(u.frac)
           k == UnitSize(u.unit)
<1>1. u \in CapTerms
  BY CapTextAssumption DEF IsText
<1> SUFFICES ASSUME u.unit \in 1 .. UnitCount PROVE FractionBytes(u) \in 0 .. k
  BY <1>1 DEF Fits
<1>2. r.f > 0 => FloatProduct(r.f, k, r.scale) \in 0 .. k
  BY FloatAssumption
<1>3. k \in Nat \ {0}
  BY UnitSizes
<1>4. FractionBytes(u) = IF r.f > 0 THEN FloatProduct(r.f, k, r.scale) ELSE 0
  BY DEF FractionBytes
<1> HIDE DEF r, k
<1>5. QED
  BY <1>2, <1>3, <1>4

\* Where leadingFraction loses no byte, float64 loses at most one.
LEMMA TermsClose ==
  ASSUME NEW t \in CapTexts, NEW i \in DOMAIN t.terms, FractionKept(t.terms[i])
  PROVE  Close(t.terms[i])
<1> DEFINE u == t.terms[i]
           r == leadingFraction(u.frac)
           k == UnitSize(u.unit)
           e == (r.f * k) \div r.scale
           b == FloatProduct(r.f, k, r.scale)
<1>1. u \in CapTerms /\ Fits(u)
  BY TermsFit
<1>2. CASE u.frac = <<>>
  BY <1>1, <1>2, NoFraction
<1>3. CASE u.frac # <<>>
  <2> SUFFICES ASSUME u.unit \in 1 .. UnitCount
               PROVE  FractionBytes(u) - ExactFraction(u) \in -1 .. 1
    BY <1>1, <1>3 DEF Close, Doubt
  <2>1. ExactFraction(u) = e
    <3>1. CASE Number(u.frac) <= MaxInt
      <4>1. r.f = Number(u.frac) /\ r.scale = Powers(10, Len(u.frac))[Len(u.frac)]
        BY <1>1, <3>1, FractionExact DEF CapTerms
      <4>2. QED
        BY <4>1 DEF ExactFraction
    <3>2. CASE ~(Number(u.frac) <= MaxInt)
      BY <3>2 DEF FractionKept, ExactFraction
    <3>3. QED
      BY <3>1, <3>2
  <2>2. r \in Fractions
    <3>1. u.frac \in Seq(CapDigits) /\ Len(u.frac) \in 0 .. Len(u.frac)
      BY <1>1 DEF CapTerms
    <3>2. PICK h \in [0 .. Len(u.frac) -> Fractions] : r = h[Len(u.frac)]
      BY <3>1, FractionSteps
    <3>3. QED
      BY <3>1, <3>2
  <2>3. r.f \in Nat /\ r.scale \in Nat \ {0} /\ k \in Nat \ {0}
    BY <2>2, UnitSizes, WordAssumption DEF Fractions, CapWords
  <2>4. r.f > 0 => b \in 0 .. k /\ b - e \in -1 .. 1
    BY FloatAssumption
  <2>5. FractionBytes(u) = IF r.f > 0 THEN b ELSE 0
    BY DEF FractionBytes
  <2>6. r.f = 0 => e = 0
    <3> DEFINE s == r.scale
    <3>1. s \in Nat \ {0} /\ k \in Nat
      BY <2>3
    <3> HIDE DEF s, k
    <3>2. 0 * k = 0 /\ 0 \div s = 0
      BY <3>1
    <3>3. QED
      BY <3>2 DEF s
  <2> DEFINE f == r.f
  <2>7. f \in Nat /\ (f > 0 => b - e \in -1 .. 1) /\ (f = 0 => e = 0)
        /\ FractionBytes(u) = IF f > 0 THEN b ELSE 0
    BY <2>3, <2>4, <2>5, <2>6
  <2> HIDE DEF f, b, e
  <2>8. QED
    BY <2>1, <2>7
<1>4. QED
  BY <1>2, <1>3

\* The exact value of a term is a number.
LEMMA ExactTyped ==
  ASSUME NEW u \in CapTerms, GoodTerm(u)
  PROVE  ExactValue(u) \in Nat /\ ExactFraction(u) \in Nat
<1> DEFINE n == Number(u.int)
           f == Number(u.frac)
           s == Powers(10, Len(u.frac))[Len(u.frac)]
           k == UnitSize(u.unit)
           g == (f * k) \div s
<1>1. /\ u.int \in Seq(CapDigits) /\ u.frac \in Seq(CapDigits) /\ u.unit \in 1 .. UnitCount
  BY DEF CapTerms, GoodTerm
<1>2. n \in Nat
  BY <1>1, LeadingExact
<1>3. s \in Nat \ {0} /\ f \in Nat /\ f < s
  BY <1>1, FractionSmall
<1>4. k \in Nat \ {0}
  BY <1>1, UnitSizes
<1>5. ExactFraction(u) = g /\ ExactValue(u) = n * k + g
  BY DEF ExactValue, ExactFraction
<1> HIDE DEF n, f, s, k
<1>6. g \in Nat
  BY <1>3, <1>4, FractionBound
<1> HIDE DEF g
<1>7. n * k \in Nat
  BY <1>2, <1>4
<1>8. QED
  BY <1>5, <1>6, <1>7

\* The value of a term as computed, or Bad if it does not fit.
LEMMA TermRounded ==
  ASSUME NEW u \in CapTerms, GoodTerm(u), Fits(u)
  PROVE  /\ RoundedValue(u) \in Nat
         /\ TermValue(u) = IF RoundedValue(u) <= MaxInt THEN RoundedValue(u) ELSE Bad
<1> DEFINE n == Number(u.int)
           k == UnitSize(u.unit)
           g == FractionBytes(u)
           v == leadingInt(u.int)
<1>1. /\ u.int \in Seq(CapDigits) /\ u.frac \in Seq(CapDigits) /\ u.unit \in 1 .. UnitCount
      /\ ~(u.int = <<>> /\ u.frac = <<>>)
  BY DEF CapTerms, GoodTerm
<1>2. n \in Nat /\ v = IF n <= MaxInt THEN n ELSE Bad
  BY <1>1, LeadingExact
<1>5. k \in Nat \ {0} /\ k <= MaxInt /\ MaxInt \in Nat
  <2>1. k \in Nat \ {0} /\ k <= Limit /\ Limit \in Nat /\ Limit <= MaxInt
    BY <1>1, UnitSizes
  <2>2. MaxInt \in Nat
    BY WordAssumption
  <2>3. QED
    BY <2>1, <2>2
<1>6. RoundedValue(u) = n * k + g
  BY DEF RoundedValue
<1>7. TermValue(u) =
        IF v = Bad THEN Bad
        ELSE IF v > MaxInt \div k \/ Word(v * k + g) < 0 THEN Bad ELSE Word(v * k + g)
  BY <1>1 DEF TermValue
<1>8. g \in Nat /\ g <= k
  BY <1>1, <1>5 DEF Fits
<1> HIDE DEF n, k, v, g
<1>9. n * k \in Nat /\ n * k + g \in Nat
  BY <1>2, <1>5, <1>8
<1>10. CASE n > MaxInt
  <2>1. n * 1 <= n * k
    <3>1. 1 * n <= k * n /\ 1 * n = n * 1 /\ k * n = n * k
      BY <1>2, <1>5, TimesOrder
    <3>2. QED
      BY <3>1
  <2>2. n * k + g > MaxInt
    BY <1>2, <1>5, <1>8, <1>9, <1>10, <2>1
  <2>3. v = Bad /\ ~(n * k + g <= MaxInt)
    BY <1>2, <1>5, <1>9, <1>10, <2>2
  <2>4. QED
    BY <1>6, <1>7, <1>9, <2>3
<1>11. CASE n <= MaxInt
  <2>1. v = n /\ n # Bad
    BY <1>2, <1>11 DEF Bad
  <2>2. CASE n > MaxInt \div k
    <3>1. n * k > MaxInt
      BY <1>2, <1>5, <2>2, QuotientBound
    <3>2. ~(n * k + g <= MaxInt)
      BY <1>5, <1>8, <1>9, <3>1
    <3>3. QED
      BY <1>6, <1>7, <1>9, <2>1, <2>2, <3>2
  <2>3. CASE ~(n > MaxInt \div k)
    <3>1. n * k <= MaxInt
      <4>1. ~(n * k > MaxInt)
        BY <1>2, <1>5, <2>3, QuotientBound
      <4>2. QED
        BY <1>5, <1>9, <4>1
    <3> DEFINE x == n * k + g
    <3>2. x \in Nat /\ x <= 2 * MaxInt + 1
      BY <1>5, <1>8, <1>9, <3>1
    <3> HIDE DEF x
    <3>3. Word(x) = IF x <= MaxInt THEN x ELSE x - 2 * (MaxInt + 1)
      BY <3>2, WordOf
    <3>4. (x <= MaxInt => ~(x < 0)) /\ (~(x <= MaxInt) => x - 2 * (MaxInt + 1) < 0)
      BY <1>5, <3>2
    <3>5. TermValue(u) = IF Word(x) < 0 THEN Bad ELSE Word(x)
      BY <1>7, <2>1, <2>3 DEF x
    <3>6. QED
      BY <1>6, <3>2, <3>3, <3>4, <3>5 DEF x
  <2>4. QED
    BY <2>2, <2>3
<1>12. QED
  BY <1>2, <1>5, <1>10, <1>11

\* Every term is a word or Bad.
LEMMA TermTyped ==
  ASSUME NEW u \in CapTerms, Fits(u)
  PROVE  TermValue(u) \in CapResults
<1> DEFINE v == leadingInt(u.int)
           w == UnitSize(u.unit)
           g == FractionBytes(u)
           x == v * w + g
<1>1. u.int \in Seq(CapDigits) /\ u.frac \in Seq(CapDigits)
  BY DEF CapTerms
<1>2. v \in CapResults
  <2>1. PICK h \in [0 .. Len(u.int) -> CapResults] : v = h[Len(u.int)]
    BY <1>1, LeadingSteps
  <2>2. Len(u.int) \in 0 .. Len(u.int)
    BY <1>1
  <2>3. QED
    BY <2>1, <2>2
<1>4. CASE ~GoodTerm(u)
  BY <1>4, TermRefused DEF CapResults
<1>5. CASE GoodTerm(u)
  <2>1. w \in Nat \ {0}
    BY <1>5, UnitSizes DEF GoodTerm
  <2>2. MaxInt \in Nat
    BY WordAssumption
  <2>3. v \in Int /\ g \in Nat
    BY <1>2, <1>5, <2>1, <2>2 DEF CapResults, CapWords, Bad, Fits, GoodTerm
  <2>4. TermValue(u) = Bad \/ (TermValue(u) = Word(x) /\ ~(Word(x) < 0))
    BY DEF TermValue
  <2> HIDE DEF v, g, w
  <2>5. x \in Int
    <3>1. v * w \in Int
      BY <2>1, <2>3
    <3>2. QED
      BY <2>3, <3>1
  <2> HIDE DEF x
  <2>6. Word(x) \in Int /\ Word(x) <= MaxInt
    BY <2>2, <2>5, WordRange
  <2>7. QED
    BY <2>2, <2>4, <2>6 DEF CapResults, CapWords
<1>6. QED
  BY <1>4, <1>5

\* One term more fits, and is then added, or it is refused.
LEMMA TermAdded ==
  ASSUME NEW d \in CapWords, NEW v \in CapWords
  PROVE  AddTerm(d, v) = IF d + v <= MaxInt THEN d + v ELSE Bad
<1> DEFINE x == d + v
<1>1. MaxInt \in Nat /\ d \in Nat /\ v \in Nat /\ d <= MaxInt /\ v <= MaxInt
  BY WordAssumption DEF CapWords
<1>2. x \in Nat /\ x <= 2 * MaxInt + 1 /\ d # Bad /\ v # Bad
  BY <1>1 DEF Bad
<1>3. Word(x) = IF x <= MaxInt THEN x ELSE x - 2 * (MaxInt + 1)
  BY <1>2, WordOf
<1>4. (x <= MaxInt => ~(x < 0)) /\ (~(x <= MaxInt) => x - 2 * (MaxInt + 1) < 0)
  BY <1>1, <1>2
<1>5. QED
  BY <1>2, <1>3, <1>4 DEF AddTerm

\* What is refused stays refused.
LEMMA TermsRefused == \A v : AddTerm(Bad, v) = Bad /\ AddTerm(v, Bad) = Bad
  BY DEF AddTerm

\* A word or Bad stays one.
LEMMA SumTyped ==
  ASSUME NEW d \in CapResults, NEW v \in CapResults
  PROVE  AddTerm(d, v) \in CapResults
<1>1. CASE d = Bad \/ v = Bad
  BY <1>1, TermsRefused DEF CapResults
<1>2. CASE d \in CapWords /\ v \in CapWords
  <2>1. d + v \in Nat
    BY <1>2, WordAssumption DEF CapWords
  <2>2. QED
    BY <1>2, <2>1, TermAdded, WordAssumption DEF CapResults, CapWords
<1>3. QED
  BY <1>1, <1>2 DEF CapResults

\* ParseCapacities, term after term.
LEMMA SumSteps ==
  ASSUME NEW ts \in Seq(CapTerms), \A i \in 1 .. Len(ts) : Fits(ts[i])
  PROVE  \E h \in [0 .. Len(ts) -> CapResults] :
           /\ h[0] = 0
           /\ \A i \in 1 .. Len(ts) : h[i] = AddTerm(h[i - 1], TermValue(ts[i]))
           /\ SumOfTerms(ts) = h[Len(ts)]
<1> DEFINE L == Len(ts)
           F(f) == [i \in 0 .. L |-> IF i = 0 THEN 0 ELSE AddTerm(f[i - 1], TermValue(ts[i]))]
           G == [p \in CapResults \X (1 .. L) |-> AddTerm(p[1], TermValue(ts[p[2]]))]
<1>1. L \in Nat
  OBVIOUS
<1>2. \A q \in CapResults, i \in 1 .. L : AddTerm(q, TermValue(ts[i])) \in CapResults
  <2>1. \A i \in 1 .. L : TermValue(ts[i]) \in CapResults
    BY TermTyped
  <2>2. QED
    BY <2>1, SumTyped
<1>3. 0 \in CapResults
  BY WordAssumption DEF CapResults, CapWords
<1>4. G \in [CapResults \X (1 .. L) -> CapResults]
  BY <1>2
<1>5. \A q \in CapResults, i \in 1 .. L : G[<<q, i>>] = AddTerm(q, TermValue(ts[i]))
  OBVIOUS
<1> HIDE DEF G, L
<1>6. PICK f \in [0 .. L -> CapResults] :
        f[0] = 0 /\ \A i \in 1 .. L : f[i] = G[<<f[i - 1], i>>]
  <2>1. Steps(L, CapResults, 0, G) # {}
    BY <1>1, <1>3, <1>4, Stepwise
  <2>2. QED
    BY <2>1 DEF Steps
<1>7. f = F(f)
  <2>1. ASSUME NEW i \in 0 .. L PROVE f[i] = F(f)[i]
    <3>1. CASE i = 0
      BY <1>6, <3>1
    <3>2. CASE i # 0
      <4>1. i \in 1 .. L /\ i - 1 \in 0 .. L
        BY <1>1, <3>2
      <4>2. QED
        BY <1>5, <1>6, <4>1
    <3>3. QED
      BY <3>1, <3>2
  <2>2. QED
    BY <2>1
<1> DEFINE h == CHOOSE g : g = F(g)
<1>8. SumOfTerms(ts) = h[L]
  BY DEF SumOfTerms, L
<1>9. h = F(h)
  BY <1>7
<1> HIDE DEF h
<1>10. h[0] = 0 /\ \A i \in 1 .. L : h[i] = AddTerm(h[i - 1], TermValue(ts[i]))
  <2>1. h[0] = 0
    BY <1>1, <1>9
  <2>2. ASSUME NEW i \in 1 .. L PROVE h[i] = AddTerm(h[i - 1], TermValue(ts[i]))
    <3>1. i \in 0 .. L /\ i # 0
      BY <1>1
    <3>2. h[i] = F(h)[i]
      BY <1>9, Zenon
    <3>3. F(h)[i] = AddTerm(h[i - 1], TermValue(ts[i]))
      BY <3>1
    <3>4. QED
      BY <3>2, <3>3, Zenon
  <2>3. QED
    BY <2>1, <2>2
<1>11. h \in [0 .. L -> CapResults]
  <2> DEFINE T == {i \in 0 .. L : h[i] \in CapResults}
  <2>1. 0 \in T
    BY <1>1, <1>3, <1>10
  <2>2. ASSUME NEW n \in 0 .. L - 1, n \in T PROVE n + 1 \in T
    <3>1. n + 1 \in 1 .. L /\ (n + 1) - 1 = n /\ h[n] \in CapResults /\ n + 1 \in 0 .. L
      BY <1>1, <2>2
    <3>2. h[n + 1] \in CapResults
      BY <1>2, <1>10, <3>1
    <3>3. QED
      BY <3>1, <3>2
  <2> HIDE DEF T
  <2>3. 0 .. L \subseteq T
    BY <1>1, <2>1, <2>2, UpTo
  <2>4. \A i \in 0 .. L : h[i] \in CapResults
    BY <2>3 DEF T
  <2>5. QED
    BY <1>9, <2>4
<1>12. QED
  BY <1>8, <1>10, <1>11 DEF L

\* The exact sum, term after term.
LEMMA ExactSteps ==
  ASSUME NEW ts \in Seq(CapTerms), \A i \in 1 .. Len(ts) : GoodTerm(ts[i])
  PROVE  \E h \in [0 .. Len(ts) -> Nat] :
           /\ h[0] = 0
           /\ \A i \in 1 .. Len(ts) : h[i] = h[i - 1] + ExactValue(ts[i])
           /\ SumExactly(ts) = h[Len(ts)]
<1> DEFINE L == Len(ts)
           F(f) == [i \in 0 .. L |-> IF i = 0 THEN 0 ELSE f[i - 1] + ExactValue(ts[i])]
           G == [p \in Nat \X (1 .. L) |-> p[1] + ExactValue(ts[p[2]])]
<1>1. L \in Nat
  OBVIOUS
<1>2. \A q \in Nat, i \in 1 .. L : q + ExactValue(ts[i]) \in Nat
  <2>1. \A i \in 1 .. L : ExactValue(ts[i]) \in Nat
    BY ExactTyped
  <2>2. QED
    BY <2>1
<1>3. 0 \in Nat
  OBVIOUS
<1>4. G \in [Nat \X (1 .. L) -> Nat]
  BY <1>2
<1>5. \A q \in Nat, i \in 1 .. L : G[<<q, i>>] = q + ExactValue(ts[i])
  OBVIOUS
<1> HIDE DEF G, L
<1>6. PICK f \in [0 .. L -> Nat] :
        f[0] = 0 /\ \A i \in 1 .. L : f[i] = G[<<f[i - 1], i>>]
  <2>1. Steps(L, Nat, 0, G) # {}
    BY <1>1, <1>3, <1>4, Stepwise
  <2>2. QED
    BY <2>1 DEF Steps
<1>7. f = F(f)
  <2>1. ASSUME NEW i \in 0 .. L PROVE f[i] = F(f)[i]
    <3>1. CASE i = 0
      BY <1>6, <3>1
    <3>2. CASE i # 0
      <4>1. i \in 1 .. L /\ i - 1 \in 0 .. L
        BY <1>1, <3>2
      <4>2. QED
        BY <1>5, <1>6, <4>1
    <3>3. QED
      BY <3>1, <3>2
  <2>2. QED
    BY <2>1
<1> DEFINE h == CHOOSE g : g = F(g)
<1>8. SumExactly(ts) = h[L]
  BY DEF SumExactly, L
<1>9. h = F(h)
  BY <1>7
<1> HIDE DEF h
<1>10. h[0] = 0 /\ \A i \in 1 .. L : h[i] = h[i - 1] + ExactValue(ts[i])
  <2>1. h[0] = 0
    BY <1>1, <1>9
  <2>2. ASSUME NEW i \in 1 .. L PROVE h[i] = h[i - 1] + ExactValue(ts[i])
    <3>1. i \in 0 .. L /\ i # 0
      BY <1>1
    <3>2. h[i] = F(h)[i]
      BY <1>9, Zenon
    <3>3. F(h)[i] = h[i - 1] + ExactValue(ts[i])
      BY <3>1
    <3>4. QED
      BY <3>2, <3>3, Zenon
  <2>3. QED
    BY <2>1, <2>2
<1>11. h \in [0 .. L -> Nat]
  <2> DEFINE T == {i \in 0 .. L : h[i] \in Nat}
  <2>1. 0 \in T
    BY <1>1, <1>3, <1>10
  <2>2. ASSUME NEW n \in 0 .. L - 1, n \in T PROVE n + 1 \in T
    <3>1. n + 1 \in 1 .. L /\ (n + 1) - 1 = n /\ h[n] \in Nat /\ n + 1 \in 0 .. L
      BY <1>1, <2>2
    <3>2. h[n + 1] \in Nat
      BY <1>2, <1>10, <3>1
    <3>3. QED
      BY <3>1, <3>2
  <2> HIDE DEF T
  <2>3. 0 .. L \subseteq T
    BY <1>1, <2>1, <2>2, UpTo
  <2>4. \A i \in 0 .. L : h[i] \in Nat
    BY <2>3 DEF T
  <2>5. QED
    BY <1>9, <2>4
<1>12. QED
  BY <1>8, <1>10, <1>11 DEF L

\* The doubt about the first i terms, if there is doubt about any.
Margin(s, i) == IF s = 0 THEN 0 ELSE i

\* The sum of terms that are all well formed is as close to the exact one as
\* they are, or Bad if it does not fit.
LEMMA SumClose ==
  ASSUME NEW ts \in Seq(CapTerms), NEW s \in {0, 1},
         \A i \in 1 .. Len(ts) : GoodTerm(ts[i]) /\ Close(ts[i]) /\ Doubt(ts[i]) <= s
  PROVE  LET d == SumOfTerms(ts)
             x == SumExactly(ts)
             e == Margin(s, Len(ts))
         IN  /\ x \in Nat /\ d \in CapResults
             /\ IF d = Bad THEN x + e > MaxInt ELSE d - x \in -e .. e
<1> DEFINE L == Len(ts)
<1>1. L \in Nat /\ \A i \in 1 .. L : ts[i] \in CapTerms
  OBVIOUS
<1>2. PICK n \in [0 .. L -> Nat] :
        n[0] = 0 /\ (\A i \in 1 .. L : n[i] = n[i - 1] + ExactValue(ts[i])) /\ SumExactly(ts) = n[L]
  BY ExactSteps
<1>3. PICK h \in [0 .. L -> CapResults] :
        /\ h[0] = 0 /\ \A i \in 1 .. L : h[i] = AddTerm(h[i - 1], TermValue(ts[i]))
        /\ SumOfTerms(ts) = h[L]
  BY SumSteps DEF Close
<1>4. ASSUME NEW i \in 1 .. L
      PROVE  /\ ExactValue(ts[i]) \in Nat /\ RoundedValue(ts[i]) \in Nat
             /\ RoundedValue(ts[i]) - ExactValue(ts[i]) \in -s .. s
             /\ TermValue(ts[i]) =
                  IF RoundedValue(ts[i]) <= MaxInt THEN RoundedValue(ts[i]) ELSE Bad
  <2> DEFINE u == ts[i]
             a == Number(u.int) * UnitSize(u.unit)
             b == FractionBytes(u)
             c == ExactFraction(u)
             q == Doubt(u)
  <2>1. u \in CapTerms /\ GoodTerm(u) /\ Close(u) /\ q <= s
    BY <1>1
  <2>2. /\ RoundedValue(u) \in Nat
        /\ TermValue(u) = IF RoundedValue(u) <= MaxInt THEN RoundedValue(u) ELSE Bad
    BY <2>1, TermRounded DEF Close
  <2>3. ExactValue(u) \in Nat /\ c \in Nat
    BY <2>1, ExactTyped
  <2>4. RoundedValue(u) = a + b /\ ExactValue(u) = a + c
    BY DEF RoundedValue, ExactValue
  <2>5. b \in Nat /\ b - c \in -q .. q /\ q \in {0, 1}
    <3>1. u.unit \in 1 .. UnitCount
      BY <2>1 DEF GoodTerm
    <3>2. UnitSize(u.unit) \in Nat
      BY <3>1, UnitSizes
    <3>3. QED
      BY <2>1, <3>1, <3>2 DEF Close, Fits, Doubt
  <2>6. a \in Nat
    <3>1. u.unit \in 1 .. UnitCount /\ u.int \in Seq(CapDigits)
      BY <2>1 DEF GoodTerm, CapTerms
    <3>2. UnitSize(u.unit) \in Nat /\ Number(u.int) \in Nat
      BY <3>1, UnitSizes, LeadingExact
    <3> DEFINE k == UnitSize(u.unit)
               m == Number(u.int)
    <3>3. k \in Nat /\ m \in Nat /\ a = m * k
      BY <3>2
    <3> HIDE DEF k, m, a
    <3>4. QED
      BY <3>3
  <2> DEFINE y == RoundedValue(u)
             x == ExactValue(u)
  <2>7. y = a + b /\ x = a + c
    BY <2>4
  <2> HIDE DEF a, b, c, q, y, x
  <2>8. y - x \in -s .. s
    BY <2>1, <2>3, <2>5, <2>6, <2>7
  <2>9. QED
    BY <2>2, <2>3, <2>8 DEF x, y
<1> HIDE DEF L
<1>5. MaxInt \in Nat
  BY WordAssumption
<1> DEFINE T == {i \in 0 .. L : IF h[i] = Bad THEN n[i] + Margin(s, i) > MaxInt
                                ELSE h[i] - n[i] \in -Margin(s, i) .. Margin(s, i)}
<1>6. 0 \in T
  <2>1. h[0] = 0 /\ n[0] = 0 /\ Margin(s, 0) = 0 /\ 0 \in 0 .. L
    BY <1>1, <1>2, <1>3 DEF Margin
  <2>2. QED
    BY <2>1 DEF Bad
<1>7. ASSUME NEW i \in 0 .. L - 1, i \in T PROVE i + 1 \in T
  <2> DEFINE v == TermValue(ts[i + 1])
             x == ExactValue(ts[i + 1])
             y == RoundedValue(ts[i + 1])
             m == n[i]
             d == h[i]
             e == Margin(s, i)
  <2>1. i \in 0 .. L /\ i + 1 \in 0 .. L /\ i + 1 \in 1 .. L /\ (i + 1) - 1 = i
    BY <1>1
  <2>2. x \in Nat /\ y \in Nat /\ y - x \in -s .. s /\ v = IF y <= MaxInt THEN y ELSE Bad
    BY <1>4, <2>1
  <2>3. m \in Nat /\ n[i + 1] = m + x /\ h[i + 1] = AddTerm(d, v) /\ d \in CapResults
    BY <1>2, <1>3, <2>1
  <2>4. IF d = Bad THEN m + e > MaxInt ELSE d - m \in -e .. e
    BY <1>7
  <2>5. e \in Nat /\ Margin(s, i + 1) = e + s
    BY <2>1 DEF Margin
  <2> HIDE DEF v, x, y, m, d, e
  <2>6. CASE d = Bad
    <3>1. h[i + 1] = Bad
      BY <2>3, <2>6, TermsRefused
    <3>2. (m + x) + (e + s) > MaxInt
      BY <1>5, <2>2, <2>3, <2>4, <2>5, <2>6
    <3>3. QED
      BY <2>1, <2>3, <2>5, <3>1, <3>2
  <2>7. CASE v = Bad
    <3>1. h[i + 1] = Bad
      BY <2>3, <2>7, TermsRefused
    <3>2. y > MaxInt
      BY <1>5, <2>2, <2>7 DEF Bad
    <3>3. (m + x) + (e + s) > MaxInt
      BY <1>5, <2>2, <2>3, <2>5, <3>2
    <3>4. QED
      BY <2>1, <2>3, <2>5, <3>1, <3>3
  <2>8. CASE d # Bad /\ v # Bad
    <3>1. d \in Nat /\ d \in CapWords /\ v = y /\ v \in CapWords
      BY <1>5, <2>2, <2>3, <2>8 DEF CapResults, CapWords
    <3>2. AddTerm(d, v) = IF d + v <= MaxInt THEN d + v ELSE Bad
      BY <3>1, TermAdded
    <3>3. d - m \in -e .. e
      BY <2>4, <2>8
    <3>4. CASE d + v <= MaxInt
      <4>1. h[i + 1] = d + y /\ d + y # Bad
        BY <2>2, <2>3, <3>1, <3>2, <3>4 DEF Bad
      <4>2. (d + y) - (m + x) \in -(e + s) .. e + s
        BY <2>2, <2>3, <2>5, <3>1, <3>3
      <4>3. QED
        BY <2>1, <2>3, <2>5, <4>1, <4>2
    <3>5. CASE ~(d + v <= MaxInt)
      <4>1. h[i + 1] = Bad
        BY <2>3, <3>2, <3>5
      <4>2. (m + x) + (e + s) > MaxInt
        BY <1>5, <2>2, <2>3, <2>5, <3>1, <3>3, <3>5
      <4>3. QED
        BY <2>1, <2>3, <2>5, <4>1, <4>2
    <3>6. QED
      BY <3>4, <3>5
  <2>9. QED
    BY <2>6, <2>7, <2>8
<1> HIDE DEF T
<1>8. L \in T
  <2>1. 0 .. L \subseteq T
    BY <1>1, <1>6, <1>7, UpTo
  <2>2. QED
    BY <1>1, <2>1
<1>9. IF h[L] = Bad THEN n[L] + Margin(s, L) > MaxInt
      ELSE h[L] - n[L] \in -Margin(s, L) .. Margin(s, L)
  BY <1>8 DEF T
<1>10. n[L] \in Nat /\ h[L] \in CapResults
  BY <1>1
<1>11. QED
  BY <1>2, <1>3, <1>9, <1>10 DEF L

\* One term that is not well formed is enough to refuse the text.
LEMMA SumRefused ==
  ASSUME NEW ts \in Seq(CapTerms), \A i \in 1 .. Len(ts) : Fits(ts[i]),
         NEW j \in 1 .. Len(ts), ~GoodTerm(ts[j])
  PROVE  SumOfTerms(ts) = Bad
<1> DEFINE L == Len(ts)
<1>1. L \in Nat /\ j \in 1 .. L /\ ts[j] \in CapTerms
  OBVIOUS
<1>2. PICK h \in [0 .. L -> CapResults] :
        /\ h[0] = 0 /\ \A i \in 1 .. L : h[i] = AddTerm(h[i - 1], TermValue(ts[i]))
        /\ SumOfTerms(ts) = h[L]
  BY SumSteps
<1>3. TermValue(ts[j]) = Bad
  BY <1>1, TermRefused
<1> HIDE DEF L
<1> DEFINE T == {i \in 0 .. L : i >= j => h[i] = Bad}
<1>4. 0 \in T
  BY <1>1
<1>5. ASSUME NEW i \in 0 .. L - 1, i \in T PROVE i + 1 \in T
  <2>1. i \in 0 .. L /\ i + 1 \in 0 .. L /\ i + 1 \in 1 .. L /\ (i + 1) - 1 = i
    BY <1>1
  <2>2. h[i + 1] = AddTerm(h[i], TermValue(ts[i + 1]))
    BY <1>2, <2>1
  <2>3. CASE i + 1 = j
    <3>1. h[i + 1] = Bad
      BY <1>3, <2>2, <2>3, TermsRefused
    <3>2. QED
      BY <2>1, <3>1
  <2>4. CASE i >= j
    <3>1. h[i + 1] = Bad
      BY <1>5, <2>2, <2>4, TermsRefused
    <3>2. QED
      BY <2>1, <3>1
  <2>5. CASE i + 1 < j
    BY <1>1, <2>1, <2>5
  <2>6. QED
    BY <1>1, <2>3, <2>4, <2>5
<1> HIDE DEF T
<1>6. L \in T
  <2>1. 0 .. L \subseteq T
    BY <1>1, <1>4, <1>5, UpTo
  <2>2. QED
    BY <1>1, <2>1
<1>7. h[L] = Bad
  BY <1>1, <1>6 DEF T
<1>8. QED
  BY <1>2, <1>7

\* A text whose fractions are close to the exact ones, and one whose fractions
\* lose no byte to leadingFraction.
TextClose(t) == IsText(t) /\ \A i \in 1 .. Len(t.terms) : Close(t.terms[i])
TextKept(t) == \A i \in DOMAIN t.terms : FractionKept(t.terms[i])

\* What ParseFaithful says of a text and what became of it.
Faithful(t, ok, val) ==
  LET m == Magnitude(val)
  IN  IF ok
      THEN /\ WellFormed(t) /\ m <= MaxInt
           /\ m - Denotes(t) \in -Slack(t) .. Slack(t)
           /\ val = IF t.neg THEN -m ELSE m
      ELSE val = 0 /\ (WellFormed(t) => Denotes(t) + Slack(t) > MaxInt)

\* What ParseCapacities makes of a text.
LEMMA TextParsed ==
  ASSUME NEW t, TextClose(t)
  PROVE  /\ ParseCapacities(t).ok \in BOOLEAN
         /\ Faithful(t, ParseCapacities(t).ok, ParseCapacities(t).val)
<1> DEFINE ts == t.terms
           d == SumOfTerms(ts)
           p == ParseCapacities(t)
<1>1. /\ ts \in Seq(CapTerms) /\ t.neg \in BOOLEAN /\ t.zero \in BOOLEAN
      /\ t.zero => ts = <<>>
      /\ \A i \in 1 .. Len(ts) : Close(ts[i])
  BY DEF TextClose, IsText
<1>2. DOMAIN ts = 1 .. Len(ts) /\ Len(ts) \in Nat /\ (ts = <<>> => Len(ts) = 0)
  BY <1>1
<1>3. CASE t.zero
  <2>1. p.ok = TRUE /\ p.val = 0
    BY <1>3 DEF ParseCapacities
  <2>2. PICK n \in [0 .. Len(ts) -> Nat] :
          /\ n[0] = 0 /\ \A i \in 1 .. Len(ts) : n[i] = n[i - 1] + ExactValue(ts[i])
          /\ SumExactly(ts) = n[Len(ts)]
    <3>1. \A i \in 1 .. Len(ts) : GoodTerm(ts[i])
      BY <1>1, <1>2, <1>3
    <3>2. QED
      BY <1>1, <3>1, ExactSteps
  <2>3. Denotes(t) = 0 /\ Slack(t) = 0
    BY <1>1, <1>2, <1>3, <2>2 DEF Denotes, Slack
  <2>4. Magnitude(0) = 0 /\ -0 = 0 /\ 0 - 0 \in -0 .. 0 /\ 0 <= MaxInt
    <3>1. -0 = 0 /\ 0 - 0 \in -0 .. 0
      OBVIOUS
    <3>2. Magnitude(0) = 0
      BY DEF Magnitude
    <3>3. 0 <= MaxInt
      BY WordAssumption
    <3>4. QED
      BY <3>1, <3>2, <3>3
  <2>5. QED
    BY <1>3, <2>1, <2>3, <2>4 DEF Faithful, WellFormed
<1>4. CASE ~t.zero /\ ts = <<>>
  <2>1. p.ok = FALSE /\ p.val = 0
    BY <1>4 DEF ParseCapacities
  <2>2. ~WellFormed(t)
    BY <1>4 DEF WellFormed
  <2>3. QED
    BY <2>1, <2>2 DEF Faithful
<1>5. CASE ~t.zero /\ ts # <<>> /\ \E j \in 1 .. Len(ts) : ~GoodTerm(ts[j])
  <2>1. d = Bad
    <3>1. \A i \in 1 .. Len(ts) : Fits(ts[i])
      BY <1>1 DEF Close
    <3>2. QED
      BY <1>1, <1>5, <3>1, SumRefused
  <2>2. p.ok = FALSE /\ p.val = 0
    BY <1>5, <2>1 DEF ParseCapacities
  <2>3. ~WellFormed(t)
    BY <1>2, <1>5 DEF WellFormed
  <2>4. QED
    BY <2>2, <2>3 DEF Faithful
<1>6. CASE ~t.zero /\ ts # <<>> /\ \A j \in 1 .. Len(ts) : GoodTerm(ts[j])
  <2> DEFINE x == SumExactly(ts)
             s == IF \E i \in DOMAIN ts : ts[i].frac # <<>> THEN 1 ELSE 0
             e == Slack(t)
  <2>1. e = Margin(s, Len(ts)) /\ s \in {0, 1}
    BY DEF Slack, Margin
  <2>2. \A i \in 1 .. Len(ts) : Doubt(ts[i]) <= s
    BY <1>2 DEF Doubt
  <2> HIDE DEF s
  <2>3. /\ x \in Nat /\ d \in CapResults
        /\ IF d = Bad THEN x + e > MaxInt ELSE d - x \in -e .. e
    BY <1>1, <1>6, <2>1, <2>2, SumClose
  <2>4. WellFormed(t) /\ Denotes(t) = x
    BY <1>2, <1>6 DEF WellFormed, Denotes
  <2>5. p = IF d = Bad THEN [ok |-> FALSE, val |-> 0]
            ELSE [ok |-> TRUE, val |-> IF t.neg THEN -d ELSE d]
    BY <1>6 DEF ParseCapacities
  <2> HIDE DEF x, d, p, e
  <2>6. CASE d = Bad
    <3>1. p.ok = FALSE /\ p.val = 0
      BY <2>5, <2>6
    <3>2. x + e > MaxInt
      BY <2>3, <2>6
    <3>3. QED
      BY <2>4, <3>1, <3>2 DEF Faithful, p, e
  <2>7. CASE d # Bad
    <3>1. p.ok = TRUE /\ p.val = IF t.neg THEN -d ELSE d
      BY <2>5, <2>7
    <3>2. d \in Nat /\ d <= MaxInt /\ d - x \in -e .. e
      BY <2>3, <2>7, WordAssumption DEF CapResults, CapWords
    <3>3. Magnitude(p.val) = d
      BY <3>1, <3>2 DEF Magnitude
    <3>4. QED
      BY <2>4, <3>1, <3>2, <3>3 DEF Faithful, p, e
  <2>8. QED
    BY <2>6, <2>7
<1>7. QED
  BY <1>1, <1>3, <1>4, <1>5, <1>6

\* Tables of the decimal digits of the numbers up to n.
Numerals(n) ==
  {f \in [0 .. n -> Seq(CapDigits)] :
     \A v \in 0 .. n : f[v] = IF v < 10 THEN <<v>> ELSE Append(f[v \div 10], v % 10)}

\* There is such a table.
LEMMA NumeralsExist ==
  ASSUME NEW m \in Nat
  PROVE  Numerals(m) # {}
<1> DEFINE T == {n \in 0 .. m : Numerals(n) # {}}
<1>1. 0 \in T
  <2>1. [v \in 0 .. 0 |-> <<0>>] \in Numerals(0)
    BY DEF Numerals, CapDigits
  <2>2. QED
    BY <2>1
<1>2. ASSUME NEW n \in 0 .. m - 1, n \in T PROVE n + 1 \in T
  <2>1. PICK f \in Numerals(n) : TRUE
    BY <1>2
  <2>2. /\ f \in [0 .. n -> Seq(CapDigits)]
        /\ \A v \in 0 .. n : f[v] = IF v < 10 THEN <<v>> ELSE Append(f[v \div 10], v % 10)
    BY DEF Numerals
  <2> DEFINE w == n + 1
             e == IF w < 10 THEN <<w>> ELSE Append(f[w \div 10], w % 10)
             g == [v \in 0 .. w |-> IF v = w THEN e ELSE f[v]]
  <2>3. w \in Nat /\ (~(w < 10) => w \div 10 \in 0 .. n /\ w % 10 \in CapDigits)
        /\ (w < 10 => w \in CapDigits)
    BY DEF CapDigits
  <2>4. e \in Seq(CapDigits)
    BY <2>2, <2>3
  <2>5. g \in [0 .. w -> Seq(CapDigits)]
    BY <2>2, <2>4
  <2> HIDE DEF e
  <2>6. ASSUME NEW v \in 0 .. w
        PROVE  g[v] = IF v < 10 THEN <<v>> ELSE Append(g[v \div 10], v % 10)
    <3>1. ~(v < 10) => v \div 10 \in 0 .. w /\ v \div 10 # w
      OBVIOUS
    <3>2. ~(v < 10) => g[v \div 10] = f[v \div 10]
      BY <3>1
    <3>3. CASE v = w
      <4>1. g[v] = e
        BY <3>3
      <4>2. QED
        BY <3>2, <3>3, <4>1 DEF e
    <3>4. CASE v # w
      <4>1. v \in 0 .. n /\ g[v] = f[v]
        BY <3>4
      <4>2. QED
        BY <2>2, <3>2, <4>1
    <3>5. QED
      BY <3>3, <3>4
  <2> HIDE DEF g
  <2>7. g \in Numerals(w)
    BY <2>5, <2>6 DEF Numerals
  <2>8. QED
    BY <2>7
<1> HIDE DEF T
<1>3. 0 .. m \subseteq T
  BY <1>1, <1>2, UpTo
<1>4. QED
  BY <1>3 DEF T

\* fmtInt reads off such a table.
LEMMA FmtTable ==
  \E d \in Numerals(Base - 1) : \A v \in 0 .. Base - 1 : fmtInt(v) = d[v]
<1> DEFINE m == Base - 1
           F(f) == [v \in 0 .. m |-> IF v < 10 THEN <<v>> ELSE Append(f[v \div 10], v % 10)]
           h == CHOOSE f : f = F(f)
<1>1. m \in Nat
  BY WordAssumption
<1>2. \A v : fmtInt(v) = h[v]
  BY DEF fmtInt
<1> HIDE DEF m
<1>3. PICK f \in Numerals(m) : TRUE
  BY <1>1, NumeralsExist
<1>4. /\ f \in [0 .. m -> Seq(CapDigits)]
      /\ \A v \in 0 .. m : f[v] = IF v < 10 THEN <<v>> ELSE Append(f[v \div 10], v % 10)
  BY DEF Numerals
<1>5. f = F(f)
  BY <1>4
<1>6. h = F(h)
  BY <1>5
<1> HIDE DEF h
<1>7. \A v \in 0 .. m : h[v] = IF v < 10 THEN <<v>> ELSE Append(h[v \div 10], v % 10)
  <2>1. ASSUME NEW v \in 0 .. m
        PROVE  h[v] = IF v < 10 THEN <<v>> ELSE Append(h[v \div 10], v % 10)
    <3>1. h[v] = F(h)[v]
      BY <1>6, Zenon
    <3>2. F(h)[v] = IF v < 10 THEN <<v>> ELSE Append(h[v \div 10], v % 10)
      OBVIOUS
    <3>3. QED
      BY <3>1, <3>2, Zenon
  <2>2. QED
    BY <2>1
\* Such a table is unique, as the first difference shows.
<1>8. \A v \in 0 .. m : h[v] = f[v]
  <2> DEFINE U == {v \in 0 .. m : h[v] # f[v]}
  <2> SUFFICES ASSUME U # {} PROVE FALSE
    OBVIOUS
  <2>1. U \subseteq Nat
    BY <1>1
  <2>2. PICK v \in U : \A k \in U : v <= k
    BY <2>1, LeastNatural
  <2>3. v \in 0 .. m /\ h[v] # f[v]
    OBVIOUS
  <2>4. CASE v < 10
    BY <1>4, <1>7, <2>3, <2>4
  <2>5. CASE ~(v < 10)
    <3>1. v \div 10 \in 0 .. m /\ ~(v <= v \div 10)
      BY <1>1, <2>3, <2>5
    <3>2. h[v \div 10] = f[v \div 10]
      BY <2>2, <3>1
    <3>3. QED
      BY <1>4, <1>7, <2>3, <2>5, <3>2
  <2>6. QED
    BY <2>4, <2>5
<1>9. \A v \in 0 .. m : fmtInt(v) = f[v]
  BY <1>2, <1>8
<1>10. QED
  BY <1>3, <1>9 DEF m

\* One digit more at the end of a number.
LEMMA NumberAppend ==
  ASSUME NEW s \in Seq(CapDigits), NEW c \in CapDigits
  PROVE  Number(Append(s, c)) = Number(s) * 10 + c
<1> DEFINE t == Append(s, c)
           L == Len(s)
<1>1. /\ t \in Seq(CapDigits) /\ L \in Nat /\ Len(t) = L + 1 /\ t[L + 1] = c
      /\ \A i \in 1 .. L : t[i] = s[i]
  OBVIOUS
<1> HIDE DEF t
<1>2. PICK n \in [0 .. L -> Nat] :
        n[0] = 0 /\ (\A i \in 1 .. L : n[i] = n[i - 1] * 10 + s[i]) /\ Number(s) = n[L]
  BY NumberSteps
<1>3. PICK o \in [0 .. L + 1 -> Nat] :
        /\ o[0] = 0 /\ \A i \in 1 .. L + 1 : o[i] = o[i - 1] * 10 + t[i]
        /\ Number(t) = o[L + 1]
  <2>1. \E o \in [0 .. Len(t) -> Nat] :
          /\ o[0] = 0 /\ \A i \in 1 .. Len(t) : o[i] = o[i - 1] * 10 + t[i]
          /\ Number(t) = o[Len(t)]
    BY <1>1, NumberSteps
  <2>2. QED
    BY <1>1, <2>1
<1> HIDE DEF L
<1> DEFINE T == {i \in 0 .. L : n[i] = o[i]}
<1>4. 0 \in T
  BY <1>1, <1>2, <1>3
<1>5. ASSUME NEW i \in 0 .. L - 1, i \in T PROVE i + 1 \in T
  <2>1. i + 1 \in 0 .. L /\ i + 1 \in 1 .. L /\ i + 1 \in 1 .. L + 1 /\ (i + 1) - 1 = i
    BY <1>1
  <2>2. n[i + 1] = n[i] * 10 + s[i + 1] /\ o[i + 1] = o[i] * 10 + t[i + 1]
    BY <1>2, <1>3, <2>1
  <2>3. n[i] = o[i] /\ s[i + 1] = t[i + 1]
    BY <1>1, <1>5, <2>1
  <2>4. QED
    BY <2>1, <2>2, <2>3
<1> HIDE DEF T
<1>6. L \in T
  <2>1. 0 .. L \subseteq T
    BY <1>1, <1>4, <1>5, UpTo
  <2>2. QED
    BY <1>1, <2>1
<1>7. n[L] = o[L]
  BY <1>6 DEF T
<1>8. o[L + 1] = o[L] * 10 + c
  <2>1. L + 1 \in 1 .. L + 1 /\ (L + 1) - 1 = L
    BY <1>1
  <2>2. QED
    BY <1>1, <1>3, <2>1
<1>9. QED
  BY <1>2, <1>3, <1>7, <1>8 DEF t

\* No digits are worth 0, and one digit itself.
LEMMA NumberShort ==
  /\ Number(<<>>) = 0
  /\ \A c \in CapDigits : Number(<<c>>) = c
<1>1. <<>> \in Seq(CapDigits) /\ Len(<<>>) = 0
  OBVIOUS
<1>2. Number(<<>>) = 0
  <2>1. PICK n \in [0 .. Len(<<>>) -> Nat] :
          /\ n[0] = 0 /\ \A i \in 1 .. Len(<<>>) : n[i] = n[i - 1] * 10 + <<>>[i]
          /\ Number(<<>>) = n[Len(<<>>)]
    BY <1>1, NumberSteps
  <2>2. QED
    BY <1>1, <2>1
<1>3. ASSUME NEW c \in CapDigits PROVE Number(<<c>>) = c
  <2>1. Number(Append(<<>>, c)) = Number(<<>>) * 10 + c
    BY <1>1, NumberAppend
  <2>2. Append(<<>>, c) = <<c>> /\ 0 * 10 + c = c
    BY DEF CapDigits
  <2>3. QED
    BY <1>2, <2>1, <2>2
<1>4. QED
  BY <1>2, <1>3

\* What fmtInt writes are digits that are worth the number.
LEMMA FmtBack ==
  ASSUME NEW v \in 0 .. Base - 1
  PROVE  /\ fmtInt(v) \in Seq(CapDigits) /\ fmtInt(v) # <<>>
         /\ Number(fmtInt(v)) = v
<1> DEFINE m == Base - 1
<1>1. m \in Nat /\ v \in 0 .. m
  BY WordAssumption
<1>2. PICK d \in Numerals(m) : \A w \in 0 .. m : fmtInt(w) = d[w]
  BY FmtTable
<1>3. /\ d \in [0 .. m -> Seq(CapDigits)]
      /\ \A w \in 0 .. m : d[w] = IF w < 10 THEN <<w>> ELSE Append(d[w \div 10], w % 10)
  BY DEF Numerals
<1> HIDE DEF m
<1>4. \A w \in 0 .. m : Number(d[w]) = w
  <2> DEFINE U == {w \in 0 .. m : Number(d[w]) # w}
  <2> SUFFICES ASSUME U # {} PROVE FALSE
    OBVIOUS
  <2>1. U \subseteq Nat
    BY <1>1
  <2>2. PICK w \in U : \A k \in U : w <= k
    BY <2>1, LeastNatural
  <2>3. w \in 0 .. m /\ Number(d[w]) # w /\ w \in Nat
    BY <1>1
  <2>4. CASE w < 10
    <3>1. w \in CapDigits /\ d[w] = <<w>>
      BY <1>3, <2>3, <2>4 DEF CapDigits
    <3>2. QED
      BY <2>3, <3>1, NumberShort
  <2>5. CASE ~(w < 10)
    <3> DEFINE q == w \div 10
               r == w % 10
    <3>1. q \in 0 .. m /\ ~(w <= q) /\ r \in CapDigits /\ q * 10 + r = w
      BY <1>1, <2>3, <2>5 DEF CapDigits
    <3>2. d[w] = Append(d[q], r) /\ d[q] \in Seq(CapDigits)
      BY <1>3, <2>3, <2>5, <3>1
    <3> HIDE DEF q, r
    <3>3. Number(d[q]) = q
      BY <2>2, <3>1
    <3>4. Number(Append(d[q], r)) = Number(d[q]) * 10 + r
      BY <3>1, <3>2, NumberAppend
    <3>5. QED
      BY <2>3, <3>1, <3>2, <3>3, <3>4
  <2>6. QED
    BY <2>4, <2>5
<1>5. d[v] \in Seq(CapDigits) /\ d[v] # <<>>
  <2>1. CASE v < 10
    BY <1>1, <1>3, <2>1
  <2>2. CASE ~(v < 10)
    <3> DEFINE q == v \div 10
               r == v % 10
    <3>1. q \in 0 .. m /\ r \in CapDigits
      BY <1>1, <2>2 DEF CapDigits
    <3>2. d[v] = Append(d[q], r) /\ d[q] \in Seq(CapDigits)
      BY <1>1, <1>3, <2>2, <3>1
    <3> DEFINE e == d[q]
    <3> HIDE DEF q, r, e
    <3>3. e \in Seq(CapDigits)
      BY <3>2 DEF e
    <3>4. Append(e, r) \in Seq(CapDigits) /\ Len(Append(e, r)) = Len(e) + 1 /\ Len(e) \in Nat
      BY <3>1, <3>3
    <3>5. Append(e, r) # <<>>
      BY <3>4
    <3>6. QED
      BY <3>2, <3>4, <3>5 DEF e
  <2>3. QED
    BY <2>1, <2>2
<1>6. QED
  BY <1>1, <1>2, <1>4, <1>5

\* Dividing twice is dividing once by the product.
LEMMA DivDiv ==
  ASSUME NEW m \in Nat, NEW u \in Nat \ {0}, NEW b \in Nat \ {0}
  PROVE  (m \div u) \div b = m \div (u * b)
<1> DEFINE a == m \div u
           r == m % u
           q == a \div b
           s == a % b
<1>1. a \in Nat /\ r \in 0 .. u - 1 /\ m = a * u + r
  BY DivOf
<1> HIDE DEF a, r
<1>2. q \in Nat /\ s \in 0 .. b - 1 /\ a = q * b + s
  BY <1>1, DivOf
<1> HIDE DEF q, s
<1> DEFINE w == u * b
           x == s * u
<1>3. w \in Nat \ {0} /\ w = b * u
  OBVIOUS
<1>4. x \in Nat /\ x <= (b - 1) * u
  <2>1. s \in Nat /\ b - 1 \in Nat /\ s <= b - 1 /\ u \in Nat
    BY <1>2
  <2>2. QED
    BY <2>1, TimesOrder
<1>5. (b - 1) * u = b * u - u
  OBVIOUS
<1>6. m = q * w + (x + r)
  <2>1. a * u = (q * b) * u + s * u
    BY <1>1, <1>2
  <2>2. (q * b) * u = q * (u * b)
    BY <1>2
  <2>3. q * (u * b) \in Nat
    BY <1>2
  <2>4. QED
    BY <1>1, <1>4, <2>1, <2>2, <2>3
<1>7. x + r \in 0 .. w - 1
  <2> HIDE DEF x, w
  <2>1. x <= w - u
    BY <1>3, <1>4, <1>5
  <2>2. QED
    BY <1>1, <1>3, <1>4, <2>1
<1> HIDE DEF x, w
<1>8. m \div w = q
  <2> DEFINE y == x + r
  <2>1. y \in 0 .. w - 1 /\ m = q * w + y
    BY <1>6, <1>7
  <2> HIDE DEF y
  <2>2. QED
    BY <1>2, <1>3, <2>1, DivIs
<1>9. QED
  BY <1>8 DEF a, q, w

\* What String shows for one unit.
LEMMA DigitRange ==
  ASSUME NEW c \in Int, NEW k \in 1 .. UnitCount
  PROVE  /\ Magnitude(c) \in Nat
         /\ DigitAt(c, k) \in 0 .. Base - 1
         /\ DigitAt(c, k) = (Magnitude(c) \div UnitSize(k)) % Base
<1> DEFINE m == Magnitude(c)
           u == UnitSize(k)
<1>1. m \in Nat
  BY DEF Magnitude
<1>2. u \in Nat \ {0}
  BY UnitSizes
<1>3. DigitAt(c, k) = (m \div u) % Base
  BY DEF DigitAt
<1> HIDE DEF m, u
<1>4. m \div u \in Nat
  BY <1>1, <1>2, DivOf
<1>5. Base \in Nat \ {0}
  BY WordAssumption
<1> DEFINE a == m \div u
<1>6. a \in Nat
  BY <1>4
<1> HIDE DEF a
<1>7. a % Base \in 0 .. Base - 1
  BY <1>5, <1>6, DivOf
<1>8. QED
  BY <1>1, <1>3, <1>7 DEF a, m, u

ShownTerm(c, k) == [int |-> fmtInt(DigitAt(c, k)), frac |-> <<>>, unit |-> k]

\* Its term is well formed and denotes that many of the unit.
LEMMA ShownExact ==
  ASSUME NEW c \in Int, NEW k \in 1 .. UnitCount
  PROVE  /\ ShownTerm(c, k) \in CapTerms
         /\ GoodTerm(ShownTerm(c, k)) /\ Close(ShownTerm(c, k)) /\ ShownTerm(c, k).frac = <<>>
         /\ ExactValue(ShownTerm(c, k)) = DigitAt(c, k) * UnitSize(k)
<1> DEFINE t == ShownTerm(c, k)
           ds == fmtInt(DigitAt(c, k))
           n == DigitAt(c, k)
           u == UnitSize(k)
<1>1. ds \in Seq(CapDigits) /\ ds # <<>> /\ Number(ds) = n /\ n \in Nat
  <2>1. n \in 0 .. Base - 1
    BY DigitRange
  <2>2. QED
    BY <2>1, FmtBack, WordAssumption
<1>2. t.int = ds /\ t.frac = <<>> /\ t.unit = k
  BY DEF ShownTerm
<1>3. u \in Nat \ {0}
  BY UnitSizes
<1>4. k \in 0 .. UnitCount + 1 /\ MaxInt \in Nat
  BY WordAssumption
<1>5. <<>> \in Seq(CapDigits) /\ Len(<<>>) = 0
  OBVIOUS
<1>6. t \in CapTerms
  BY <1>1, <1>4, <1>5 DEF ShownTerm, CapTerms
<1>7. Close(t) /\ GoodTerm(t)
  BY <1>1, <1>2, <1>6, NoFraction DEF GoodTerm
<1>8. ExactValue(t) = n * u + ExactFraction(t)
  BY <1>1, <1>2 DEF ExactValue
<1>9. ExactFraction(t) = 0
  BY <1>2, <1>6, NoFraction
<1> HIDE DEF n, u
<1>10. n * u \in Nat
  BY <1>1, <1>3
<1>11. QED
  BY <1>2, <1>6, <1>7, <1>8, <1>9, <1>10 DEF n, u

\* Terms as String writes them.
IsFine(u) == GoodTerm(u) /\ Close(u) /\ u.frac = <<>>
Fine(ts) == \A i \in 1 .. Len(ts) : IsFine(ts[i])

\* The terms of some units are such terms.
LEMMA TermsFine ==
  ASSUME NEW c \in Int, NEW q \in Seq(1 .. UnitCount)
  PROVE  /\ TermsFor(c, q) \in Seq(CapTerms) /\ Fine(TermsFor(c, q))
         /\ Len(TermsFor(c, q)) = Len(q)
         /\ \A i \in 1 .. Len(q) : TermsFor(c, q)[i] = ShownTerm(c, q[i])
<1> DEFINE U == 1 .. UnitCount
           L == Len(q)
           f == [i \in 1 .. L |-> ShownTerm(c, q[i])]
<1>0. q \in Seq(U)
  OBVIOUS
<1> HIDE DEF U
<1>1. L \in Nat /\ DOMAIN q = 1 .. L /\ \A i \in 1 .. L : q[i] \in U
  BY <1>0
<1>2. TermsFor(c, q) = f
  BY <1>1 DEF TermsFor, ShownTerm
<1> HIDE DEF L
<1>3. \A i \in 1 .. L : /\ f[i] = ShownTerm(c, q[i]) /\ f[i] \in CapTerms
                         /\ IsFine(f[i])
  <2>1. ASSUME NEW i \in 1 .. L
        PROVE  /\ f[i] = ShownTerm(c, q[i]) /\ f[i] \in CapTerms
               /\ IsFine(f[i])
    <3> DEFINE k == q[i]
    <3>1. k \in 1 .. UnitCount /\ f[i] = ShownTerm(c, k)
      BY <1>1 DEF U
    <3> HIDE DEF k
    <3>2. QED
      BY <3>1, ShownExact DEF k, IsFine
  <2>2. QED
    BY <2>1
<1>4. f \in [1 .. L -> CapTerms]
  BY <1>3
<1> HIDE DEF f
<1>5. f \in Seq(CapTerms) /\ Len(f) = L
  BY <1>1, <1>4
<1>6. Fine(f)
  BY <1>3, <1>5 DEF Fine
<1>7. QED
  BY <1>2, <1>3, <1>5, <1>6 DEF L

\* One unit more is one term more.
LEMMA TermsAppend ==
  ASSUME NEW c \in Int, NEW q \in Seq(1 .. UnitCount), NEW k \in 1 .. UnitCount
  PROVE  TermsFor(c, Append(q, k)) = Append(TermsFor(c, q), ShownTerm(c, k))
<1> DEFINE a == Append(q, k)
           ts == TermsFor(c, q)
           bs == TermsFor(c, a)
           L == Len(q)
           e == ShownTerm(c, k)
           cs == Append(ts, e)
<1>1. /\ a \in Seq(1 .. UnitCount) /\ L \in Nat /\ Len(a) = L + 1
      /\ a[L + 1] = k /\ \A i \in 1 .. L : a[i] = q[i]
  OBVIOUS
<1>2. ts \in Seq(CapTerms) /\ Len(ts) = L /\ \A i \in 1 .. L : ts[i] = ShownTerm(c, q[i])
  BY TermsFine
<1> HIDE DEF a
<1>3. /\ bs \in Seq(CapTerms) /\ Len(bs) = L + 1
      /\ \A i \in 1 .. L + 1 : bs[i] = ShownTerm(c, a[i])
  <2>1. /\ bs \in Seq(CapTerms) /\ Len(bs) = Len(a)
        /\ \A i \in 1 .. Len(a) : bs[i] = ShownTerm(c, a[i])
    BY <1>1, TermsFine
  <2>2. QED
    BY <1>1, <2>1
<1>4. e \in CapTerms
  BY ShownExact
<1> HIDE DEF ts, bs, L, e
<1>5. /\ cs \in Seq(CapTerms) /\ Len(cs) = L + 1 /\ cs[L + 1] = e
      /\ \A i \in 1 .. L : cs[i] = ts[i]
  BY <1>1, <1>2, <1>4
<1> HIDE DEF cs
<1>6. \A i \in 1 .. L + 1 : bs[i] = cs[i]
  <2>1. ASSUME NEW i \in 1 .. L + 1 PROVE bs[i] = cs[i]
    <3>1. CASE i = L + 1
      <4>1. L + 1 \in 1 .. L + 1
        BY <1>1
      <4>2. QED
        BY <1>1, <1>3, <1>5, <3>1, <4>1 DEF e
    <3>2. CASE i # L + 1
      <4>1. i \in 1 .. L
        BY <1>1, <3>2
      <4>2. QED
        BY <1>1, <1>2, <1>3, <1>5, <4>1
    <3>3. QED
      BY <3>1, <3>2
  <2>2. QED
    BY <2>1
<1>7. bs = cs
  BY <1>1, <1>3, <1>5, <1>6, SeqEqual
<1>8. QED
  BY <1>7 DEF bs, cs, a, ts, e

\* One term more adds its value.
LEMMA SumAppend ==
  ASSUME NEW ts \in Seq(CapTerms), Fine(ts),
         NEW u \in CapTerms, IsFine(u)
  PROVE  SumExactly(Append(ts, u)) = SumExactly(ts) + ExactValue(u)
<1> DEFINE a == Append(ts, u)
           L == Len(ts)
<1>1. /\ a \in Seq(CapTerms) /\ L \in Nat /\ Len(a) = L + 1 /\ a[L + 1] = u
      /\ \A i \in 1 .. L : a[i] = ts[i]
  OBVIOUS
<1> HIDE DEF a
<1>2. \A i \in 1 .. L + 1 : IsFine(a[i])
  <2>1. ASSUME NEW i \in 1 .. L + 1 PROVE IsFine(a[i])
    <3>1. CASE i = L + 1
      BY <1>1, <3>1
    <3>2. CASE i # L + 1
      <4>1. i \in 1 .. L
        BY <1>1, <3>2
      <4>2. a[i] = ts[i]
        BY <1>1, <4>1
      <4>3. QED
        BY <4>1, <4>2 DEF Fine
    <3>3. QED
      BY <3>1, <3>2
  <2>2. QED
    BY <2>1
<1>3. PICK n \in [0 .. L -> Nat] :
        n[0] = 0 /\ (\A i \in 1 .. L : n[i] = n[i - 1] + ExactValue(ts[i])) /\ SumExactly(ts) = n[L]
  BY ExactSteps DEF Fine, IsFine
<1>4. PICK o \in [0 .. L + 1 -> Nat] :
        /\ o[0] = 0 /\ \A i \in 1 .. L + 1 : o[i] = o[i - 1] + ExactValue(a[i])
        /\ SumExactly(a) = o[L + 1]
  <2>1. \A i \in 1 .. Len(a) : IsFine(a[i])
    BY <1>1, <1>2
  <2>2. \E o \in [0 .. Len(a) -> Nat] :
          /\ o[0] = 0 /\ \A i \in 1 .. Len(a) : o[i] = o[i - 1] + ExactValue(a[i])
          /\ SumExactly(a) = o[Len(a)]
    BY <1>1, <2>1, ExactSteps DEF IsFine
  <2>3. QED
    BY <1>1, <2>2
<1> HIDE DEF L
<1> DEFINE T == {i \in 0 .. L : n[i] = o[i]}
<1>5. 0 \in T
  BY <1>1, <1>3, <1>4
<1>6. ASSUME NEW i \in 0 .. L - 1, i \in T PROVE i + 1 \in T
  <2>1. i + 1 \in 0 .. L /\ i + 1 \in 1 .. L /\ i + 1 \in 1 .. L + 1 /\ (i + 1) - 1 = i
    BY <1>1
  <2>2. n[i + 1] = n[i] + ExactValue(ts[i + 1]) /\ o[i + 1] = o[i] + ExactValue(a[i + 1])
    BY <1>3, <1>4, <2>1
  <2>3. n[i] = o[i] /\ ts[i + 1] = a[i + 1]
    BY <1>1, <1>6, <2>1
  <2>4. QED
    BY <2>1, <2>2, <2>3
<1> HIDE DEF T
<1>7. L \in T
  <2>1. 0 .. L \subseteq T
    BY <1>1, <1>5, <1>6, UpTo
  <2>2. QED
    BY <1>1, <2>1
<1>8. n[L] = o[L]
  BY <1>7 DEF T
<1>9. o[L + 1] = o[L] + ExactValue(u)
  <2>1. L + 1 \in 1 .. L + 1 /\ (L + 1) - 1 = L
    BY <1>1
  <2>2. QED
    BY <1>1, <1>4, <2>1
<1>10. QED
  BY <1>3, <1>4, <1>8, <1>9 DEF a

\* The units for which String has something to show.
ShownUnits(c) == {k \in 1 .. UnitCount : DigitAt(c, k) > 0}

\* The units, the largest first, and what String selects from them.
LEMMA ShownSteps ==
  ASSUME NEW c \in Int
  PROVE  /\ UnitsDown \in Seq(1 .. UnitCount) /\ Len(UnitsDown) = UnitCount
         /\ \A i \in 1 .. UnitCount : UnitsDown[i] = UnitCount + 1 - i
         /\ Selected(UnitsDown, ShownUnits(c))[0] = <<>>
         /\ \A i \in 1 .. UnitCount :
              Selected(UnitsDown, ShownUnits(c))[i] =
                IF UnitCount + 1 - i \in ShownUnits(c)
                THEN Append(Selected(UnitsDown, ShownUnits(c))[i - 1], UnitCount + 1 - i)
                ELSE Selected(UnitsDown, ShownUnits(c))[i - 1]
         /\ \A i \in 0 .. UnitCount :
              Selected(UnitsDown, ShownUnits(c))[i] \in Seq(1 .. UnitCount)
<1> DEFINE L == UnitCount
           U == 1 .. UnitCount
           s == UnitsDown
           S == ShownUnits(c)
<1>1. L \in Nat
  BY WordAssumption
<1>2. s \in [1 .. L -> U] /\ \A i \in 1 .. L : s[i] = L + 1 - i
  BY <1>1 DEF UnitsDown
<1> HIDE DEF L, U, s, S
<1>3. s \in Seq(U) /\ Len(s) = L
  BY <1>1, <1>2
<1>4. /\ Selected(s, S)[0] = <<>>
      /\ \A i \in 1 .. Len(s) :
           Selected(s, S)[i] = IF s[i] \in S THEN Append(Selected(s, S)[i - 1], s[i])
                               ELSE Selected(s, S)[i - 1]
      /\ \A i \in 0 .. Len(s) : Selected(s, S)[i] \in Seq(U)
  BY <1>3, SelectedSteps
<1>5. \A i \in 1 .. L :
        Selected(s, S)[i] = IF L + 1 - i \in S THEN Append(Selected(s, S)[i - 1], L + 1 - i)
                            ELSE Selected(s, S)[i - 1]
  BY <1>2, <1>3, <1>4
<1>6. QED
  BY <1>2, <1>3, <1>4, <1>5 DEF L, U, s, S

\* What String returns is a text that can be parsed without loss.
LEMMA StringTyped ==
  ASSUME NEW c \in Int
  PROVE  /\ TextClose(StringOf(c)) /\ Fine(StringOf(c).terms)
         /\ StringOf(c).zero = FALSE /\ StringOf(c).neg = (c < 0)
         /\ StringOf(c).terms = TermsFor(c, Selected(UnitsDown, ShownUnits(c))[UnitCount])
<1> DEFINE q == Selected(UnitsDown, ShownUnits(c))[UnitCount]
           ts == TermsFor(c, q)
           t == StringOf(c)
<1>1. q \in Seq(1 .. UnitCount) /\ Len(UnitsDown) = UnitCount
  <2>1. UnitCount \in 0 .. UnitCount
    BY WordAssumption
  <2>2. QED
    BY <2>1, ShownSteps
<1>2. t = [neg |-> c < 0, zero |-> FALSE, terms |-> ts]
  BY <1>1 DEF StringOf, ShownUnits, Select
<1> HIDE DEF q
<1>3. ts \in Seq(CapTerms) /\ Fine(ts)
  BY <1>1, TermsFine
<1> HIDE DEF ts, t
<1>4. t.terms = ts /\ t.zero = FALSE /\ t.neg = (c < 0)
  BY <1>2
<1>5. t \in [neg : BOOLEAN, zero : BOOLEAN, terms : Seq(CapTerms)]
  BY <1>2, <1>3
<1>6. TextClose(t)
  BY <1>3, <1>4, <1>5 DEF TextClose, IsText, Fine, IsFine
<1>7. QED
  BY <1>3, <1>4, <1>6 DEF t, ts, q

\* What the units from the largest down to the i-th show, added up, is the value
\* without what is below the last of them.
LEMMA ShownSum ==
  ASSUME NEW c \in Int, Magnitude(c) < Limit
  PROVE  SumExactly(StringOf(c).terms) = Magnitude(c)
<1> DEFINE L == UnitCount
           M == Magnitude(c)
           S == ShownUnits(c)
           sel == Selected(UnitsDown, S)
<1>1. L \in Nat \ {0} /\ Base \in Nat \ {0} /\ M \in Nat
  BY WordAssumption DEF Magnitude
<1>2. PICK p \in [0 .. L -> Nat] :
        p[0] = 1 /\ (\A i \in 1 .. L : p[i] = p[i - 1] * Base) /\ Powers(Base, L) = p
  BY <1>1, PowersSteps
<1>3. M < p[L] /\ \A k \in 1 .. L : UnitSize(k) = p[k - 1]
  BY <1>2 DEF Limit, UnitSize
<1>4. /\ sel[0] = <<>>
      /\ \A i \in 1 .. L : sel[i] = IF L + 1 - i \in S THEN Append(sel[i - 1], L + 1 - i)
                                    ELSE sel[i - 1]
      /\ \A i \in 0 .. L : sel[i] \in Seq(1 .. L)
  BY ShownSteps
<1>5. StringOf(c).terms = TermsFor(c, sel[L])
  BY StringTyped
<1>6. \A k \in 1 .. L : /\ DigitAt(c, k) = (M \div p[k - 1]) % Base
                        /\ p[k - 1] \in Nat \ {0}
                        /\ k \in S <=> DigitAt(c, k) > 0
  <2>1. ASSUME NEW k \in 1 .. L
        PROVE  /\ DigitAt(c, k) = (M \div p[k - 1]) % Base
               /\ p[k - 1] \in Nat \ {0}
               /\ k \in S <=> DigitAt(c, k) > 0
    <3>1. UnitSize(k) \in Nat \ {0} /\ UnitSize(k) = p[k - 1]
      BY <1>3, UnitSizes
    <3>2. DigitAt(c, k) = (M \div UnitSize(k)) % Base
      BY DigitRange
    <3>3. k \in S <=> DigitAt(c, k) > 0
      BY DEF ShownUnits
    <3>4. QED
      BY <3>1, <3>2, <3>3
  <2>2. QED
    BY <2>1
<1>7. SumExactly(TermsFor(c, <<>>)) = 0
  <2> DEFINE ts == TermsFor(c, <<>>)
  <2>1. ts \in Seq(CapTerms) /\ Fine(ts) /\ Len(ts) = 0
    <3>1. <<>> \in Seq(1 .. UnitCount) /\ Len(<<>>) = 0
      OBVIOUS
    <3>2. QED
      BY <3>1, TermsFine
  <2> HIDE DEF ts
  <2>2. PICK n \in [0 .. Len(ts) -> Nat] : n[0] = 0 /\ SumExactly(ts) = n[Len(ts)]
    BY <2>1, ExactSteps DEF Fine, IsFine
  <2>3. QED
    BY <2>1, <2>2 DEF ts
<1> DEFINE T == {i \in 0 .. L : SumExactly(TermsFor(c, sel[i])) = (M \div p[L - i]) * p[L - i]}
<1> HIDE DEF L, M, S, sel
<1>8. 0 \in T
  <2> DEFINE w == p[L]
  <2>1. w \in Nat /\ M < w /\ L - 0 = L /\ 0 \in 0 .. L
    BY <1>1, <1>2, <1>3
  <2> HIDE DEF w
  <2>2. M \div w = 0
    <3>1. w \in Nat \ {0} /\ M \in 0 .. w - 1 /\ 0 \in Nat /\ M = 0 * w + M
      BY <1>1, <2>1
    <3>2. QED
      BY <1>1, <3>1, DivIs
  <2>3. 0 * w = 0
    BY <2>1
  <2>4. QED
    BY <1>4, <1>7, <2>1, <2>2, <2>3 DEF w
<1>9. ASSUME NEW i \in 0 .. L - 1, i \in T PROVE i + 1 \in T
  <2> DEFINE k == L - i
             u == p[k - 1]
             b == Base
             a == M \div u
             g == a % b
             q == sel[i]
             old == SumExactly(TermsFor(c, q))
  <2>1. /\ i \in 0 .. L /\ i + 1 \in 0 .. L /\ i + 1 \in 1 .. L /\ (i + 1) - 1 = i
        /\ k \in 1 .. L /\ k \in 0 .. L /\ L + 1 - (i + 1) = k /\ L - (i + 1) = k - 1
    BY <1>1
  <2>2. p[k] = u * b /\ u \in Nat \ {0} /\ DigitAt(c, k) = g /\ (k \in S <=> g > 0)
    BY <1>2, <1>6, <2>1
  <2>3. old = (M \div (u * b)) * (u * b)
    BY <1>9, <2>2
  <2>4. sel[i + 1] = (IF k \in S THEN Append(q, k) ELSE q) /\ q \in Seq(1 .. L)
    BY <1>4, <2>1
  <2>5. UnitSize(k) = u
    BY <1>3, <2>1
  <2> HIDE DEF k, u, q, old
  <2>6. a \in Nat
    BY <1>1, <2>2, DivOf
  <2>7. a \div b = M \div (u * b)
    BY <1>1, <2>2, DivDiv
  <2> HIDE DEF a
  <2>8. g \in 0 .. b - 1 /\ a = (a \div b) * b + g /\ a \div b \in Nat
    BY <1>1, <2>6, DivOf
  <2>9. a * u = old + g * u
    <3> DEFINE d == a \div b
    <3>1. d \in Nat /\ a = d * b + g /\ old = d * (u * b)
      BY <2>3, <2>7, <2>8
    <3>2. g \in Nat /\ b \in Nat
      BY <1>1, <2>8
    <3> HIDE DEF d, g, b
    <3>3. a * u = (d * b) * u + g * u
      BY <2>2, <3>1, <3>2
    <3>4. (d * b) * u = d * (u * b)
      BY <2>2, <3>1, <3>2
    <3>5. QED
      BY <3>1, <3>3, <3>4
  <2> HIDE DEF g
  <2>10. SumExactly(TermsFor(c, sel[i + 1])) = a * u
    <3>1. CASE k \in S
      <4> DEFINE e == ShownTerm(c, k)
                 ts == TermsFor(c, q)
      <4>1. k \in 1 .. UnitCount /\ q \in Seq(1 .. UnitCount)
        BY <2>1, <2>4 DEF L
      <4>2. TermsFor(c, Append(q, k)) = Append(ts, e)
        BY <4>1, TermsAppend
      <4>3. e \in CapTerms /\ IsFine(e) /\ ExactValue(e) = g * u
        BY <2>2, <2>5, <4>1, ShownExact DEF IsFine
      <4>4. ts \in Seq(CapTerms) /\ Fine(ts)
        BY <4>1, TermsFine
      <4> HIDE DEF ts, e
      <4>5. SumExactly(Append(ts, e)) = SumExactly(ts) + ExactValue(e)
        BY <4>3, <4>4, SumAppend
      <4>6. QED
        BY <2>4, <2>9, <3>1, <4>2, <4>3, <4>5 DEF ts, old
    <3>2. CASE k \notin S
      <4>1. g = 0
        BY <2>2, <2>8, <3>2, <1>1
      <4>2. g * u = 0
        BY <2>2, <4>1
      <4>3. old \in Nat
        <5>1. a \div b \in Nat /\ u \in Nat /\ b \in Nat
          BY <1>1, <2>2, <2>8
        <5> DEFINE d == a \div b
        <5>2. d \in Nat /\ old = d * (u * b)
          BY <2>3, <2>7, <5>1
        <5> HIDE DEF d, b
        <5>3. QED
          BY <5>1, <5>2
      <4>4. old = a * u
        BY <2>9, <4>2, <4>3
      <4>5. sel[i + 1] = q
        BY <2>4, <3>2
      <4>6. QED
        BY <4>4, <4>5 DEF old
    <3>3. QED
      BY <3>1, <3>2
  <2>11. p[L - (i + 1)] = u
    BY <2>1 DEF u
  <2>12. QED
    BY <2>1, <2>10, <2>11 DEF a
<1> HIDE DEF T
<1>10. L \in T
  <2>1. L \in Nat
    BY <1>1
  <2>2. 0 .. L \subseteq T
    BY <2>1, <1>8, <1>9, UpTo
  <2>3. QED
    BY <2>1, <2>2
<1>11. SumExactly(TermsFor(c, sel[L])) = (M \div 1) * 1
  <2>1. L - L = 0
    BY <1>1
  <2>2. QED
    BY <1>2, <1>10, <2>1 DEF T
<1>12. (M \div 1) * 1 = M
  BY <1>1
<1>13. QED
  BY <1>5, <1>11, <1>12 DEF M

\* The texts that String returns, and the texts that can be parsed.
Written == {StringOf(c) : c \in Int}
Parsable == CapTexts \cup Written
CapShapes ==
  [val : Int, ok : BOOLEAN, source : {NoText} \cup Parsable,
   doc : {NoText} \cup Written, saved : Int]

\* The inductive invariant: the document is what String made of the saved value,
\* and a value that comes from a text is what ParseCapacities made of that text.
CapInv ==
  /\ cap \in CapShapes
  /\ cap.doc # NoText => cap.doc = StringOf(cap.saved)
  /\ cap.source # NoText =>
       /\ cap.val = ParseCapacities(cap.source).val
       /\ cap.ok = ParseCapacities(cap.source).ok

\* Parsing returns a number and whether there was an error.
LEMMA ParseTyped ==
  ASSUME NEW t \in Parsable
  PROVE  /\ t # NoText
         /\ ParseCapacities(t).val \in Int /\ ParseCapacities(t).ok \in BOOLEAN
<1>1. IsText(t) /\ \A i \in DOMAIN t.terms : Fits(t.terms[i])
  <2>1. CASE t \in CapTexts
    BY <2>1, CapTextAssumption, TermsFit
  <2>2. CASE t \in Written
    <3>1. PICK c \in Int : t = StringOf(c)
      BY <2>2 DEF Written
    <3>2. TextClose(StringOf(c))
      BY StringTyped
    <3>3. DOMAIN StringOf(c).terms = 1 .. Len(StringOf(c).terms)
      BY <3>2 DEF TextClose, IsText
    <3>4. QED
      BY <3>1, <3>2, <3>3 DEF TextClose, Close
  <2>3. QED
    BY <2>1, <2>2 DEF Parsable
<1>2. t # NoText
  BY <1>1, CapTextAssumption
<1> DEFINE ts == t.terms
           d == SumOfTerms(ts)
<1>3. ts \in Seq(CapTerms) /\ \A i \in 1 .. Len(ts) : Fits(ts[i])
  <2>1. ts \in Seq(CapTerms)
    BY <1>1 DEF IsText
  <2>2. DOMAIN ts = 1 .. Len(ts)
    BY <2>1
  <2>3. QED
    BY <1>1, <2>1, <2>2
<1>4. d \in Int
  <2>1. Len(ts) \in 0 .. Len(ts)
    BY <1>3
  <2> HIDE DEF ts
  <2>2. PICK h \in [0 .. Len(ts) -> CapResults] : SumOfTerms(ts) = h[Len(ts)]
    BY <1>3, SumSteps
  <2>3. d \in CapResults
    BY <2>1, <2>2
  <2>4. QED
    BY <2>3, WordAssumption DEF CapResults, CapWords, Bad
<1>5. ParseCapacities(t) =
        IF t.zero THEN [ok |-> TRUE, val |-> 0]
        ELSE IF ts = <<>> \/ d = Bad THEN [ok |-> FALSE, val |-> 0]
        ELSE [ok |-> TRUE, val |-> IF t.neg THEN -d ELSE d]
  BY DEF ParseCapacities
<1> HIDE DEF d, ts
<1>6. -d \in Int
  BY <1>4
<1>7. QED
  BY <1>2, <1>4, <1>5, <1>6

\* A value that the units can show is parsed back from its text.
LEMMA ParsedBack ==
  ASSUME NEW c \in Int, 0 < Magnitude(c), Magnitude(c) < Limit
  PROVE  ParseCapacities(StringOf(c)).ok /\ ParseCapacities(StringOf(c)).val = c
<1> DEFINE t == StringOf(c)
           m == Magnitude(c)
           P == ParseCapacities(t)
<1>1. /\ TextClose(t) /\ Fine(t.terms) /\ t.zero = FALSE /\ t.neg = (c < 0)
  BY StringTyped
<1>2. Denotes(t) = m
  BY ShownSum DEF Denotes
<1>3. m \in Nat /\ m <= MaxInt /\ m # 0
  <2>1. Limit \in Nat /\ Limit <= MaxInt /\ MaxInt \in Nat
    BY UnitSizes, WordAssumption
  <2>2. m \in Nat
    BY DEF Magnitude
  <2> HIDE DEF m
  <2>3. QED
    BY <2>1, <2>2 DEF m
<1>4. t.terms # <<>>
  <2> SUFFICES ASSUME t.terms = <<>> PROVE FALSE
    OBVIOUS
  <2> DEFINE ts == t.terms
  <2>1. ts \in Seq(CapTerms) /\ Len(ts) = 0 /\ Fine(ts)
    BY <1>1
  <2>2. SumExactly(ts) = m
    BY <1>2 DEF Denotes
  <2> HIDE DEF ts
  <2>3. PICK n \in [0 .. Len(ts) -> Nat] : n[0] = 0 /\ SumExactly(ts) = n[Len(ts)]
    BY <2>1, ExactSteps DEF Fine, IsFine
  <2>4. QED
    BY <1>3, <2>1, <2>2, <2>3
<1>5. WellFormed(t)
  <2>1. DOMAIN t.terms = 1 .. Len(t.terms)
    BY <1>1 DEF TextClose, IsText
  <2>2. QED
    BY <1>1, <1>4, <2>1 DEF WellFormed, Fine, IsFine
<1>6. Faithful(t, P.ok, P.val) /\ P.ok \in BOOLEAN
  BY <1>1, TextParsed
<1>7. Slack(t) = 0
  <2>1. DOMAIN t.terms = 1 .. Len(t.terms)
    BY <1>1 DEF TextClose, IsText
  <2>2. QED
    BY <1>1, <2>1 DEF Slack, Fine, IsFine
<1> DEFINE n == Magnitude(P.val)
<1>8. P.ok /\ n - m \in -0 .. 0 /\ P.val = IF c < 0 THEN -n ELSE n
  <2>1. ~(m + 0 > MaxInt)
    BY <1>3, WordAssumption
  <2>2. QED
    BY <1>1, <1>2, <1>5, <1>6, <1>7, <2>1 DEF Faithful
<1>9. P.val \in Int /\ n \in Int
  <2>1. P.val \in Int
    <3>1. t \in Written
      BY DEF Written
    <3>2. QED
      BY <3>1, ParseTyped DEF Parsable
  <2>2. QED
    BY <2>1 DEF Magnitude
<1> HIDE DEF n, P
<1>10. n = m
  BY <1>3, <1>8, <1>9
<1>11. (IF c < 0 THEN -m ELSE m) = c
  BY DEF Magnitude
<1>12. QED
  BY <1>8, <1>10, <1>11 DEF P

\* Parsing a text keeps the invariant.
LEMMA ParsedKeeps ==
  ASSUME CapInv, NEW t \in Parsable, cap' = Parsed(t)
  PROVE  CapInv'
<1> DEFINE P == ParseCapacities(t)
<1>1. t # NoText /\ P.val \in Int /\ P.ok \in BOOLEAN
  BY ParseTyped
<1>2. cap' = [cap EXCEPT !.val = P.val, !.ok = P.ok, !.source = t]
  BY DEF Parsed
<1> HIDE DEF P
<1>3. cap \in CapShapes
  BY DEF CapInv
<1>4. /\ cap' \in CapShapes
      /\ cap'.doc = cap.doc /\ cap'.saved = cap.saved
      /\ cap'.source = t /\ cap'.val = P.val /\ cap'.ok = P.ok
  BY <1>1, <1>2, <1>3 DEF CapShapes
<1>5. QED
  BY <1>4 DEF CapInv, P

\* Every operation keeps the invariant.
LEMMA CapNextKeeps ==
  ASSUME CapInv, [CapNext]_capVars
  PROVE  CapInv'
<1>1. cap \in CapShapes
  BY DEF CapInv
<1>2. ASSUME NEW c \in CapValues, CapAssign(c) PROVE CapInv'
  <2>1. c \in Int /\ cap.source = NoText /\ cap.doc = NoText /\ cap' = [cap EXCEPT !.val = c]
    BY <1>2, CapTextAssumption DEF CapAssign, Untouched
  <2>2. cap' \in CapShapes /\ cap'.source = NoText /\ cap'.doc = NoText
    BY <1>1, <2>1 DEF CapShapes
  <2>3. QED
    BY <2>2 DEF CapInv
<1>3. ASSUME NEW t \in CapTexts, CapSet(t) PROVE CapInv'
  <2>1. t \in Parsable /\ cap' = Parsed(t)
    BY <1>3 DEF Parsable, CapSet
  <2>2. QED
    BY <2>1, ParsedKeeps
<1>4. ASSUME NEW n \in CapNumbers, CapUnmarshalNumber(n) PROVE CapInv'
  <2> DEFINE v == IF n > MaxInt THEN MaxInt ELSE IF n < -MaxInt - 1 THEN -MaxInt - 1 ELSE n
             o == (n = Word(n))
  <2>1. v \in Int
    BY CapTextAssumption, WordAssumption
  <2>2. cap.source = NoText /\ cap.doc = NoText /\ cap' = [cap EXCEPT !.ok = o, !.val = v]
    BY <1>4 DEF CapUnmarshalNumber, Untouched
  <2>3. o \in BOOLEAN
    OBVIOUS
  <2> HIDE DEF v, o
  <2>4. cap' \in CapShapes /\ cap'.source = NoText /\ cap'.doc = NoText
    BY <1>1, <2>1, <2>2, <2>3 DEF CapShapes
  <2>5. QED
    BY <2>4 DEF CapInv
<1>5. CASE CapMarshal
  <2> DEFINE d == StringOf(cap.val)
  <2>1. cap.val \in Int
    BY <1>1 DEF CapShapes
  <2>2. d \in Written
    BY <2>1 DEF Written
  <2>3. cap' = [cap EXCEPT !.doc = d, !.saved = cap.val]
    BY <1>5 DEF CapMarshal
  <2> HIDE DEF d
  <2>4. /\ cap' \in CapShapes /\ cap'.doc = d /\ cap'.saved = cap.val
        /\ cap'.source = cap.source /\ cap'.val = cap.val /\ cap'.ok = cap.ok
    BY <1>1, <2>1, <2>2, <2>3 DEF CapShapes
  <2>5. QED
    BY <2>4 DEF CapInv, d
<1>6. CASE CapUnmarshal
  <2>1. cap.doc # NoText /\ cap' = Parsed(cap.doc)
    BY <1>6 DEF CapUnmarshal
  <2>2. cap.doc \in Parsable
    BY <1>1, <2>1 DEF CapShapes, Parsable
  <2>3. QED
    BY <2>1, <2>2, ParsedKeeps
<1>7. CASE UNCHANGED capVars
  BY <1>7 DEF capVars, CapInv
<1>8. QED
  BY <1>2, <1>3, <1>4, <1>5, <1>6, <1>7 DEF CapNext

\* The invariant holds throughout.
LEMMA CapInvariant == CapSpec => []CapInv
<1>1. CapInit => CapInv
  <2> SUFFICES ASSUME CapInit PROVE CapInv
    OBVIOUS
  <2>1. /\ cap \in CapShapes /\ cap.doc = NoText /\ cap.source = NoText
    BY DEF CapInit, CapShapes
  <2>2. QED
    BY <2>1 DEF CapInv
<1>2. CapInv /\ [CapNext]_capVars => CapInv'
  BY CapNextKeeps
<1>3. QED
  BY <1>1, <1>2, PTL DEF CapSpec

\* A value that is saved and loaded comes back (capacity.go:80-95 with
\* format.go:93-187): String writes one term for each unit that is not zero,
\* and ParseCapacities adds them up again without an overflow, for every base,
\* word and number of units, unless the value is 0 or the units can not show it.
THEOREM CapacityComesBack == CapSpec => []CapRoundTrip
<1>1. CapInv => CapRoundTrip
  <2> SUFFICES ASSUME CapInv, cap.doc # NoText, cap.source = cap.doc,
                      0 < Magnitude(cap.saved), Magnitude(cap.saved) < Limit
               PROVE  cap.ok /\ cap.val = cap.saved
    BY DEF CapRoundTrip
  <2> DEFINE c == cap.saved
  <2>1. c \in Int /\ cap.source = StringOf(c)
    BY DEF CapInv, CapShapes
  <2>2. /\ cap.val = ParseCapacities(StringOf(c)).val
        /\ cap.ok = ParseCapacities(StringOf(c)).ok
    BY <2>1 DEF CapInv
  <2> HIDE DEF c
  <2>3. ParseCapacities(StringOf(c)).ok /\ ParseCapacities(StringOf(c)).val = c
    BY <2>1, ParsedBack DEF c
  <2>4. QED
    BY <2>2, <2>3 DEF c
<1>2. QED
  BY <1>1, CapInvariant, PTL

\* ParseCapacities accepts a well formed text whose value fits the word, with
\* that value, and refuses the others (format.go:95-186), whatever the terms, the
\* base and the word are; one byte for each term is the most that float64 adds or
\* takes, and a text without a fraction is exact.  The fractions of the texts must
\* lose no byte to leadingFraction, which skips the digits that do not fit the
\* word (format.go:53-67).
THEOREM ParsesFaithfully ==
  ASSUME \A t \in CapTexts : TextKept(t)
  PROVE  CapSpec => []ParseFaithful
<1>1. CapInv => ParseFaithful
  <2> SUFFICES ASSUME CapInv, cap.source # NoText
               PROVE  Faithful(cap.source, cap.ok, cap.val)
    BY DEF ParseFaithful, Faithful
  <2> DEFINE t == cap.source
  <2>1. t \in Parsable
    BY DEF CapInv, CapShapes
  <2>2. TextClose(t)
    <3>1. CASE t \in CapTexts
      <4>1. IsText(t)
        BY <3>1, CapTextAssumption
      <4>2. DOMAIN t.terms = 1 .. Len(t.terms)
        BY <4>1 DEF IsText
      <4>3. \A i \in DOMAIN t.terms : Close(t.terms[i])
        BY <3>1, TermsClose DEF TextKept
      <4>4. QED
        BY <4>1, <4>2, <4>3 DEF TextClose
    <3>2. CASE t \in Written
      <4>1. PICK c \in Int : t = StringOf(c)
        BY <3>2 DEF Written
      <4>2. TextClose(StringOf(c))
        BY StringTyped
      <4>3. QED
        BY <4>1, <4>2
    <3>3. QED
      BY <2>1, <3>1, <3>2 DEF Parsable
  <2>3. Faithful(t, ParseCapacities(t).ok, ParseCapacities(t).val)
    BY <2>2, TextParsed
  <2>4. cap.ok = ParseCapacities(t).ok /\ cap.val = ParseCapacities(t).val
    BY DEF CapInv
  <2>5. QED
    BY <2>3, <2>4
<1>2. QED
  BY <1>1, CapInvariant, PTL
=============================================================================
