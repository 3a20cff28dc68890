------------------------------ MODULE SafeString ------------------------------
(***************************************************************************)
(* safe.String of safe/string.go: a string that encrypts itself at rest,   *)
(* with a secret of its own or the one in the environment.  The module     *)
(* follows one String through the calls a program makes on it, the column  *)
(* it is saved to (Value, Scan) and the JSON it is written to.             *)
(***************************************************************************)
EXTENDS Encrypt

CONSTANTS
  EnvKeys,     \* what the environment variable may hold
  MaxSeals     \* bound: how often a string is encrypted over again

ASSUME EnvAssumption ==
  /\ EnvKeys \subseteq AllKeys
  /\ \A k \in EnvKeys : KeyLen[k] \in ProperLengths \cup {0}
ASSUME SealAssumption == MaxSeals \in Nat

VARIABLES
  env,      \* os.Getenv(SecretEnvName); fixed while the process runs
  str,      \* the String: value and secret
  saved,    \* what was written last, a column or a JSON document, with the
            \* history of what it stands for
  want,     \* history: the text the program stored last
  lost      \* history: a call has separated the text from its key

strVars == <<env, str, saved, want, lost>>

Empty(v) == v = Plain(Blank)

getSecret(s) == IF s.secret # NoKey THEN s.secret ELSE env

\* Encrypt(v, secret, nil) starts from fresh options; it never fails.
Seal(v, k) == EncryptTo(v, k, FixOptions).val

\* The value that UnmarshalJSON, UnmarshalYAML and the decode hook store.
Incoming(v, k) == IF ~HasPrefix(v) /\ k # NoKey THEN Seal(v, k) ELSE v

\* UnsafeString: without a secret a ciphertext is returned as it is.
UnsafeString(s) ==
  IF HasPrefix(s.value) /\ getSecret(s) # NoKey
  THEN Decrypt(s.value, getSecret(s)) ELSE Ok(s.value)

\* Mutant: a new secret is stored next to the old ciphertext.
Rekeyed(s, k) == [s EXCEPT !.secret = k]

\* UpdateSecret on s: nothing happens when the text cannot be read; an empty
\* secret drops the key and keeps the ciphertext.
Updated(s, k) ==
  IF ~UnsafeString(s).ok THEN s
  ELSE [value |-> IF k # NoKey THEN Seal(UnsafeString(s).val, k) ELSE s.value,
        secret |-> k]

\* String on s; it encrypts with s.secret even if the secret is env's.
Stringed(s) ==
  IF ~Empty(s.value) /\ ~HasPrefix(s.value) /\ getSecret(s) # NoKey
  THEN [s EXCEPT !.value = Seal(@, s.secret)] ELSE s

\* A value written by str: the text it stands for, the secret to read it
\* with, and whether the text is lost.
Copy(to, v, l) ==
  [to |-> to, val |-> v, want |-> want, key |-> getSecret(str), lost |-> l]

\* From s to t the effective secret changes under a ciphertext.
KeyChanges(s, t) == HasPrefix(t.value) /\ getSecret(s) # getSecret(t)

\* String encrypts with the empty key: there is a secret, but in env only.
EnvOnly(s) == s.secret = NoKey /\ Stringed(s) # s

StrInit ==
  /\ env \in EnvKeys
  /\ str = [value |-> Plain(Blank), secret |-> NoKey]
  /\ want = Blank
  /\ lost = FALSE
  /\ saved = Copy("column", Plain(Blank), FALSE)

-----------------------------------------------------------------------------
(* Storing a text.  One that begins with the ciphertext prefix is taken    *)
(* for a ciphertext and counts as lost from the start.                     *)

Stores(t) ==
  /\ want' = t
  /\ lost' = (t = Marked)
  /\ UNCHANGED <<env, saved>>

Reset ==
  /\ str' = [value |-> Plain(Blank), secret |-> NoKey]
  /\ Stores(Blank)

\* Mutant: the value is encrypted but the secret is not remembered.
SetValueForgets(t) ==
  /\ str' = [value |-> Incoming(Plain(t), getSecret(str)), secret |-> NoKey]
  /\ Stores(t)

\* SetValue encrypts under the secret found and remembers it.
SetValue(t) ==
  LET k == getSecret(str)
      v == Plain(t)
  IN  /\ str' = IF ~HasPrefix(v) /\ k # NoKey /\ ~Empty(v)
                THEN [value |-> Seal(v, k), secret |-> k]
                ELSE [str EXCEPT !.value = v]
      /\ Stores(t)

\* NewEncryptedString looks at its secret argument only.
NewEncryptedString(t, k) ==
  /\ str' = [value |-> Incoming(Plain(t), k), secret |-> k]
  /\ Stores(t)

\* SafeStringHookFunc: a fresh String from the text of a configuration.
DecodeHook(t) ==
  /\ str' = [value |-> Incoming(Plain(t), env), secret |-> env]
  /\ Stores(t)

\* UnmarshalJSON and UnmarshalYAML on v.
Unmarshaled(v) ==
  [value |-> Incoming(v, getSecret(str)),
   secret |-> IF HasPrefix(v) THEN str.secret ELSE getSecret(str)]

UnmarshalText(t) ==
  /\ str' = Unmarshaled(Plain(t))
  /\ Stores(t)

-----------------------------------------------------------------------------
(* Keys.                                                                   *)

UpdateSecret(k) ==
  /\ Len(str.value.seals) <= MaxSeals
  /\ str' = Updated(str, k)
  /\ lost' = (lost \/ (k = NoKey /\ KeyChanges(str, str')))
  /\ UNCHANGED <<env, saved, want>>

\* SetSecret does not touch the ciphertext.
SetSecret(k) ==
  /\ str' = [str EXCEPT !.secret = k]
  /\ lost' = (lost \/ KeyChanges(str, str'))
  /\ UNCHANGED <<env, saved, want>>

-----------------------------------------------------------------------------
(* Writing and reading back.                                               *)

\* String has a pointer receiver: the ciphertext replaces the value.
String ==
  /\ str' = Stringed(str)
  /\ lost' = (lost \/ EnvOnly(str))
  /\ UNCHANGED <<env, saved, want>>

\* MarshalJSON runs String on a copy.
MarshalJSON ==
  /\ saved' = Copy("json", Stringed(str).value, lost \/ EnvOnly(str))
  /\ UNCHANGED <<env, str, want, lost>>

\* The copy is read back into a String that may have another secret.
Reads ==
  /\ want' = saved.want
  /\ lost' = (saved.lost \/ (HasPrefix(saved.val) /\ saved.key # getSecret(str)))
  /\ UNCHANGED <<env, saved>>

UnmarshalJSON ==
  /\ saved.to = "json"
  /\ str' = Unmarshaled(saved.val)
  /\ Reads

\* Value saves what is stored, Scan stores what was saved.
Value ==
  /\ saved' = Copy("column", str.value, lost)
  /\ UNCHANGED <<env, str, want, lost>>

Scan ==
  /\ saved.to = "column"
  /\ str' = [str EXCEPT !.value = saved.val]
  /\ Reads

StrNext ==
  \/ Reset
  \/ \E t \in Texts : SetValue(t) \/ UnmarshalText(t) \/ DecodeHook(t)
  \/ \E t \in Texts, k \in AllKeys : NewEncryptedString(t, k)
  \/ \E k \in AllKeys : UpdateSecret(k) \/ SetSecret(k)
  \/ String
  \/ MarshalJSON
  \/ UnmarshalJSON
  \/ Value
  \/ Scan

StrSpec == StrInit /\ [][StrNext]_strVars

-----------------------------------------------------------------------------
(* Properties.                                                             *)

\* The String, and the column or JSON document it was written to, give back the text the program
\* stored, whatever sequence of stores, saves, loads and changes of the secret
\* led there, as long as no call has changed the effective secret under a
\* ciphertext (SetSecret, UpdateSecret(""), a load under another secret) and
\* String was not asked to encrypt under the environment's secret.
TextReadable ==
  /\ ~lost => UnsafeString(str) = Ok(Plain(want))
  /\ ~saved.lost =>
       UnsafeString([value |-> saved.val, secret |-> saved.key]) = Ok(Plain(saved.want))

\* "String returns the ciphertext form of the value, encrypting plaintext when
\* a secret is available": what UnsafeString returns is the same afterwards.
StringKeepsText ==
  [][~lost /\ String => UnsafeString(str') = UnsafeString(str)]_strVars
=============================================================================
