-------------------------------- MODULE MCData --------------------------------
(* The data types have nothing to do with one another: a behaviour follows   *)
(* one of them, named by part, and leaves the others as they were.           *)
EXTENDS ArraySet, SafeString, RingQueue, Storage, OrderedSet, Capacity,
        ErrorValues, ForeachSet, Buffers, Logging, TLC

CONSTANTS Parts, k16, k24, kOdd, b2

VARIABLE part

\* The variables of each part.
dataVars == <<setVars, encVars, strVars, vars, stoVars>>
moreVars == <<osVars, capVars, errVars, scanVars, bufVars, logVars>>
allVars == <<part, dataVars, moreVars>>

MCKeyLen == (NoKey :> 0) @@ (k16 :> 16) @@ (k24 :> 24) @@ (kOdd :> 5)

\* Key 1 lies in the folder d, 2 in d/e, and 3 at the top.
MCFolder == <<<<"d">>, <<"d", "e">>, <<>>>>
MCModeOf ==
  <<[type |-> {}, perm |-> {8, 7, 5}], [type |-> {"d"}, perm |-> 0 .. 6],
    [type |-> {"d", "t"}, perm |-> {}]>>

\* Texts of one and of two terms around the edges of a word of 12 bits, with a
\* missing unit (0) and an unknown one (4), and values with every sign.
MCDigits == {<<>>, <<0>>, <<1, 4>>, <<1, 7, 0>>, <<2, 0, 4, 7>>, <<2, 0, 4, 8>>}
MCTerms == [int : MCDigits, frac : {<<>>, <<0>>, <<5>>, <<9, 9, 9, 9>>}, unit : 0 .. 4]
MCHalves == [int : {<<1, 4>>, <<1, 7, 0>>, <<2, 0, 4, 7>>}, frac : {<<>>, <<5>>}, unit : 1 .. 3]
MCCapTexts ==
  [neg : BOOLEAN, zero : {FALSE}, terms : {<<>>} \cup {<<t>> : t \in MCTerms}
                                            \cup (MCHalves \X MCHalves)]
    \cup [neg : BOOLEAN, zero : {TRUE}, terms : {<<>>}]
\* unit / scale rounded to nine binary places: 0.5 of the unit 12 comes out a
\* byte too small, 0.9999 of the unit 144 a byte too large.
MCFloatProduct(f, unit, scale) == (f * ((1024 * unit + scale) \div (2 * scale))) \div 512
MCCapNumbers == {-2049, -2048, -1, 0, 2047, 2048}
MCCapValues ==
  LET edges == {1, 11, 12, 13, 143, 144, 145, 1727, 1728, 2047}
  IN  edges \cup {-c : c \in edges} \cup {0, -2048}

\* A program may give a pair named traceId, here with an id never issued.
MCBoundPairs == {Pair("traceId", 9)}
MCOptions == {Pair("caller", "layer"), Pair("method", "f"), Pair("print", "raw")}
MCRecordPairs == {Pair("msg", "m"), Pair("caller", "record"), Pair("print", "text")}

MCInit ==
  /\ part \in Parts
  /\ ASInit /\ (part # "ArraySet" => using = {} /\ callback = "none")
  /\ EncInit
  /\ StrInit /\ (part # "SafeString" => env = NoKey)
  /\ Init
  /\ StoInit
  /\ OSInit /\ CapInit /\ ErrInit /\ FInit /\ BufInit /\ LInit

\* Two keys are enough to change the secret of a String.
StringKeys == {NoKey, k16, kOdd}

\* The second bucket is there to be told from the first: one of the objects in
\* folders and the one at the top are ever in it.
SecondBucketKeys == {1, 3}

DataNext ==
  \/ part = "ArraySet" /\ ASNext /\ UNCHANGED <<encVars, strVars, vars, stoVars>>
  \/ part = "Encrypt" /\ EncNext /\ UNCHANGED <<setVars, strVars, vars, stoVars>>
  \/ /\ part = "SafeString" /\ StrNext /\ str'.secret \in StringKeys
     /\ UNCHANGED <<setVars, encVars, vars, stoVars>>
  \/ part = "RingQueue" /\ Next /\ UNCHANGED <<setVars, encVars, strVars, stoVars>>
  \/ /\ part = "Storage" /\ StoNext
     /\ \A k \in ObjectKeys \ SecondBucketKeys : objects'[b2][k] = "absent"
     /\ UNCHANGED <<setVars, encVars, strVars, vars>>

MoreNext ==
  \/ part = "OrderedSet" /\ OSNext /\ UNCHANGED <<capVars, errVars, scanVars, bufVars, logVars>>
  \/ part = "Capacity" /\ CapNext /\ UNCHANGED <<osVars, errVars, scanVars, bufVars, logVars>>
  \/ part = "ErrorValues" /\ ErrNext /\ UNCHANGED <<osVars, capVars, scanVars, bufVars, logVars>>
  \/ part = "ForeachSet" /\ FNext /\ UNCHANGED <<osVars, capVars, errVars, bufVars, logVars>>
  \/ part = "Buffers" /\ BufNext /\ UNCHANGED <<osVars, capVars, errVars, scanVars, logVars>>
  \/ part = "Logging" /\ LNext /\ UNCHANGED <<osVars, capVars, errVars, scanVars, bufVars>>

MCNext ==
  /\ UNCHANGED part
  /\ \/ DataNext /\ UNCHANGED moreVars
     \/ MoreNext /\ UNCHANGED dataVars

MCSpec == MCInit /\ [][MCNext]_allVars
=============================================================================
