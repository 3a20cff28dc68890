---------------------------- MODULE StorageProofs ----------------------------
(* Listings are complete for any keys, folders, buckets and page sizes.      *)
EXTENDS Storage, SelectionProofs, FiniteSetTheorems, SequenceTheorems, TLAPS

Outcomes == {"none", "ok", "error", "missing", "invalid", "panic", "running",
             "cancelled"}
AllBuckets == Buckets \cup {NoBucket}

Stores == [Buckets -> [ObjectKeys -> {"absent", "partial", "whole"}]]

StoTyped ==
  /\ client \in [kind : FSKinds \cup {"none", "s3", "oss"}, bucket : AllBuckets]
  /\ objects \in Stores
  /\ call \in [op : {"none", "new", "get", "head", "put", "list"},
               bucket : AllBuckets, key : ObjectKeys \cup {0},
               outcome : Outcomes]
  /\ listing \in [asked : AllBuckets, bucket : AllBuckets,
                  prefix : Seq(STRING), recursion : BOOLEAN, token : Nat,
                  more : BOOLEAN, files : SUBSET ObjectKeys,
                  dirs : SUBSET Seq(STRING), cancelled : BOOLEAN]
  /\ before \in SUBSET ObjectKeys
  /\ reported \in SUBSET ObjectKeys /\ IsFiniteSet(reported)
  /\ calls \in Nat

\* What a client is made with.
ClientInv ==
  /\ IsFS => client.bucket \in Buckets
  /\ client.kind = "none" => call.op \in {"none", "new"}
  /\ call.op = "put" /\ ~Idle =>
       client.bucket \in Buckets /\ call.bucket \in Buckets /\ call.key # 0

\* What was reported is there to be read.
ReportedInv ==
  /\ reported # {} => listing.asked \in Buckets
  /\ \A k \in reported : objects[listing.asked][k] # "absent"

InScope(k) ==
  InFolder(k, listing.prefix)
    /\ (listing.recursion \/ Folder[k] = listing.prefix)

\* A listing on its way, or at its end.
SoundInv ==
  call.op = "list" /\ call.outcome \in {"running", "ok"} =>
    /\ listing.asked \in Buckets
    /\ \A k \in reported : InScope(k)
    /\ calls = Cardinality(reported)
    /\ \A k \in before :
         objects[listing.asked][k] # "absent" /\ InFolder(k, listing.prefix)

Met(k) == k \in listing.files \/ k \in reported

FilesInv ==
  Listing =>
    /\ listing.bucket = listing.asked
    /\ client.kind # "none"
    /\ \A k \in listing.files :
         /\ objects[listing.asked][k] # "absent"
         /\ InScope(k) /\ k \notin reported

\* Services: all keys up to the token have been met, and no key is left
\* behind the last page.
PagesInv ==
  Listing /\ ~IsFS =>
    /\ listing.dirs = {}
    /\ \A k \in ObjectKeys : Met(k) => k <= listing.token
    /\ \A k \in before : InScope(k) /\ k <= listing.token => Met(k)
    /\ listing.more \/ \A k \in before : k <= listing.token

Full == listing.prefix = <<>> \/ listing.recursion

\* File systems: a file has been met or lies below a directory still to be
\* read; the latter do not lie within one another.
WalkInv ==
  Listing /\ IsFS =>
    /\ ~listing.more
    /\ \A d \in listing.dirs, k \in ObjectKeys :
         InFolder(k, d) =>
           /\ ~Met(k)
           /\ InFolder(k, listing.prefix)
           /\ \A e \in listing.dirs : InFolder(k, e) => e = d
    /\ \A d \in listing.dirs : Len(listing.prefix) <= Len(d)
    /\ Full => \A k \in before :
         InScope(k) /\ ~Met(k) => \E d \in listing.dirs : InFolder(k, d)

DoneInv ==
  call.op = "list" /\ call.outcome = "ok" /\ (IsFS => Full) =>
    \A k \in before : InScope(k) => k \in reported

StoInv ==
  /\ StoTyped /\ ClientInv /\ ReportedInv
  /\ SoundInv /\ FilesInv /\ PagesInv /\ WalkInv /\ DoneInv

-----------------------------------------------------------------------------
(* Folders are sequences; these are the facts about prefixes needed below. *)

\* The folder of the next level on the way to a key contains the key.
LEMMA NextFolder ==
  ASSUME NEW k \in ObjectKeys, NEW d \in Seq(STRING), InFolder(k, d),
         Len(Folder[k]) > Len(d)
  PROVE  LET e == SubSeq(Folder[k], 1, Len(d) + 1)
         IN e \in Seq(STRING) /\ Len(e) = Len(d) + 1 /\ InFolder(k, e)
<1>1. Folder[k] \in Seq(STRING) BY FolderAssumption
<1>2. Len(d) \in Nat /\ Len(Folder[k]) \in Nat BY <1>1
<1>3. 1 <= Len(d) + 1 /\ Len(d) + 1 <= Len(Folder[k]) BY <1>2
<1>4. /\ SubSeq(Folder[k], 1, Len(d) + 1) \in Seq(STRING)
      /\ Len(SubSeq(Folder[k], 1, Len(d) + 1)) = Len(d) + 1
  BY <1>1, <1>2, <1>3, SubSeqProperties
<1> QED BY <1>3, <1>4 DEF InFolder

\* A key within a sub-folder of d lies within d.
LEMMA Within ==
  ASSUME NEW j \in ObjectKeys, NEW k \in ObjectKeys, NEW d \in Seq(STRING),
         InFolder(j, d), Len(Folder[j]) > Len(d),
         InFolder(k, SubSeq(Folder[j], 1, Len(d) + 1))
  PROVE  InFolder(k, d) /\ Len(Folder[k]) > Len(d)
<1> DEFINE n == Len(d)
<1> DEFINE e == SubSeq(Folder[j], 1, n + 1)
<1>1. Folder[j] \in Seq(STRING) /\ Folder[k] \in Seq(STRING)
  BY FolderAssumption
<1>2. n \in Nat /\ Len(Folder[j]) \in Nat /\ Len(Folder[k]) \in Nat BY <1>1
<1>3. Len(e) = n + 1 BY NextFolder
<1>4. n + 1 <= Len(Folder[k]) /\ SubSeq(Folder[k], 1, n + 1) = e
  BY <1>3 DEF InFolder
<1>5. \A i \in 1 .. n + 1 : Folder[k][i] = e[i] /\ e[i] = Folder[j][i]
  BY <1>1, <1>2, <1>4, SubSeqProperties
<1>6. d = SubSeq(Folder[j], 1, n) BY DEF InFolder
<1>7. \A i \in 1 .. n : d[i] = Folder[j][i]
  BY <1>1, <1>2, <1>6, SubSeqProperties
<1>8. /\ SubSeq(Folder[k], 1, n) \in Seq(STRING)
      /\ Len(SubSeq(Folder[k], 1, n)) = n
      /\ \A i \in 1 .. n : SubSeq(Folder[k], 1, n)[i] = Folder[k][i]
  BY <1>1, <1>2, <1>4, SubSeqProperties
<1>9. SubSeq(Folder[k], 1, n) = d
  BY <1>2, <1>5, <1>7, <1>8, SeqEqual
<1> QED BY <1>2, <1>4, <1>9 DEF InFolder

-----------------------------------------------------------------------------
(* Calls that do not list leave nothing of a listing but what it reported. *)

\* DropListing keeps the history of what was reported.
LEMMA DropKeeps ==
  ASSUME StoTyped, ReportedInv, NEW keep, DropListing(keep),
         \A b \in Buckets, k \in ObjectKeys :
           objects[b][k] # "absent" => objects'[b][k] # "absent"
  PROVE  /\ ReportedInv'
         /\ listing' \in [asked : AllBuckets, bucket : AllBuckets,
                  prefix : Seq(STRING), recursion : BOOLEAN, token : Nat,
                  more : BOOLEAN, files : SUBSET ObjectKeys,
                  dirs : SUBSET Seq(STRING), cancelled : BOOLEAN]
         /\ before' \in SUBSET ObjectKeys
         /\ reported' \in SUBSET ObjectKeys /\ IsFiniteSet(reported')
         /\ calls' \in Nat
<1>1. reported' \subseteq reported BY DEF DropListing
<1>2. IsFiniteSet(reported') BY <1>1, FS_Subset DEF StoTyped, Stores
<1>3. <<>> \in Seq(STRING) BY EmptySeq
<1>4. listing' = NoListing(NoBucket) \/ listing' = NoListing(listing.asked)
  BY DEF DropListing
<1>5. listing.asked \in AllBuckets /\ NoBucket \in AllBuckets
  BY DEF StoTyped, Stores, AllBuckets
<1>6. \A b : NoListing(b).asked = b BY DEF NoListing
<1>7. reported' # {} => listing'.asked = listing.asked
  BY <1>6 DEF DropListing
<1>8. ReportedInv'
  BY <1>1, <1>7 DEF ReportedInv, StoTyped, Stores
<1> QED BY <1>1, <1>2, <1>3, <1>4, <1>5, <1>8
        DEF DropListing, NoListing, StoTyped, Stores

\* After a call that is not a listing under way or successfully ended, what
\* is said of such listings says nothing.
LEMMA NotListing ==
  ASSUME call'.op # "list" \/ call'.outcome = "invalid"
  PROVE  SoundInv' /\ FilesInv' /\ PagesInv' /\ WalkInv' /\ DoneInv'
BY DEF SoundInv, FilesInv, PagesInv, WalkInv, DoneInv, Listing, Idle

\* The fields of a call.
LEMMA EndedType ==
  ASSUME NEW op, NEW b, NEW k, NEW out
  PROVE  /\ Ended(op, b, k, out).op = op /\ Ended(op, b, k, out).bucket = b
         /\ Ended(op, b, k, out).key = k /\ Ended(op, b, k, out).outcome = out
         /\ op \in {"none", "new", "get", "head", "put", "list"}
              /\ b \in AllBuckets /\ k \in ObjectKeys \cup {0} /\ out \in Outcomes
            => Ended(op, b, k, out) \in
                 [op : {"none", "new", "get", "head", "put", "list"},
                  bucket : AllBuckets, key : ObjectKeys \cup {0},
                  outcome : Outcomes]
BY DEF Ended

\* What a path names, and that the code resolves it as its caller means it.
LEMMA PathTypes ==
  ASSUME StoTyped, NEW p \in Paths
  PROVE  /\ p.key \in ObjectKeys \cup {0} /\ p.bucket \in AllBuckets
         /\ Means(p) \in AllBuckets
         /\ p.form = "bare" => p.key = 0
         /\ resolveObjectPath(p).bucket \in AllBuckets
         /\ resolveObjectPath(p).key = p.key
         /\ resolveObjectPath(p).ok =>
              p.form # "bare" /\ resolveObjectPath(p).bucket \in Buckets
         /\ ~IsFS => resolveObjectPath(p).bucket = Means(p)
BY DEF Paths, StoTyped, Stores, AllBuckets, Means, resolveObjectPath, KeysOrNone

\* Init satisfies the invariant.
LEMMA InitInv == StoInit => StoInv
<1> SUFFICES ASSUME StoInit PROVE StoInv OBVIOUS
<1>1. <<>> \in Seq(STRING) BY EmptySeq
<1>2. IsFiniteSet({}) BY FS_EmptySet
<1>3. call.op = "none" /\ call.outcome = "none" BY EndedType DEF StoInit
<1>4. call \in [op : {"none", "new", "get", "head", "put", "list"},
                bucket : AllBuckets, key : ObjectKeys \cup {0},
                outcome : Outcomes]
  BY EndedType DEF StoInit, AllBuckets, Outcomes
<1>5. StoTyped
  BY <1>1, <1>2, <1>4 DEF StoInit, StoTyped, Stores, NoListing, AllBuckets, FSKinds
<1> QED BY <1>3, <1>5
        DEF StoInit, StoInv, ClientInv, ReportedInv, SoundInv, FilesInv,
            PagesInv, WalkInv, DoneInv, Listing, Idle, IsFS, FSKinds

\* A client is built, or not.
LEMMA NewClientInv == StoInv /\ NewClient => StoInv'
<1> SUFFICES ASSUME StoInv, NewClient PROVE StoInv' OBVIOUS
<1>1. /\ call' = Ended("new", NoBucket, 0, "ok")
           \/ call' = Ended("new", NoBucket, 0, "error")
      /\ client' = client
           \/ \E t \in FSKinds \cup {"s3", "oss"}, b \in Homes :
                client' = [kind |-> t, bucket |-> b]
                  /\ (t \in FSKinds => b # NoBucket)
  BY DEF NewClient, NewFS, NewS3, NewOSS, NewFails, Built, FSKinds
<1>2. call'.op = "new" /\ call' \in
           [op : {"none", "new", "get", "head", "put", "list"},
            bucket : AllBuckets, key : ObjectKeys \cup {0}, outcome : Outcomes]
  BY <1>1, EndedType DEF AllBuckets, Outcomes
<1>3. StoTyped'
  BY <1>1, <1>2, BucketAssumption
  DEF StoInv, StoTyped, Stores, NewClient, listVars, AllBuckets
<1>4. ClientInv'
  BY <1>1, <1>2, BucketAssumption
  DEF StoInv, ClientInv, IsFS, FSKinds, AllBuckets
<1>5. ReportedInv' BY DEF StoInv, ReportedInv, NewClient, listVars
<1> QED BY <1>2, <1>3, <1>4, <1>5, NotListing DEF StoInv

\* Objects are never removed.
Grows ==
  \A b \in Buckets, k \in ObjectKeys :
    objects[b][k] # "absent" => objects'[b][k] # "absent"

\* A call that ends at once and is not a listing.
LEMMA CallInv ==
  ASSUME StoInv, NEW keep, DropListing(keep),
         UNCHANGED client, client.kind # "none", Grows, objects' \in Stores,
         NEW op \in {"get", "head", "put", "list"}, NEW b \in AllBuckets,
         NEW k \in ObjectKeys \cup {0}, NEW out \in Outcomes,
         call' = Ended(op, b, k, out),
         op = "list" => out = "invalid",
         op = "put" /\ out = "running" =>
           client.bucket \in Buckets /\ b \in Buckets /\ k # 0
  PROVE  StoInv'
<1>1. call'.op = op /\ call'.outcome = out /\ call'.bucket = b /\ call'.key = k
  BY EndedType
<1>2. call' \in [op : {"none", "new", "get", "head", "put", "list"},
                 bucket : AllBuckets, key : ObjectKeys \cup {0}, outcome : Outcomes]
  BY EndedType
<1>3. StoTyped' /\ ReportedInv'
  BY <1>2, DropKeeps DEF StoInv, StoTyped, Stores, Grows
<1>4. ClientInv' BY <1>1 DEF StoInv, ClientInv, IsFS, Idle
<1> QED BY <1>1, <1>3, <1>4, NotListing DEF StoInv

\* GetObject, whatever comes back.
LEMMA GetInv == ASSUME StoInv, NEW p \in Paths, GetObject(p) PROVE StoInv'
<1>1. StoTyped BY DEF StoInv
<1>2. PICK out \in {"ok", "error", "missing", "invalid", "panic"} :
        call' = Ended("get", Means(p), p.key, out)
  BY DEF GetObject, GetFS, GetS3, GetOSS
<1>3. out \in Outcomes BY <1>2 DEF Outcomes
<1>4. Grows /\ objects' \in Stores
  BY <1>1 DEF GetObject, Grows, StoTyped, Stores
<1>5. DropListing({p.key}) /\ UNCHANGED client /\ client.kind # "none"
  BY DEF GetObject
<1> QED BY <1>1, <1>2, <1>3, <1>4, <1>5, PathTypes, CallInv

\* HeadObject, whatever comes back.
LEMMA HeadInv == ASSUME StoInv, NEW p \in Paths, HeadObject(p) PROVE StoInv'
<1>1. StoTyped BY DEF StoInv
<1>2. PICK out \in {"ok", "error", "missing", "invalid", "panic"} :
        call' = Ended("head", NoBucket, 0, out)
  BY DEF HeadObject, HeadFS, HeadS3, HeadOSS
<1>3. out \in Outcomes /\ NoBucket \in AllBuckets BY <1>2 DEF Outcomes, AllBuckets
<1>4. Grows /\ objects' \in Stores
  BY <1>1 DEF HeadObject, Grows, StoTyped, Stores
<1>5. DropListing({}) /\ UNCHANGED client /\ client.kind # "none"
  BY DEF HeadObject
<1> QED BY <1>1, <1>2, <1>3, <1>4, <1>5, PathTypes, CallInv

\* Uploads and files: an object is replaced by one that is there.
LEMMA ReplaceGrows ==
  ASSUME StoTyped, NEW b \in Buckets, NEW k \in ObjectKeys,
         NEW o \in {"partial", "whole"},
         objects' = [objects EXCEPT ![b][k] = o]
  PROVE  Grows /\ objects' \in Stores
BY DEF Grows, StoTyped, Stores

\* Nothing changes in the buckets.
LEMMA SameGrows ==
  ASSUME StoTyped, UNCHANGED objects
  PROVE  Grows /\ objects' \in Stores
BY DEF Grows, StoTyped, Stores

\* An upload, successful or not.
LEMMA UploadInv ==
  ASSUME StoInv, NEW r, r.bucket \in Buckets, Upload(r), DropListing({}),
         UNCHANGED client, client.kind # "none"
  PROVE  StoInv'
<1>1. StoTyped BY DEF StoInv
<1>2. PICK out \in {"ok", "error"}, o \in {At(r), "whole"} :
        /\ call' = Ended("put", NoBucket, 0, out)
        /\ objects' = IF r.key \in ObjectKeys
                      THEN [objects EXCEPT ![r.bucket][r.key] = o] ELSE objects
  BY DEF Upload
<1>3. Grows /\ objects' \in Stores
  <2>1. CASE r.key \notin ObjectKeys BY <1>1, <1>2, <2>1, SameGrows
  <2>2. CASE r.key \in ObjectKeys /\ o = "whole"
    BY <1>1, <1>2, <2>2, ReplaceGrows
  <2>3. CASE r.key \in ObjectKeys /\ o = At(r)
    <3>1. objects' = objects BY <1>1, <1>2, <2>3 DEF At, StoTyped, Stores
    <3> QED BY <1>1, <3>1, SameGrows
  <2> QED BY <2>1, <2>2, <2>3, <1>2
<1>4. out \in Outcomes /\ NoBucket \in AllBuckets /\ out # "running"
  BY <1>2 DEF Outcomes, AllBuckets
<1> QED BY <1>2, <1>3, <1>4, CallInv

\* PutObject of the three backends.
LEMMA PutInv ==
  ASSUME StoInv, NEW p \in Paths, PutS3(p) \/ PutOSS(p) \/ PutFS(p)
  PROVE  StoInv'
<1>1. StoTyped BY DEF StoInv
<1>2. DropListing({}) /\ UNCHANGED client /\ client.kind # "none"
  BY DEF PutS3, PutOSS, PutFS, IsFS, FSKinds
<1>3. /\ NoBucket \in AllBuckets /\ "invalid" \in Outcomes
      /\ "error" \in Outcomes /\ "running" \in Outcomes
  BY DEF Outcomes, AllBuckets
<1>4. CASE call' = Ended("put", NoBucket, 0, "invalid") /\ UNCHANGED objects
  BY <1>1, <1>2, <1>3, <1>4, SameGrows, CallInv
<1>5. CASE call' = Ended("put", NoBucket, 0, "error") /\ UNCHANGED objects
  BY <1>1, <1>2, <1>3, <1>5, SameGrows, CallInv
<1>6. CASE resolveObjectPath(p).ok /\ Upload(resolveObjectPath(p))
  BY <1>1, <1>2, <1>6, PathTypes, UploadInv
<1>7. CASE /\ IsFS /\ p.key # 0
           /\ objects' = [objects EXCEPT ![client.bucket][p.key] = "partial"]
           /\ call' = Ended("put", client.bucket, p.key, "running")
  <2>1. client.bucket \in Buckets BY <1>7 DEF StoInv, ClientInv
  <2>2. p.key \in ObjectKeys BY <1>1, <1>7, PathTypes
  <2>3. Grows /\ objects' \in Stores
    BY <1>1, <1>7, <2>1, <2>2, ReplaceGrows
  <2> QED BY <1>2, <1>3, <1>7, <2>1, <2>2, <2>3, CallInv DEF AllBuckets
<1> QED BY <1>4, <1>5, <1>6, <1>7 DEF PutS3, PutOSS, PutFS, RefusedOSS

\* A file is written to its end, or not.
LEMMA CopyInv == ASSUME StoInv, CopyFS PROVE StoInv'
<1>1. StoTyped BY DEF StoInv
<1>2. DropListing({}) /\ UNCHANGED client BY DEF CopyFS
<1>3. client.kind # "none" BY DEF CopyFS, StoInv, ClientInv
<1>4. /\ NoBucket \in AllBuckets /\ "ok" \in Outcomes /\ "error" \in Outcomes
  BY DEF Outcomes, AllBuckets
<1>5. call.bucket \in Buckets /\ call.key \in ObjectKeys
  BY DEF CopyFS, StoInv, ClientInv, StoTyped, Stores
<1>6. CASE /\ objects' = [objects EXCEPT ![call.bucket][call.key] = "whole"]
           /\ call' = Ended("put", NoBucket, 0, "ok")
  BY <1>1, <1>2, <1>3, <1>4, <1>5, <1>6, ReplaceGrows, CallInv
<1>7. CASE call' = Ended("put", NoBucket, 0, "error") /\ UNCHANGED objects
  BY <1>1, <1>2, <1>3, <1>4, <1>7, SameGrows, CallInv
<1> QED BY <1>6, <1>7 DEF CopyFS

-----------------------------------------------------------------------------
(* Listings.                                                               *)

\* Another program's object takes nothing away.
LEMMA StoredInv ==
  ASSUME StoInv, NEW b \in Buckets, NEW k \in ObjectKeys, Stored(b, k)
  PROVE  StoInv'
<1>1. Grows /\ objects' \in Stores
  BY ReplaceGrows DEF Stored, StoInv
<1>2. UNCHANGED <<client, call, listing, before, reported, calls>>
  BY DEF Stored, listVars
<1>3. StoTyped' BY <1>1, <1>2 DEF StoInv, StoTyped, Stores
<1>4. ClientInv' BY <1>2 DEF StoInv, ClientInv, IsFS, Idle
<1>5. ReportedInv' BY <1>1, <1>2 DEF StoInv, ReportedInv, Grows, StoTyped, Stores
<1>6. SoundInv'
  BY <1>1, <1>2 DEF StoInv, SoundInv, Grows, StoTyped, Stores, InScope
<1>7. FilesInv'
  <2>1. Listing => listing.asked \in Buckets
    BY DEF StoInv, SoundInv, Listing, Idle
  <2> QED BY <1>1, <1>2, <2>1
          DEF StoInv, FilesInv, Grows, StoTyped, Stores, InScope, Listing, Idle
<1>8. PagesInv' BY <1>2 DEF StoInv, PagesInv, Met, InScope, Listing, Idle, IsFS
<1>9. WalkInv'
  BY <1>2 DEF StoInv, WalkInv, Met, InScope, Listing, Idle, IsFS, Full
<1>10. DoneInv' BY <1>2 DEF StoInv, DoneInv, InScope, IsFS, Full
<1> QED BY <1>3, <1>4, <1>5, <1>6, <1>7, <1>8, <1>9, <1>10 DEF StoInv

\* A listing begins: services have a page to ask for, file systems the
\* directory they were asked for.
LEMMA BeginInv ==
  ASSUME StoInv, NEW p, NEW b \in Buckets, NEW d \in Seq(STRING),
         NEW r \in BOOLEAN, NEW more, NEW dirs,
         Means(p) = b, client.kind # "none", UNCHANGED <<client, objects>>,
         IF IsFS THEN more = FALSE /\ dirs = {d} ELSE more = TRUE /\ dirs = {},
         BeginList(p, b, d, r, more, dirs)
  PROVE  StoInv'
<1> DEFINE new == [asked |-> b, bucket |-> b, prefix |-> d, recursion |-> r,
                   token |-> 0, more |-> more, files |-> {}, dirs |-> dirs,
                   cancelled |-> FALSE]
<1>1. /\ listing' = new /\ before' = Present(b, d)
      /\ reported' = {} /\ calls' = 0
      /\ call' = Ended("list", NoBucket, 0, "running")
  BY DEF BeginList
<1>2. /\ listing'.asked = b /\ listing'.bucket = b /\ listing'.prefix = d
      /\ listing'.recursion = r /\ listing'.token = 0 /\ listing'.more = more
      /\ listing'.files = {} /\ listing'.dirs = dirs
  BY <1>1
<1>3. call'.op = "list" /\ call'.outcome = "running" BY <1>1, EndedType
<1>4. call' \in [op : {"none", "new", "get", "head", "put", "list"},
                 bucket : AllBuckets, key : ObjectKeys \cup {0},
                 outcome : Outcomes]
  BY <1>1, EndedType DEF AllBuckets, Outcomes
<1>5. StoTyped'
  <2>1. IsFiniteSet(reported') BY <1>1, FS_EmptySet
  <2>2. more \in BOOLEAN /\ dirs \in SUBSET Seq(STRING) OBVIOUS
  <2>3. before' \in SUBSET ObjectKeys BY <1>1 DEF Present
  <2> QED BY <1>1, <1>4, <2>1, <2>2, <2>3 DEF StoInv, StoTyped, Stores, AllBuckets
<1>6. ClientInv' BY <1>3 DEF StoInv, ClientInv, IsFS, Idle
<1>7. ReportedInv' BY <1>1 DEF ReportedInv
<1>8. SoundInv'
  <2>1. Cardinality(reported') = 0 BY <1>1, FS_EmptySet
  <2> QED BY <1>1, <1>2, <2>1 DEF SoundInv, Present
<1>9. FilesInv' BY <1>2 DEF FilesInv
<1>10. PagesInv'
  <2> SUFFICES ASSUME ~IsFS PROVE PagesInv' BY DEF PagesInv, IsFS
  <2>1. \A k \in before' : k \in Nat \ {0} BY <1>1, KeysAssumption DEF Present
  <2>2. \A k \in before' : ~(k <= listing'.token) BY <1>2, <2>1
  <2>3. \A k : ~Met(k)' BY <1>1, <1>2 DEF Met
  <2>4. listing'.dirs = {} /\ listing'.more = TRUE BY <1>2
  <2> QED BY <2>2, <2>3, <2>4 DEF PagesInv
<1>11. WalkInv'
  <2> SUFFICES ASSUME IsFS PROVE WalkInv' BY DEF WalkInv, IsFS
  <2>1. Len(d) \in Nat OBVIOUS
  <2> QED BY <1>1, <1>2, <2>1 DEF WalkInv, Met, Present
<1>12. DoneInv' BY <1>3 DEF DoneInv
<1> QED BY <1>5, <1>6, <1>7, <1>8, <1>9, <1>10, <1>11, <1>12 DEF StoInv

\* ListObject of the three backends is called.
LEMMA ListInv ==
  ASSUME StoInv, NEW p \in Paths, NEW d \in Prefixes, NEW r \in BOOLEAN,
         ListS3(p, d, r) \/ ListOSS(p, d, r) \/ ListFS(p, d, r)
  PROVE  StoInv'
<1>1. StoTyped BY DEF StoInv
<1>2. d \in Seq(STRING)
  <2>1. PICK k \in ObjectKeys :
          \E n \in 0 .. Len(Folder[k]) : d = SubSeq(Folder[k], 1, n)
    BY DEF Prefixes
  <2>2. PICK n \in 0 .. Len(Folder[k]) : d = SubSeq(Folder[k], 1, n) BY <2>1
  <2>3. Folder[k] \in Seq(STRING) /\ Len(Folder[k]) \in Nat
    BY FolderAssumption
  <2>4. \A i \in 1 .. n : Folder[k][i] \in STRING BY <2>3
  <2> QED BY <2>2, <2>3, <2>4, SubSeqProperties
<1>3. UNCHANGED <<client, objects>> /\ client.kind # "none"
  BY DEF ListS3, ListOSS, ListFS, IsFS, FSKinds
<1>4. CASE ListInvalid
  BY <1>1, <1>3, <1>4, SameGrows, CallInv DEF ListInvalid, Outcomes, AllBuckets
<1>5. CASE ~IsFS /\ \E b \in Buckets : /\ b = resolveObjectPath(p).bucket
                                     /\ BeginList(p, b, d, r, TRUE, {})
  BY <1>1, <1>2, <1>3, <1>5, PathTypes, BeginInv
<1>6. CASE IsFS /\ BeginList(p, client.bucket, d, r, FALSE, {d})
  <2>1. client.bucket \in Buckets /\ Means(p) = client.bucket
    BY <1>6 DEF StoInv, ClientInv, Means
  <2> QED BY <1>2, <1>3, <1>6, <2>1, BeginInv
<1>7. ListS3(p, d, r) =>
        \/ ListInvalid
        \/ ~IsFS /\ \E b \in Buckets : /\ b = resolveObjectPath(p).bucket
                                     /\ BeginList(p, b, d, r, TRUE, {})
  BY <1>1, PathTypes DEF ListS3, IsFS, FSKinds
<1>8. ListOSS(p, d, r) =>
        \/ ListInvalid
        \/ ~IsFS /\ \E b \in Buckets : /\ b = resolveObjectPath(p).bucket
                                     /\ BeginList(p, b, d, r, TRUE, {})
  BY <1>1, PathTypes DEF ListOSS, IsFS, FSKinds, AllBuckets
<1>9. ListFS(p, d, r) => IsFS /\ BeginList(p, client.bucket, d, r, FALSE, {d})
  BY DEF ListFS, StripPrefix
<1> QED BY <1>4, <1>5, <1>6, <1>7, <1>8, <1>9

\* The context of a listing is cancelled.
LEMMA CancelInv == ASSUME StoInv, Cancel PROVE StoInv'
<1>1. /\ listing'.asked = listing.asked /\ listing'.bucket = listing.bucket
      /\ listing'.prefix = listing.prefix /\ listing'.token = listing.token
      /\ listing'.recursion = listing.recursion /\ listing'.more = listing.more
      /\ listing'.files = listing.files /\ listing'.dirs = listing.dirs
  BY DEF Cancel, StoInv, StoTyped, Stores
<1>2. UNCHANGED <<client, objects, call, before, reported, calls>>
  BY DEF Cancel
<1>3. StoTyped' BY <1>2 DEF Cancel, StoInv, StoTyped, Stores
<1>4. ClientInv' BY <1>2 DEF StoInv, ClientInv, IsFS, Idle
<1>5. ReportedInv' BY <1>1, <1>2 DEF StoInv, ReportedInv
<1>6. SoundInv' BY <1>1, <1>2 DEF StoInv, SoundInv, InScope
<1>7. FilesInv' BY <1>1, <1>2 DEF StoInv, FilesInv, InScope, Listing, Idle
<1>8. PagesInv'
  BY <1>1, <1>2 DEF StoInv, PagesInv, Met, InScope, Listing, Idle, IsFS
<1>9. WalkInv'
  BY <1>1, <1>2 DEF StoInv, WalkInv, Met, InScope, Listing, Idle, IsFS, Full
<1>10. DoneInv' BY <1>1, <1>2 DEF StoInv, DoneInv, InScope, IsFS, Full
<1> QED BY <1>3, <1>4, <1>5, <1>6, <1>7, <1>8, <1>9, <1>10 DEF StoInv

\* A listing that returns without success says nothing of what it met.
LEMMA AbortInv ==
  ASSUME StoInv, Listing, NEW out \in {"cancelled", "error"}, ReturnList(out)
  PROVE  StoInv'
<1>1. call'.op = "list" /\ call'.outcome = out
  BY DEF ReturnList, Listing, StoInv, StoTyped, Stores
<1>2. UNCHANGED <<client, objects, before, reported, calls>> BY DEF ReturnList
<1>3. /\ listing'.asked = listing.asked
      /\ listing' = [NoListing(listing.asked) EXCEPT
                       !.prefix = listing.prefix, !.recursion = listing.recursion]
  BY DEF ReturnList, NoListing
<1>4. StoTyped'
  <2>1. listing' \in [asked : AllBuckets, bucket : AllBuckets,
                  prefix : Seq(STRING), recursion : BOOLEAN, token : Nat,
                  more : BOOLEAN, files : SUBSET ObjectKeys,
                  dirs : SUBSET Seq(STRING), cancelled : BOOLEAN]
    BY <1>3 DEF NoListing, StoInv, StoTyped, Stores
  <2> QED BY <1>2, <2>1 DEF StoInv, StoTyped, Stores, ReturnList, Outcomes
<1>5. ClientInv' BY <1>1, <1>2 DEF StoInv, ClientInv, IsFS, Idle, Listing
<1>6. ReportedInv' BY <1>2, <1>3 DEF StoInv, ReportedInv
<1>7. SoundInv' /\ FilesInv' /\ PagesInv' /\ WalkInv' /\ DoneInv'
  BY <1>1 DEF SoundInv, FilesInv, PagesInv, WalkInv, DoneInv, Listing, Idle
<1> QED BY <1>4, <1>5, <1>6, <1>7 DEF StoInv

\* A listing that has nothing left to do is complete.
LEMMA EndInv == ASSUME StoInv, EndList PROVE StoInv'
<1>1. call'.op = "list" /\ call'.outcome = "ok" /\ call.op = "list"
  BY DEF EndList, ReturnList, Listing, StoInv, StoTyped, Stores
<1>2. UNCHANGED <<client, objects, before, reported, calls>>
  BY DEF EndList, ReturnList
<1>3. /\ listing'.asked = listing.asked /\ listing'.prefix = listing.prefix
      /\ listing'.recursion = listing.recursion
      /\ listing' = [NoListing(listing.asked) EXCEPT
                       !.prefix = listing.prefix, !.recursion = listing.recursion]
  BY DEF EndList, ReturnList, NoListing
<1>4. StoTyped'
  <2>1. listing' \in [asked : AllBuckets, bucket : AllBuckets,
                  prefix : Seq(STRING), recursion : BOOLEAN, token : Nat,
                  more : BOOLEAN, files : SUBSET ObjectKeys,
                  dirs : SUBSET Seq(STRING), cancelled : BOOLEAN]
    BY <1>3 DEF NoListing, StoInv, StoTyped, Stores
  <2> QED BY <1>2, <2>1 DEF StoInv, StoTyped, Stores, EndList, ReturnList, Outcomes
<1>5. ClientInv' BY <1>1, <1>2 DEF StoInv, ClientInv, IsFS, Idle
<1>6. ReportedInv' BY <1>2, <1>3 DEF StoInv, ReportedInv
<1>7. call.outcome = "running" BY DEF EndList, Listing, Idle
<1>8. SoundInv' BY <1>1, <1>2, <1>3, <1>7 DEF StoInv, SoundInv, InScope
<1>9. FilesInv' /\ PagesInv' /\ WalkInv'
  BY <1>1 DEF FilesInv, PagesInv, WalkInv, Listing, Idle
<1>10. DoneInv'
  <2>1. ASSUME NEW k \in before, InScope(k), IsFS => Full PROVE k \in reported
    <3>1. listing.files = {} /\ listing.dirs = {} /\ ~listing.more /\ Listing
      BY DEF EndList
    <3>2. CASE IsFS
      BY <2>1, <3>1, <3>2 DEF StoInv, WalkInv, Met
    <3>3. CASE ~IsFS
      BY <2>1, <3>1, <3>3 DEF StoInv, PagesInv, Met
    <3> QED BY <3>2, <3>3
  <2>2. \A k : InScope(k)' = InScope(k) BY <1>3 DEF InScope
  <2>3. Full' = Full /\ IsFS' = IsFS BY <1>2, <1>3 DEF Full, IsFS
  <2> QED BY <1>2, <2>1, <2>2, <2>3 DEF DoneInv
<1> QED BY <1>4, <1>5, <1>6, <1>8, <1>9, <1>10 DEF StoInv

\* The next page takes the token forward and leaves no key out.
LEMMA PageInv ==
  ASSUME StoInv, Listing, listing.more, listing.files = {},
         NEW upto \in ObjectKeys, listing.token < upto, ListPage(upto)
  PROVE  StoInv'
<1>1. /\ listing'.asked = listing.asked /\ listing'.bucket = listing.bucket
      /\ listing'.prefix = listing.prefix /\ listing'.token = upto
      /\ listing'.recursion = listing.recursion
      /\ listing'.more = Truncated(upto)
      /\ listing'.files = Page(upto) /\ listing'.dirs = listing.dirs
  BY DEF ListPage, StoInv, StoTyped, Stores
<1>2. UNCHANGED <<client, objects, call, before, reported, calls>>
  BY DEF ListPage
<1>3. upto \in Nat /\ listing.token \in Nat
  BY KeysAssumption DEF StoInv, StoTyped, Stores
<1>4. StoTyped'
  <2>1. Page(upto) \in SUBSET ObjectKeys BY DEF Page, Present
  <2>2. Truncated(upto) \in BOOLEAN BY DEF Truncated
  <2> QED BY <1>2, <1>3, <2>1, <2>2 DEF ListPage, StoInv, StoTyped, Stores
<1>5. ClientInv' BY <1>2 DEF StoInv, ClientInv, IsFS, Idle
<1>6. ReportedInv' BY <1>1, <1>2 DEF StoInv, ReportedInv
<1>7. SoundInv' BY <1>1, <1>2 DEF StoInv, SoundInv, InScope
<1>8. ~IsFS BY DEF StoInv, WalkInv
<1>9. listing.bucket = listing.asked BY DEF StoInv, FilesInv
<1>10. \A k \in Page(upto) :
         /\ k \in ObjectKeys /\ objects[listing.asked][k] # "absent"
         /\ InScope(k) /\ listing.token < k /\ k <= upto
  BY <1>9 DEF Page, Present, InScope
<1>11. \A k \in reported : k \in Nat /\ k <= listing.token
  BY <1>8, KeysAssumption DEF StoInv, PagesInv, Met, StoTyped, Stores
<1>12. FilesInv'
  <2>1. \A k \in Page(upto) : k \notin reported
    BY <1>3, <1>10, <1>11
  <2> QED BY <1>1, <1>2, <1>9, <1>10, <2>1
          DEF FilesInv, InScope, StoInv, Listing, Idle
<1>13. PagesInv'
  <2>1. listing'.dirs = {} BY <1>1, <1>8 DEF StoInv, PagesInv
  <2>2. \A k \in ObjectKeys : Met(k)' => k <= listing'.token
    BY <1>1, <1>2, <1>3, <1>10, <1>11 DEF Met
  <2>3. ASSUME NEW k \in before, InScope(k), k <= upto PROVE Met(k)'
    <3>1. k \in ObjectKeys /\ k \in Nat
      BY KeysAssumption DEF StoInv, StoTyped, Stores
    <3>2. CASE k <= listing.token
      BY <1>2, <1>8, <2>3, <3>2 DEF StoInv, PagesInv, Met
    <3>3. CASE listing.token < k
      <4>1. k \in Present(listing.bucket, listing.prefix)
        BY <1>9, <3>1 DEF StoInv, SoundInv, Present, Listing, Idle
      <4>2. k \in Page(upto) BY <2>3, <3>3, <4>1 DEF Page, InScope
      <4> QED BY <1>1, <4>2 DEF Met
    <3> QED BY <1>3, <3>1, <3>2, <3>3
  <2>4. listing'.more \/ \A k \in before : k <= upto
    <3>1. \A k \in before : k \in Present(listing.bucket, listing.prefix)
      BY <1>9 DEF StoInv, StoTyped, Stores, SoundInv, Present, Listing, Idle
    <3>2. \A k \in before : k \in Nat BY KeysAssumption DEF StoInv, StoTyped, Stores
    <3> QED BY <1>1, <1>3, <3>1, <3>2 DEF Truncated
  <2>5. \A k : InScope(k)' = InScope(k) BY <1>1 DEF InScope
  <2> QED BY <1>1, <1>2, <2>1, <2>2, <2>3, <2>4, <2>5 DEF PagesInv
<1>14. WalkInv' BY <1>2, <1>8 DEF WalkInv, IsFS
<1>15. DoneInv' BY <1>2 DEF DoneInv, Listing, Idle
<1> QED BY <1>4, <1>5, <1>6, <1>7, <1>12, <1>13, <1>14, <1>15 DEF StoInv

\* A directory is read or skipped: what was below it has been met or is below
\* one of its own directories.
LEMMA WalkStepInv ==
  ASSUME StoInv, Listing, NEW d \in listing.dirs, IsFS, NEW files, NEW dirs,
         listing' = [listing EXCEPT !.files = @ \cup files,
                                    !.dirs = (@ \ {d}) \cup dirs],
         UNCHANGED <<client, objects, call, before, reported, calls>>,
         \/ /\ d = <<>> \/ listing.recursion
            /\ files = {k \in Present(listing.bucket, d) : Folder[k] = d}
            /\ dirs = SubFolders(listing.bucket, d)
         \/ /\ d # <<>> /\ ~listing.recursion
            /\ files = {} /\ dirs = {}
  PROVE  StoInv'
<1>1. StoTyped BY DEF StoInv
<1>2. /\ listing'.asked = listing.asked /\ listing'.bucket = listing.bucket
      /\ listing'.prefix = listing.prefix /\ listing'.token = listing.token
      /\ listing'.recursion = listing.recursion /\ listing'.more = listing.more
      /\ listing'.files = listing.files \cup files
      /\ listing'.dirs = (listing.dirs \ {d}) \cup dirs
  BY <1>1 DEF StoTyped, Stores
<1>3. d \in Seq(STRING) /\ Len(d) \in Nat BY <1>1 DEF StoTyped, Stores
<1>4. listing.bucket = listing.asked /\ listing.asked \in Buckets
  BY DEF StoInv, FilesInv, SoundInv, Listing, Idle
<1>5. \A k \in files :
        /\ k \in ObjectKeys /\ Folder[k] = d /\ InFolder(k, d)
        /\ objects[listing.asked][k] # "absent"
        /\ d = <<>> \/ listing.recursion
  BY <1>4 DEF Present
<1>6. \A e \in dirs : e \in Seq(STRING) /\ Len(e) = Len(d) + 1
        /\ \A k \in ObjectKeys :
             InFolder(k, e) => InFolder(k, d) /\ Len(Folder[k]) > Len(d)
  <2> SUFFICES ASSUME NEW e \in dirs
               PROVE  /\ e \in Seq(STRING) /\ Len(e) = Len(d) + 1
                      /\ \A k \in ObjectKeys : InFolder(k, e) =>
                           InFolder(k, d) /\ Len(Folder[k]) > Len(d)
    OBVIOUS
  <2>1. PICK j \in Present(listing.bucket, d) :
          Len(Folder[j]) > Len(d) /\ e = SubSeq(Folder[j], 1, Len(d) + 1)
    BY DEF SubFolders
  <2>2. j \in ObjectKeys /\ InFolder(j, d) BY DEF Present
  <2> QED BY <1>3, <2>1, <2>2, NextFolder, Within
<1>7. \A k \in ObjectKeys, e \in listing.dirs :
        InFolder(k, e) => ~Met(k) /\ InFolder(k, listing.prefix)
                            /\ \A f \in listing.dirs : InFolder(k, f) => f = e
  BY DEF StoInv, WalkInv
<1>8. /\ Len(listing.prefix) <= Len(d) /\ listing.prefix \in Seq(STRING)
      /\ Len(listing.prefix) \in Nat
  BY <1>1 DEF StoInv, WalkInv, StoTyped, Stores
<1>9. StoTyped'
  <2>1. files \subseteq ObjectKeys BY <1>5
  <2>2. dirs \subseteq Seq(STRING) BY <1>6
  <2> QED BY <1>1, <2>1, <2>2 DEF StoTyped, Stores
<1>10. ClientInv' BY DEF StoInv, ClientInv, IsFS, Idle
<1>11. ReportedInv' BY <1>2 DEF StoInv, ReportedInv
<1>12. SoundInv' BY <1>2 DEF StoInv, SoundInv, InScope
<1>13. FilesInv'
  <2>1. ASSUME NEW k \in files PROVE InScope(k) /\ k \notin reported
    <3>1. ~Met(k) /\ InFolder(k, listing.prefix) BY <1>5, <1>7
    <3>2. listing.recursion \/ Folder[k] = listing.prefix
      <4> SUFFICES ASSUME ~listing.recursion PROVE Folder[k] = listing.prefix
        OBVIOUS
      <4>1. Folder[k] = <<>> /\ d = <<>> BY <1>5
      <4>2. Len(listing.prefix) = 0 BY <1>8, <4>1, EmptySeq
      <4>3. listing.prefix = <<>> BY <1>8, <4>2, EmptySeq
      <4> QED BY <4>1, <4>3
    <3> QED BY <3>1, <3>2 DEF InScope, Met
  <2> QED BY <1>2, <1>5, <2>1 DEF StoInv, FilesInv, InScope, Listing, Idle
<1>14. PagesInv' BY DEF PagesInv, IsFS
<1>15. WalkInv'
  <2>1. ASSUME NEW e \in listing.dirs \ {d}, NEW k \in ObjectKeys,
               InFolder(k, e)
        PROVE  /\ ~Met(k)' /\ InFolder(k, listing.prefix)
               /\ \A f \in listing'.dirs : InFolder(k, f) => f = e
    <3>1. ~InFolder(k, d) BY <1>7, <2>1
    <3>2. k \notin files BY <1>5, <3>1
    <3>3. \A f \in dirs : ~InFolder(k, f) BY <1>6, <3>1
    <3> QED BY <1>2, <1>7, <2>1, <3>2, <3>3 DEF Met
  <2>2. ASSUME NEW e \in dirs, NEW k \in ObjectKeys, InFolder(k, e)
        PROVE  /\ ~Met(k)' /\ InFolder(k, listing.prefix)
               /\ \A f \in listing'.dirs : InFolder(k, f) => f = e
    <3>1. InFolder(k, d) /\ Len(Folder[k]) > Len(d) BY <1>6, <2>2
    <3>2. k \notin files BY <1>3, <1>5, <3>1
    <3>3. \A f \in listing.dirs \ {d} : ~InFolder(k, f) BY <1>7, <3>1
    <3>4. \A f \in dirs : InFolder(k, f) => f = e
      <4>1. \A f \in dirs : Len(f) = Len(e) BY <1>6
      <4> QED BY <2>2, <4>1 DEF InFolder
    <3> QED BY <1>2, <1>7, <3>1, <3>2, <3>3, <3>4 DEF Met
  <2>3. \A e \in listing'.dirs : Len(listing'.prefix) <= Len(e)
    <3>1. \A e \in listing.dirs : Len(listing.prefix) <= Len(e)
      BY DEF StoInv, WalkInv
    <3>2. \A e \in dirs : Len(listing.prefix) <= Len(e) BY <1>3, <1>6, <1>8
    <3> QED BY <1>2, <3>1, <3>2
  <2>4. ASSUME Full, NEW k \in before, InScope(k), ~Met(k)'
        PROVE  \E e \in listing'.dirs : InFolder(k, e)
    <3>1. ~Met(k) BY <1>2, <2>4 DEF Met
    <3>2. PICK e \in listing.dirs : InFolder(k, e)
      BY <2>4, <3>1 DEF StoInv, WalkInv
    <3>3. CASE e # d BY <1>2, <3>2, <3>3
    <3>4. CASE e = d
      <4>1. k \in ObjectKeys /\ objects[listing.asked][k] # "absent"
        BY <1>1 DEF StoTyped, Stores, StoInv, SoundInv, Listing, Idle
      <4>2. k \in Present(listing.bucket, d)
        BY <1>4, <3>2, <3>4, <4>1 DEF Present
      <4>3. Folder[k] \in Seq(STRING) /\ Len(Folder[k]) \in Nat
        BY <4>1, FolderAssumption
      <4>4. CASE d # <<>> /\ ~listing.recursion
        <5>1. Folder[k] = <<>> BY <2>4, <4>4 DEF InScope, Full
        <5>2. Len(d) = 0 BY <1>3, <3>2, <3>4, <5>1, EmptySeq DEF InFolder
        <5> QED BY <1>3, <4>4, <5>2, EmptySeq
      <4>5. CASE d = <<>> \/ listing.recursion
        <5>1. k \notin files BY <1>2, <2>4 DEF Met
        <5>2. Folder[k] # d BY <4>2, <4>5, <5>1
        <5>3. SubSeq(Folder[k], 1, Len(Folder[k])) = Folder[k] BY <4>3
        <5>4. Len(Folder[k]) > Len(d)
          BY <1>3, <3>2, <3>4, <4>3, <5>2, <5>3 DEF InFolder
        <5>5. SubSeq(Folder[k], 1, Len(d) + 1) \in dirs
          BY <4>2, <4>5, <5>4 DEF SubFolders
        <5>6. InFolder(k, SubSeq(Folder[k], 1, Len(d) + 1))
          BY <1>3, <3>2, <3>4, <4>1, <5>4, NextFolder
        <5> QED BY <1>2, <5>5, <5>6
      <4> QED BY <4>4, <4>5
    <3> QED BY <3>3, <3>4
  <2>5. Full' = Full /\ \A k : InScope(k)' = InScope(k)
    BY <1>2 DEF Full, InScope
  <2>6. ~listing'.more BY <1>2 DEF StoInv, WalkInv
  <2> QED BY <1>2, <2>1, <2>2, <2>3, <2>4, <2>5, <2>6 DEF WalkInv
<1>16. DoneInv' BY DEF DoneInv, Listing, Idle
<1> QED BY <1>9, <1>10, <1>11, <1>12, <1>13, <1>14, <1>15, <1>16 DEF StoInv

\* WalkDir reads a directory, skips it or fails.
LEMMA WalkDirInv == ASSUME StoInv, NEW d, WalkDir(d) PROVE StoInv'
<1>1. Listing /\ d \in listing.dirs BY DEF WalkDir
<1>2. IsFS BY <1>1 DEF StoInv, PagesInv
<1>3. CASE ReturnList("error") BY <1>1, <1>3, AbortInv
<1>4. CASE ~ReturnList("error")
  <2>1. UNCHANGED <<client, objects, call, before, reported, calls>>
    BY <1>4 DEF WalkDir
  <2>2. CASE d = <<>> \/ listing.recursion
    <3>1. listing' = [listing EXCEPT
             !.files = @ \cup {k \in Present(listing.bucket, d) : Folder[k] = d},
             !.dirs = (@ \ {d}) \cup SubFolders(listing.bucket, d)]
      BY <1>4, <2>2 DEF WalkDir, StoInv, StoTyped, Stores
    <3> QED BY <1>1, <1>2, <2>1, <2>2, <3>1, WalkStepInv
  <2>3. CASE d # <<>> /\ ~listing.recursion
    <3>1. listing' = [listing EXCEPT !.files = @ \cup {},
                                     !.dirs = (@ \ {d}) \cup {}]
      <4>1. listing.files \cup {} = listing.files OBVIOUS
      <4>2. (listing.dirs \ {d}) \cup {} = listing.dirs \ {d} OBVIOUS
      <4>3. listing' = [listing EXCEPT !.dirs = listing.dirs \ {d}]
        BY <1>4, <2>3 DEF WalkDir
      <4>4. listing = [listing EXCEPT !.files = listing.files]
        BY DEF StoInv, StoTyped, Stores
      <4>5. listing' = [listing EXCEPT !.files = listing.files,
                                       !.dirs = listing.dirs \ {d}]
        BY <4>3, <4>4
      <4> QED BY <4>1, <4>2, <4>5
    <3> QED BY <1>1, <1>2, <2>1, <2>3, <3>1, WalkStepInv
  <2> QED BY <2>2, <2>3
<1> QED BY <1>3, <1>4

\* The callback moves a key from the files at hand to the reported ones.
LEMMA CallbackInv ==
  ASSUME StoInv, NEW c \in ObjectKeys, Callback(c) PROVE StoInv'
<1>1. StoTyped /\ Listing /\ c \in listing.files BY DEF StoInv, Callback
<1>2. /\ listing'.asked = listing.asked /\ listing'.bucket = listing.bucket
      /\ listing'.prefix = listing.prefix /\ listing'.token = listing.token
      /\ listing'.recursion = listing.recursion /\ listing'.more = listing.more
      /\ listing'.files = listing.files \ {c} /\ listing'.dirs = listing.dirs
  BY <1>1 DEF Callback, StoTyped, Stores
<1>3. UNCHANGED <<client, objects, call, before>> BY DEF Callback
<1>4. reported' = reported \cup {c} /\ calls' = calls + 1 BY DEF Callback
<1>5. /\ c \notin reported /\ InScope(c)
      /\ objects[listing.asked][c] # "absent" /\ listing.asked \in Buckets
      /\ calls = Cardinality(reported)
  BY <1>1 DEF StoInv, FilesInv, SoundInv, Listing, Idle
<1>6. /\ IsFiniteSet(reported')
      /\ Cardinality(reported') = Cardinality(reported) + 1
  BY <1>1, <1>4, <1>5, FS_AddElement DEF StoTyped, Stores
<1>7. \A k : Met(k)' = Met(k) /\ InScope(k)' = InScope(k)
  BY <1>1, <1>2, <1>4 DEF Met, InScope
<1>8. IsFS' = IsFS /\ Listing' = Listing /\ Full' = Full
  BY <1>2, <1>3 DEF IsFS, Listing, Idle, Full
<1>9. StoTyped'
  <2>1. listing' = [listing EXCEPT !.files = listing.files \ {c}]
    BY DEF Callback
  <2>2. listing' \in [asked : AllBuckets, bucket : AllBuckets,
                  prefix : Seq(STRING), recursion : BOOLEAN, token : Nat,
                  more : BOOLEAN, files : SUBSET ObjectKeys,
                  dirs : SUBSET Seq(STRING), cancelled : BOOLEAN]
    BY <1>1, <2>1 DEF StoTyped
  <2>3. calls' \in Nat BY <1>1, <1>4 DEF StoTyped
  <2> QED BY <1>1, <1>3, <1>4, <1>6, <2>2, <2>3 DEF StoTyped, Stores
<1>10. ClientInv' BY <1>3 DEF StoInv, ClientInv, IsFS, Idle
<1>11. ReportedInv' BY <1>2, <1>3, <1>4, <1>5 DEF StoInv, ReportedInv
<1>12. SoundInv'
  BY <1>2, <1>3, <1>4, <1>5, <1>6, <1>7 DEF StoInv, SoundInv
<1>13. FilesInv'
  BY <1>2, <1>3, <1>4, <1>7, <1>8 DEF StoInv, FilesInv
<1>14. PagesInv' BY <1>2, <1>3, <1>7, <1>8 DEF StoInv, PagesInv
<1>15. WalkInv' BY <1>2, <1>3, <1>7, <1>8 DEF StoInv, WalkInv
<1>16. DoneInv' BY <1>1, <1>3 DEF DoneInv, Listing, Idle
<1> QED BY <1>9, <1>10, <1>11, <1>12, <1>13, <1>14, <1>15, <1>16 DEF StoInv

\* Stuttering.
LEMMA StutterInv == ASSUME StoInv, UNCHANGED stoVars PROVE StoInv'
BY DEF StoInv, stoVars, listVars, StoTyped, Stores, ClientInv, ReportedInv, SoundInv,
       FilesInv, PagesInv, WalkInv, DoneInv, Met, InScope, Listing, Idle, IsFS,
       Full

\* Every step preserves the invariant.
LEMMA StepInv == StoInv /\ [StoNext]_stoVars => StoInv'
<1> SUFFICES ASSUME StoInv, [StoNext]_stoVars PROVE StoInv' OBVIOUS
<1>1. CASE NewClient BY <1>1, NewClientInv
<1>2. CASE \E b \in Buckets, k \in ObjectKeys : Stored(b, k)
  BY <1>2, StoredInv
<1>3. CASE \E p \in Paths :
        GetObject(p) \/ HeadObject(p) \/ PutS3(p) \/ PutOSS(p) \/ PutFS(p)
  BY <1>3, GetInv, HeadInv, PutInv
<1>4. CASE CopyFS BY <1>4, CopyInv
<1>5. CASE ListSteps
  <2>1. CASE \E p \in Paths, d \in Prefixes, r \in BOOLEAN :
          ListS3(p, d, r) \/ ListOSS(p, d, r) \/ ListFS(p, d, r)
    BY <2>1, ListInv
  <2>2. CASE Cancel BY <2>2, CancelInv
  <2>3. CASE NextPage BY <2>3, PageInv, AbortInv DEF NextPage
  <2>4. CASE StopList BY <2>4, AbortInv DEF StopList
  <2>5. CASE EndList BY <2>5, EndInv
  <2>6. CASE \E d \in Prefixes : WalkDir(d) BY <2>6, WalkDirInv
  <2>7. CASE \E k \in ObjectKeys : Callback(k) BY <2>7, CallbackInv
  <2> QED BY <1>5, <2>1, <2>2, <2>3, <2>4, <2>5, <2>6, <2>7 DEF ListSteps
<1>6. CASE UNCHANGED stoVars BY <1>6, StutterInv
<1> QED BY <1>1, <1>2, <1>3, <1>4, <1>5, <1>6 DEF StoNext

-----------------------------------------------------------------------------

\* ListObject of any backend, for any keys, folders, buckets and page size:
\* without an error it has called back once for each object that was in its
\* scope when it began, and only for objects that exist.
THEOREM ListingsComplete == StoSpec => []ListComplete
<1>1. StoInv => ListComplete
  <2> SUFFICES ASSUME StoInv, call.op = "list", call.outcome = "ok"
               PROVE  LET d == listing.prefix
                          scope == Scope(d, listing.recursion)
                      IN /\ reported \subseteq Present(listing.asked, d) \cap scope
                         /\ calls = Cardinality(reported)
                         /\ (IsFS => d = <<>> \/ listing.recursion)
                              => before \cap scope \subseteq reported
    BY DEF ListComplete
  <2>1. \A k \in reported : k \in ObjectKeys /\ InScope(k)
          /\ objects[listing.asked][k] # "absent"
    BY DEF StoInv, StoTyped, Stores, SoundInv, ReportedInv
  <2>2. calls = Cardinality(reported) BY DEF StoInv, SoundInv
  <2>3. (IsFS => Full) => \A k \in before : InScope(k) => k \in reported
    BY DEF StoInv, DoneInv
  <2> QED BY <2>1, <2>2, <2>3 DEF Scope, Present, InScope, Full
<1> QED BY <1>1, InitInv, StepInv, PTL DEF StoSpec

\* Only GetObject begins a call of GetObject; another step leaves the last
\* one and the client that made it alone.
LEMMA OnlyGetGets ==
  ASSUME StoInv, [StoNext]_stoVars, call'.op = "get",
         ~\E p \in Paths : GetObject(p)
  PROVE  UNCHANGED <<call, client, listing, reported>>
<1>1. \A op, b, k, out : Ended(op, b, k, out).op = op BY EndedType
<1>4. CASE NewClient
  BY <1>1, <1>4 DEF NewClient, NewFS, NewS3, NewOSS, NewFails, Built
<1>5. CASE \E b \in Buckets, k \in ObjectKeys : Stored(b, k)
  BY <1>5 DEF Stored, listVars
<1>6. CASE \E p \in Paths : HeadObject(p) \/ PutS3(p) \/ PutOSS(p) \/ PutFS(p)
  BY <1>1, <1>6 DEF HeadObject, PutS3, PutOSS, PutFS, Upload
<1>7. CASE CopyFS BY <1>1, <1>7 DEF CopyFS
<1>8. CASE ListSteps
  <2>1. \A out : ReturnList(out) /\ call.op = "list" => call'.op = "list"
    BY DEF ReturnList, StoInv, StoTyped, Stores
  <2>2. CASE \E p \in Paths, d \in Prefixes, r \in BOOLEAN :
          ListS3(p, d, r) \/ ListOSS(p, d, r) \/ ListFS(p, d, r)
    BY <1>1, <2>2 DEF ListS3, ListOSS, ListFS, BeginList, ListInvalid
  <2>3. CASE Cancel \/ NextPage \/ StopList \/ EndList
    BY <2>1, <2>3
    DEF Cancel, NextPage, StopList, EndList, ListPage, Listing
  <2>4. CASE \E d \in Prefixes : WalkDir(d)
    BY <2>1, <2>4 DEF WalkDir, Listing
  <2>5. CASE \E k \in ObjectKeys : Callback(k)
    BY <2>5 DEF Callback, Listing
  <2> QED BY <1>8, <2>2, <2>3, <2>4, <2>5 DEF ListSteps
<1>9. CASE UNCHANGED stoVars BY <1>9 DEF stoVars, listVars
<1> QED BY <1>4, <1>5, <1>6, <1>7, <1>8, <1>9 DEF StoNext

\* What a listing reported is opened by GetObject of oss and of a file system,
\* by key or by URL, unless the service fails: objects are never removed and
\* both resolve a path to the bucket its caller means.  s3 asks for the object
\* the listing reported as well, and panics when the service returns it.
THEOREM ListedFound == StoSpec => []ListedIsFound
<1>1. StoInit => ListedIsFound
  <2> SUFFICES ASSUME StoInit PROVE call.op # "get" BY DEF ListedIsFound
  <2> QED BY EndedType DEF StoInit
<1>2. StoInv /\ ListedIsFound /\ [StoNext]_stoVars => ListedIsFound'
  <2> SUFFICES ASSUME StoInv, ListedIsFound, [StoNext]_stoVars,
                      call'.op = "get"
               PROVE  ListedIsFound'
    BY DEF ListedIsFound
  <2>1. CASE UNCHANGED <<call, listing, reported, client>>
    BY <2>1 DEF ListedIsFound
  <2>2. CASE \E p \in Paths : GetObject(p)
    <3>1. PICK p \in Paths : GetObject(p) BY <2>2
    <3>2. PICK out \in IF IsFS THEN GetFS(p)
                ELSE IF client.kind = "s3" THEN GetS3(p) ELSE GetOSS(p) :
            call' = Ended("get", Means(p), p.key, out)
      BY <3>1 DEF GetObject
    <3>3. call'.bucket = Means(p) /\ call'.key = p.key /\ call'.outcome = out
      BY <3>2, EndedType
    <3>4. SUFFICES ASSUME Means(p) = listing'.asked, p.key \in reported'
                   PROVE  out \in IF client.kind = "s3" THEN {"panic", "error"}
                                                        ELSE {"ok", "error"}
      BY <3>1, <3>3 DEF ListedIsFound, GetObject
    <3>5. reported' # {} /\ p.key \in reported /\ Means(p) = listing.asked
      BY <3>1, <3>4 DEF GetObject, DropListing, NoListing
    <3>6. /\ Means(p) \in Buckets /\ p.key \in ObjectKeys
          /\ objects[Means(p)][p.key] # "absent" /\ p.key # 0
      BY <3>5, KeysAssumption DEF StoInv, ReportedInv, StoTyped, Stores
    <3>7. CASE IsFS BY <3>2, <3>6, <3>7 DEF GetFS, StripPrefix, At, Means, IsFS, FSKinds
    <3>8. CASE ~IsFS
      <4>1. resolveObjectPath(p).ok /\ resolveObjectPath(p).bucket = Means(p)
              /\ resolveObjectPath(p).key = p.key
        BY <3>6, <3>8, PathTypes, BucketAssumption
        DEF resolveObjectPath, Means, StoInv
      <4>2. At(resolveObjectPath(p)) # "absent" BY <3>6, <4>1 DEF At
      <4> QED BY <3>2, <3>6, <3>8, <4>1, <4>2 DEF GetS3, GetOSS, RefusedOSS
    <3> QED BY <3>7, <3>8
  <2>3. CASE ~\E p \in Paths : GetObject(p)
    <3>1. UNCHANGED <<call, listing, reported, client>> BY <2>3, OnlyGetGets
    <3> QED BY <2>1, <3>1
  <2> QED BY <2>2, <2>3
<1> QED BY <1>1, <1>2, InitInv, StepInv, PTL DEF StoSpec

-----------------------------------------------------------------------------
(* The permissions in the metadata of an object.                           *)

\* The type characters are different from one another and from the "-" that
\* stands for none of them.
LEMMA TypesDiffer ==
  /\ TypeOrder \in Seq(TypeChars) /\ Len(TypeOrder) = 13
  /\ \A i, j \in 1 .. 13 : TypeOrder[i] = TypeOrder[j] => i = j
  /\ "-" \notin TypeChars
  /\ IsFiniteSet(TypeChars)
<1>1. Len(TypeOrder) = 13 BY DEF TypeOrder
<1>2. TypeOrder = [i \in 1 .. 13 |-> TypeOrder[i]] BY DEF TypeOrder
<1>3. \A i \in 1 .. 13 : TypeOrder[i] \in TypeChars BY <1>1 DEF TypeChars
<1>4. TypeOrder \in [1 .. 13 -> TypeChars] BY <1>2, <1>3
<1>5. TypeOrder \in Seq(TypeChars) BY <1>2, <1>3
<1>6. \A i, j \in 1 .. 13 : TypeOrder[i] = TypeOrder[j] => i = j
  BY DEF TypeOrder
<1>7. \A i \in 1 .. 13 : TypeOrder[i] # "-" BY DEF TypeOrder
<1>8. TypeOrder \in Surjection(1 .. 13, TypeChars)
  BY <1>1, <1>4 DEF TypeChars, Surjection
<1>9. IsFiniteSet(1 .. 13)
  <2>1. 1 \in Int /\ 13 \in Int OBVIOUS
  <2> QED BY <2>1, FS_Interval
<1>10. IsFiniteSet(TypeChars) BY <1>8, <1>9, FS_Surjection
<1> QED BY <1>1, <1>5, <1>6, <1>7, <1>10 DEF TypeChars

Letters == {"r", "w", "x"}

\* Nor does "-" stand for a permission.
LEMMA RwxLetters == \A i \in 1 .. 9 : Rwx[i] \in Letters /\ Rwx[i] # "-"
BY DEF Rwx, Letters

\* A mode with at most one type character has a text of ten characters, the
\* first of which is its type.
LEMMA TextShape ==
  ASSUME NEW m \in Modes, IsFiniteSet(m.type), Cardinality(m.type) <= 1
  PROVE  \E c \in TypeChars \cup {"-"} :
           /\ m.type = {c} \cap TypeChars
           /\ ModeText(m) = <<c>> \o [i \in 1 .. 9 |-> IF 9 - i \in m.perm THEN Rwx[i] ELSE "-"]
<1> DEFINE t == Select(TypeOrder, m.type)
<1>1. m.type \subseteq TypeChars BY DEF Modes
<1>2. Cardinality(m.type) \in Nat BY FS_CardinalityType
<1>3. CASE m.type = {}
  <2>1. \A i \in 1 .. Len(TypeOrder) : TypeOrder[i] \notin m.type BY <1>3
  <2>2. t = <<>> BY <2>1, TypesDiffer, SelectFew
  <2>3. m.type = {"-"} \cap TypeChars BY <1>3, TypesDiffer
  <2> QED BY <2>2, <2>3 DEF ModeText
<1>4. CASE m.type # {}
  <2>1. PICK c : m.type = {c}
    <3>1. Cardinality(m.type) # 0 BY <1>4, FS_EmptySet
    <3>2. Cardinality(m.type) = 1 BY <1>2, <3>1
    <3> QED BY <3>2, FS_Singleton
  <2>2. c \in TypeChars BY <1>1, <2>1
  <2>3. PICK p \in 1 .. Len(TypeOrder) : TypeOrder[p] = c BY <2>2 DEF TypeChars
  <2>4. \A i \in 1 .. Len(TypeOrder) : TypeOrder[i] \in m.type <=> i = p
    BY <2>1, <2>3, TypesDiffer
  <2>5. t = <<c>> BY <2>3, <2>4, TypesDiffer, SelectFew
  <2>6. t # <<>> BY <2>5
  <2> QED BY <2>1, <2>2, <2>5, <2>6 DEF ModeText
<1> QED BY <1>3, <1>4

\* RawPermissionsToMode undoes FileMode.String.
LEMMA TextComesBack ==
  ASSUME NEW m \in Modes, IsFiniteSet(m.type), Cardinality(m.type) <= 1
  PROVE  RawPermissionsToMode(ModeText(m)) = m
<1> DEFINE rest == [i \in 1 .. 9 |-> IF 9 - i \in m.perm THEN Rwx[i] ELSE "-"]
           raw == ModeText(m)
<1>1. PICK c \in TypeChars \cup {"-"} : m.type = {c} \cap TypeChars /\ raw = <<c>> \o rest
  BY TextShape
<1>2. m.perm \subseteq 0 .. 8 /\ m = [type |-> m.type, perm |-> m.perm]
  BY DEF Modes
<1> DEFINE V == TypeChars \cup Letters \cup {"-"}
<1>3. rest \in Seq(V) /\ Len(rest) = 9
  <2>1. rest \in [1 .. 9 -> V] BY RwxLetters
  <2> QED BY <2>1
<1>4. <<c>> \in Seq(V) /\ Len(<<c>>) = 1 OBVIOUS
<1> HIDE DEF rest, raw, V
<1>5. Len(raw) = 10 /\ raw[1] = c /\ \A j \in 2 .. 10 : raw[j] = rest[j - 1]
  <2> DEFINE front == <<c>>
  <2>0. Len(front) = 1 /\ front[1] = c
    OBVIOUS
  <2>1. front \in Seq(V) /\ raw = front \o rest
    BY <1>1, <1>4
  <2> HIDE DEF front
  <2>2. \A s, t \in Seq(V) :
          /\ Len(s \o t) = Len(s) + Len(t)
          /\ \A j \in 1 .. Len(s) + Len(t) :
               (s \o t)[j] = IF j <= Len(s) THEN s[j] ELSE t[j - Len(s)]
    BY ConcatProperties
  <2>3. /\ Len(raw) = Len(front) + Len(rest)
        /\ \A j \in 1 .. Len(front) + Len(rest) :
             raw[j] = IF j <= Len(front) THEN front[j] ELSE rest[j - Len(front)]
    BY <1>3, <2>1, <2>2, Zenon
  <2>4. Len(rest) = 9
    BY <1>3
  <2>5. \A j \in 1 .. 10 : raw[j] = IF j <= 1 THEN front[j] ELSE rest[j - 1]
    BY <2>0, <2>3, <2>4
  <2> QED BY <2>0, <2>3, <2>4, <2>5
<1>6. \A i \in 0 .. 8 : raw[10 - i] = Rwx[9 - i] <=> i \in m.perm
  <2> SUFFICES ASSUME NEW i \in 0 .. 8
               PROVE  raw[10 - i] = Rwx[9 - i] <=> i \in m.perm
    OBVIOUS
  <2>1. 10 - i \in 2 .. 10 /\ (10 - i) - 1 = 9 - i /\ 9 - i \in 1 .. 9 /\ 9 - (9 - i) = i
    OBVIOUS
  <2>2. raw[10 - i] = rest[9 - i] BY <1>5, <2>1
  <2>3. rest[9 - i] = IF i \in m.perm THEN Rwx[9 - i] ELSE "-"
    BY <2>1 DEF rest
  <2> QED BY <2>1, <2>2, <2>3, RwxLetters
<1>7. {i \in 0 .. 8 : raw[10 - i] = Rwx[9 - i]} = m.perm BY <1>2, <1>6
<1>8. RawPermissionsToMode(raw) =
        [type |-> {raw[1]} \cap TypeChars,
         perm |-> {i \in 0 .. 8 : raw[10 - i] = Rwx[9 - i]}]
  BY <1>5 DEF RawPermissionsToMode
<1> QED BY <1>1, <1>2, <1>5, <1>7, <1>8 DEF raw

\* What GetObject of oss returns is an object, with its metadata.
GotObject ==
  call.op = "get" /\ call.outcome = "ok" /\ client.kind = "oss" =>
    call.key \in ObjectKeys

\* The permissions of an object come back from the text in its metadata, for
\* any of the 2^9 permissions and any type that is one character or none.
THEOREM ModeComesBack == StoSpec => []ModeKept
<1>1. StoInit => GotObject
  <2> SUFFICES ASSUME StoInit PROVE call.op # "get" BY DEF GotObject
  <2> QED BY EndedType DEF StoInit
<1>2. StoInv /\ GotObject /\ [StoNext]_stoVars => GotObject'
  <2> SUFFICES ASSUME StoInv, GotObject, [StoNext]_stoVars, call'.op = "get"
               PROVE  GotObject'
    BY DEF GotObject
  <2>1. CASE UNCHANGED <<call, client>> BY <2>1 DEF GotObject
  <2>2. CASE \E p \in Paths : GetObject(p)
    <3>1. PICK p \in Paths : GetObject(p) BY <2>2
    <3>2. PICK out \in IF IsFS THEN GetFS(p)
                ELSE IF client.kind = "s3" THEN GetS3(p) ELSE GetOSS(p) :
            call' = Ended("get", Means(p), p.key, out)
      BY <3>1 DEF GetObject
    <3>3. call'.key = p.key /\ call'.outcome = out /\ client' = client
      BY <3>1, <3>2, EndedType DEF GetObject
    <3>4. SUFFICES ASSUME out = "ok", client.kind = "oss"
                   PROVE  p.key \in ObjectKeys
      BY <3>3 DEF GotObject
    <3>5. ~IsFS BY <3>4 DEF IsFS, FSKinds
    <3>6. At(resolveObjectPath(p)) # "absent"
      BY <3>2, <3>4, <3>5 DEF GetOSS
    <3>7. resolveObjectPath(p).key = p.key BY PathTypes DEF StoInv
    <3> QED BY <3>6, <3>7 DEF At
  <2>3. CASE ~\E p \in Paths : GetObject(p)
    <3>1. UNCHANGED <<call, client>> BY <2>3, OnlyGetGets
    <3> QED BY <2>1, <3>1
  <2> QED BY <2>2, <2>3
<1>3. StoInv /\ GotObject => ModeKept
  <2> SUFFICES ASSUME call.key \in ObjectKeys, Cardinality(ModeOf[call.key].type) <= 1
               PROVE  GetMode = ModeOf[call.key]
    BY DEF GotObject, ModeKept
  <2>1. ModeOf[call.key] \in Modes BY ModeAssumption
  <2>2. IsFiniteSet(ModeOf[call.key].type)
    <3>1. ModeOf[call.key].type \in SUBSET TypeChars BY <2>1 DEF Modes
    <3> QED BY <3>1, TypesDiffer, FS_Subset
  <2> QED BY <2>1, <2>2, TextComesBack DEF GetMode
<1> QED BY <1>1, <1>2, <1>3, InitInv, StepInv, PTL DEF StoSpec

=============================================================================
