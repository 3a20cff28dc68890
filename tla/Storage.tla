------------------------------- MODULE Storage -------------------------------
(***************************************************************************)
(* clients/storage: the Storage clients of the packages fs, s3 and oss.    *)
(* A client has no state of its own once it is built, so its calls are     *)
(* followed one at a time; other programs store objects meanwhile.  A key  *)
(* is a positive number, ordered as the key strings are; 0 is the empty    *)
(* key.  An object is told apart by the permissions in its metadata.       *)
(***************************************************************************)
EXTENDS Integers, Sequences, FiniteSets, Selection

CONSTANTS
  ObjectKeys, \* keys of objects
  Folder,     \* the folders a key lies in, outermost first
  ModeOf,     \* the permissions an object is put with
  Buckets,    \* buckets of the service, or base directories of fs
  NoBucket,   \* the empty bucket name
  Homes,      \* the buckets clients are configured with, NoBucket if none
  MaxKeys     \* the number of objects in a page of a listing, at most

\* The file systems of NewClient, and one of the caller's that has OpenFile.
FSKinds == {"afero", "custom"}

\* The folders there are, <<>> among them.
Prefixes ==
  UNION {{SubSeq(Folder[k], 1, n) : n \in 0 .. Len(Folder[k])} :
           k \in ObjectKeys}

TypeOrder ==
  <<"d", "a", "l", "T", "L", "D", "p", "S", "u", "g", "c", "t", "?">>
TypeChars == {TypeOrder[i] : i \in 1 .. Len(TypeOrder)}
Modes == [type : SUBSET TypeChars, perm : SUBSET (0 .. 8)]

ASSUME KeysAssumption ==
  ObjectKeys \subseteq Nat \ {0} /\ MaxKeys \in Nat \ {0}
ASSUME FolderAssumption == \A k \in ObjectKeys : Folder[k] \in Seq(STRING)
ASSUME ModeAssumption == \A k \in ObjectKeys : ModeOf[k] \in Modes
ASSUME BucketAssumption ==
  NoBucket \notin Buckets /\ Homes \subseteq Buckets \cup {NoBucket}

VARIABLES
  client,       \* the client: its kind and its bucket (fs: its base)
  objects,      \* objects[b][k]: "absent", "partial" or "whole"
  call,         \* the call in progress or the last one, with its outcome
  listing,      \* ListObject: what it was asked for and how far it is, with
                \* the history asked: the bucket its caller means
  before,       \* history: the objects in the bucket when the listing began
  reported,     \* history: the keys handed to its callback
  calls         \* history: the number of times its callback was called

listVars == <<listing, before, reported, calls>>
stoVars == <<client, objects, call, listVars>>

IsFS == client.kind \in FSKinds
Idle == call.outcome # "running"

NoListing(b) ==
  [asked |-> b, bucket |-> b, prefix |-> <<>>, recursion |-> FALSE,
   token |-> 0, more |-> FALSE, files |-> {}, dirs |-> {}, cancelled |-> FALSE]

\* A new call drops what is no longer asked of the last listing: GetObject
\* keeps whether its own key was reported.
DropListing(keep) ==
  /\ reported' = reported \cap keep
  /\ listing' = NoListing(IF reported' = {} THEN NoBucket ELSE listing.asked)
  /\ before' = {} /\ calls' = 0

\* A call that has ended, with what a property needs to know of it.
Ended(op, b, k, out) == [op |-> op, bucket |-> b, key |-> k, outcome |-> out]

\* What callers pass as objectPath: a key, a URL, or a URL without a slash.
KeysOrNone == ObjectKeys \cup {0}
Paths ==
  [form : {"plain"}, bucket : {NoBucket}, key : KeysOrNone]
    \cup [form : {"url"}, bucket : {NoBucket}, key : KeysOrNone]
    \cup IF IsFS THEN {}
         ELSE [form : {"url"}, bucket : Buckets, key : KeysOrNone]
                \cup [form : {"bare"}, bucket : Buckets, key : {0}]

\* The bucket a caller means by a path.
Means(p) == IF IsFS \/ p.form = "plain" THEN client.bucket ELSE p.bucket

\* resolveObjectPath of s3; oss has the same lines in each method.
resolveObjectPath(p) ==
  LET b == IF p.form = "plain" THEN client.bucket ELSE p.bucket
  IN [ok |-> p.form # "bare" /\ b # NoBucket, bucket |-> b, key |-> p.key]

\* fs: strips file:// and local://.
StripPrefix(p) == [ok |-> TRUE, bucket |-> client.bucket, key |-> p.key]

At(r) == IF r.key \in ObjectKeys THEN objects[r.bucket][r.key] ELSE "absent"

Rwx == <<"r", "w", "x", "r", "w", "x", "r", "w", "x">>

\* FileMode.String: how callers write permissions into the metadata.
ModeText(m) ==
  LET t == Select(TypeOrder, m.type)
  IN (IF t = <<>> THEN <<"-">> ELSE t)
       \o [i \in 1 .. 9 |-> IF 9 - i \in m.perm THEN Rwx[i] ELSE "-"]

\* Mutant: the bits are counted from the left.
RawPermissionsReversed(raw) ==
  [type |-> {raw[1]} \cap TypeChars,
   perm |-> {i \in 0 .. 8 : Len(raw) = 10 /\ raw[i + 2] = Rwx[i + 1]}]

RawPermissionsToMode(raw) ==
  LET full == IF Len(raw) = 9 THEN <<"-">> \o raw ELSE raw
  IN IF Len(full) # 10
     THEN [type |-> {}, perm |-> 0 .. 8]
     ELSE [type |-> {full[1]} \cap TypeChars,
           perm |-> {i \in 0 .. 8 : full[10 - i] = Rwx[9 - i]}]

-----------------------------------------------------------------------------

StoInit ==
  /\ client = [kind |-> "none", bucket |-> NoBucket]
  /\ objects = [b \in Buckets |-> [k \in ObjectKeys |-> "absent"]]
  /\ call = Ended("none", NoBucket, 0, "none")
  /\ listing = NoListing(NoBucket)
  /\ before = {} /\ reported = {} /\ calls = 0

Built(t, b) ==
  /\ call' = Ended("new", NoBucket, 0, "ok")
  /\ client' = [kind |-> t, bucket |-> b]

\* fs.NewClient makes an afero file system, or takes the caller's.
NewFS(t, b) == t \in FSKinds /\ b # NoBucket /\ Built(t, b)

\* The bucket is not looked at.
NewS3(b) == Built("s3", b)
NewOSS(b) == Built("oss", b)

\* An unknown type, a secret that can not be decrypted, an archive that can
\* not be opened.
NewFails == call' = Ended("new", NoBucket, 0, "error") /\ UNCHANGED client

NewClient ==
  /\ client.kind = "none"
  /\ \/ \E b \in Homes :
          (\E t \in FSKinds : NewFS(t, b)) \/ NewS3(b) \/ NewOSS(b)
     \/ NewFails
  /\ UNCHANGED <<objects, listVars>>

\* Another program stores an object, where the client may look for it.
Stored(b, k) ==
  /\ client.kind # "none" /\ (IsFS => b = client.bucket)
  /\ objects[b][k] # "whole"
  /\ objects' = [objects EXCEPT ![b][k] = "whole"]
  /\ UNCHANGED <<client, call, listVars>>

-----------------------------------------------------------------------------
(* GetObject, Open, HeadObject and PutObject.                              *)

\* fs: Open and Stat, which may fail on any file.
GetFS(p) ==
  IF At(StripPrefix(p)) = "absent" THEN {"missing"} ELSE {"ok", "error"}

\* The headers of an object the service returned are built with
\* FormatInt(n, 64), which panics.
GetS3(p) ==
  LET r == resolveObjectPath(p)
  IN IF ~r.ok \/ r.key = 0 THEN {"invalid"}
     ELSE IF At(r) = "absent" THEN {"missing", "error"} ELSE {"panic", "error"}

\* Only an empty path is refused, not a URL with an empty key.
RefusedOSS(p) ==
  ~resolveObjectPath(p).ok \/ (p.form = "plain" /\ p.key = 0)

\* Mutant: the bucket of the URL is ignored.
GetOSSHome(p) ==
  IF RefusedOSS(p) \/ client.bucket = NoBucket THEN {"invalid"}
  ELSE IF At([bucket |-> client.bucket, key |-> p.key]) = "absent"
  THEN {"missing", "error"} ELSE {"ok", "error"}

GetOSS(p) ==
  IF RefusedOSS(p) THEN {"invalid"}
  ELSE IF At(resolveObjectPath(p)) = "absent" THEN {"missing", "error"}
  ELSE {"ok", "error"}

\* Open is GetObject.
GetObject(p) ==
  /\ Idle /\ client.kind # "none"
  /\ \E out \in IF IsFS THEN GetFS(p)
                ELSE IF client.kind = "s3" THEN GetS3(p) ELSE GetOSS(p) :
       call' = Ended("get", Means(p), p.key, out)
  /\ DropListing({p.key})
  /\ UNCHANGED <<client, objects>>

\* The mode of the object GetObject returns, which only oss takes from the
\* metadata.
GetMode == RawPermissionsToMode(ModeText(ModeOf[call.key]))

\* os.Stat looks into the working directory of the process, whatever the
\* file system of the client holds, and then FormatInt(n, 64) panics.
HeadFS(p) == {"missing", "error", "panic"}

HeadS3(p) ==
  LET r == resolveObjectPath(p)
  IN IF ~r.ok \/ r.key = 0 THEN {"invalid"}
     ELSE IF At(r) = "absent" THEN {"missing", "error"} ELSE {"panic", "error"}

\* The result reads the metadata of obj, which is nil.
HeadOSS(p) ==
  IF RefusedOSS(p) THEN {"invalid"}
  ELSE IF At(resolveObjectPath(p)) = "absent" THEN {"missing", "error"}
  ELSE {"panic", "error"}

HeadObject(p) ==
  /\ Idle /\ client.kind # "none"
  /\ \E out \in IF IsFS THEN HeadFS(p)
                ELSE IF client.kind = "s3" THEN HeadS3(p) ELSE HeadOSS(p) :
       call' = Ended("head", NoBucket, 0, out)
  /\ DropListing({})
  /\ UNCHANGED <<client, objects>>

\* An upload replaces the object as a whole; one that fails may have done so.
Upload(r) ==
  \E out \in {"ok", "error"}, o \in {At(r), "whole"} :
    /\ out = "ok" => r.key \in ObjectKeys /\ o = "whole"
    /\ call' = Ended("put", NoBucket, 0, out)
    /\ objects' = IF r.key \in ObjectKeys
                  THEN [objects EXCEPT ![r.bucket][r.key] = o] ELSE objects

PutS3(p) ==
  /\ Idle /\ client.kind = "s3"
  /\ LET r == resolveObjectPath(p)
     IN IF ~r.ok \/ r.key = 0
        THEN /\ call' = Ended("put", NoBucket, 0, "invalid")
             /\ UNCHANGED objects
        ELSE Upload(r)
  /\ DropListing({})
  /\ UNCHANGED client

PutOSS(p) ==
  /\ Idle /\ client.kind = "oss"
  /\ IF RefusedOSS(p)
     THEN /\ call' = Ended("put", NoBucket, 0, "invalid")
          /\ UNCHANGED objects
     ELSE Upload(resolveObjectPath(p))
  /\ DropListing({})
  /\ UNCHANGED client

\* fs: OpenFile truncates the file.  The file systems NewClient makes have
\* no OpenFile that returns an os.File.
PutFS(p) ==
  /\ Idle /\ IsFS
  /\ \/ /\ client.kind = "custom" /\ p.key # 0
        /\ objects' = [objects EXCEPT ![client.bucket][p.key] = "partial"]
        /\ call' = Ended("put", client.bucket, p.key, "running")
     \/ /\ call' = Ended("put", NoBucket, 0, "error")
        /\ UNCHANGED objects
  /\ DropListing({})
  /\ UNCHANGED client

\* io.Copy comes to its end or fails halfway.
CopyFS ==
  /\ call.op = "put" /\ ~Idle
  /\ \/ /\ objects' = [objects EXCEPT ![call.bucket][call.key] = "whole"]
        /\ call' = Ended("put", NoBucket, 0, "ok")
     \/ /\ call' = Ended("put", NoBucket, 0, "error")
        /\ UNCHANGED objects
  /\ DropListing({})
  /\ UNCHANGED client

-----------------------------------------------------------------------------
(* ListObject.  A folder d stands for the prefix "d/" of a service and for *)
(* the directory "d" of a file system.                                     *)

Listing == call.op = "list" /\ ~Idle

InFolder(k, d) ==
  Len(d) <= Len(Folder[k]) /\ SubSeq(Folder[k], 1, Len(d)) = d
Present(b, d) ==
  {k \in ObjectKeys : objects[b][k] # "absent" /\ InFolder(k, d)}

\* What a listing of folder d is about: all below d, or the level of d.
Scope(d, recursion) ==
  {k \in ObjectKeys : InFolder(k, d) /\ (recursion \/ Folder[k] = d)}

\* The code lists bucket b; the caller asked for the one that p means.
BeginList(p, b, d, r, more, dirs) ==
  /\ listing' = [asked |-> Means(p), bucket |-> b, prefix |-> d,
                 recursion |-> r, token |-> 0, more |-> more, files |-> {},
                 dirs |-> dirs, cancelled |-> FALSE]
  /\ before' = Present(Means(p), d)
  /\ reported' = {} /\ calls' = 0
  /\ call' = Ended("list", NoBucket, 0, "running")

ListInvalid ==
  call' = Ended("list", NoBucket, 0, "invalid") /\ DropListing({})

ListS3(p, d, r) ==
  /\ Idle /\ client.kind = "s3"
  /\ LET q == resolveObjectPath(p)
     IN IF q.ok THEN BeginList(p, q.bucket, d, r, TRUE, {}) ELSE ListInvalid
  /\ UNCHANGED <<client, objects>>

\* A URL without a slash lists the whole bucket.
ListOSS(p, d, r) ==
  /\ Idle /\ client.kind = "oss"
  /\ LET b == resolveObjectPath(p).bucket
     IN IF b # NoBucket THEN BeginList(p, b, d, r, TRUE, {}) ELSE ListInvalid
  /\ UNCHANGED <<client, objects>>

ListFS(p, d, r) ==
  /\ Idle /\ IsFS
  /\ BeginList(p, StripPrefix(p).bucket, d, r, FALSE, {d})
  /\ UNCHANGED <<client, objects>>

\* The context of the listing is cancelled.
Cancel ==
  /\ Listing /\ ~listing.cancelled
  /\ listing' = [listing EXCEPT !.cancelled = TRUE]
  /\ UNCHANGED <<client, objects, call, before, reported, calls>>

ReturnList(out) ==
  /\ call' = [call EXCEPT !.outcome = out]
  /\ listing' = [NoListing(listing.asked) EXCEPT
                   !.prefix = listing.prefix, !.recursion = listing.recursion]
  /\ UNCHANGED <<client, objects, before, reported, calls>>

\* What the service answers to ListObjectsV2: the keys after the token up to
\* some key, at most MaxKeys of them, and a token if it has more.  Keys in
\* deeper folders only count as common prefixes if there is a delimiter.
Page(upto) ==
  {k \in Present(listing.bucket, listing.prefix) :
     /\ listing.token < k /\ k <= upto
     /\ listing.recursion \/ Folder[k] = listing.prefix}
Truncated(upto) ==
  \E k \in Present(listing.bucket, listing.prefix) : upto < k

\* Mutant: a page without objects is taken for the last one.
ListPageUntilEmpty(upto) ==
  /\ ~listing.cancelled
  /\ listing' = [listing EXCEPT !.files = Page(upto), !.token = upto,
                               !.more = Truncated(upto) /\ Page(upto) # {}]
  /\ UNCHANGED <<client, objects, call, before, reported, calls>>

\* One turn of the loop of ListObject.
ListPage(upto) ==
  /\ ~listing.cancelled
  /\ listing' = [listing EXCEPT !.files = Page(upto), !.token = upto,
                               !.more = Truncated(upto)]
  /\ UNCHANGED <<client, objects, call, before, reported, calls>>

NextPage ==
  /\ Listing /\ listing.more /\ listing.files = {}
  /\ \/ \E upto \in ObjectKeys :
          /\ listing.token < upto /\ Cardinality(Page(upto)) <= MaxKeys
          /\ ListPage(upto)
     \/ listing.cancelled /\ ReturnList("cancelled")
     \/ ~listing.cancelled /\ ReturnList("error")

SubFolders(b, d) ==
  {SubSeq(Folder[k], 1, Len(d) + 1) :
     k \in {k \in Present(b, d) : Len(Folder[k]) > Len(d)}}

\* WalkDir at a directory: its entries, SkipDir, or an error.
WalkDir(d) ==
  /\ Listing /\ d \in listing.dirs
  /\ \/ /\ d = <<>> \/ listing.recursion
        /\ listing' = [listing EXCEPT
             !.dirs = (@ \ {d}) \cup SubFolders(listing.bucket, d),
             !.files = @ \cup {k \in Present(listing.bucket, d) :
                                  Folder[k] = d}]
        /\ UNCHANGED <<client, objects, call, before, reported, calls>>
     \/ /\ d # <<>> /\ ~listing.recursion
        /\ listing' = [listing EXCEPT !.dirs = @ \ {d}]
        /\ UNCHANGED <<client, objects, call, before, reported, calls>>
     \/ ReturnList("error")

\* The callback for one object, services in the order of the keys.
Callback(k) ==
  /\ Listing /\ k \in listing.files /\ ~listing.cancelled
  /\ IsFS \/ \A j \in listing.files : k <= j
  /\ listing' = [listing EXCEPT !.files = @ \ {k}]
  /\ reported' = reported \cup {k} /\ calls' = calls + 1
  /\ UNCHANGED <<client, objects, call, before>>

\* The context is done before the next object.
StopList ==
  /\ Listing /\ listing.files # {} /\ listing.cancelled
  /\ ReturnList("cancelled")

EndList ==
  /\ Listing /\ listing.files = {} /\ listing.dirs = {} /\ ~listing.more
  /\ ReturnList("ok")

-----------------------------------------------------------------------------

ListSteps ==
  \/ \E p \in Paths, d \in Prefixes, r \in BOOLEAN :
       /\ p.key = 0 /\ (p.form = "bare" => d = <<>>)
       /\ ListS3(p, d, r) \/ ListOSS(p, d, r) \/ ListFS(p, d, r)
  \/ Cancel \/ NextPage \/ StopList \/ EndList
  \/ \E d \in Prefixes : WalkDir(d)
  \/ \E k \in ObjectKeys : Callback(k)

StoNext ==
  \/ NewClient
  \/ \E b \in Buckets, k \in ObjectKeys : Stored(b, k)
  \/ \E p \in Paths :
       GetObject(p) \/ HeadObject(p) \/ PutS3(p) \/ PutOSS(p) \/ PutFS(p)
  \/ CopyFS \/ ListSteps

StoSpec == StoInit /\ [][StoNext]_stoVars

-----------------------------------------------------------------------------

\* A listing that returns no error has reported exactly once every object in
\* its scope that was there when it began, and only objects that are there,
\* whatever pages the service cut it into and whatever is stored meanwhile.
\* A listing of a file system that does not recurse is excepted below the
\* root: it skips the directory it was asked for.
ListComplete ==
  call.op = "list" /\ call.outcome = "ok" =>
    LET d == listing.prefix
        scope == Scope(d, listing.recursion)
    IN /\ reported \subseteq Present(listing.asked, d) \cap scope
       /\ calls = Cardinality(reported)
       /\ (IsFS => d = <<>> \/ listing.recursion)
            => before \cap scope \subseteq reported

\* An object a listing of oss or of a file system has reported is opened by
\* GetObject under its key in the bucket that was listed, whichever form of path
\* names it, unless the service fails; s3 asks for that object too, but never
\* gives it to its caller (OpensNamed).
ListedIsFound ==
  call.op = "get" /\ call.bucket = listing.asked /\ call.key \in reported =>
    call.outcome \in IF client.kind = "s3" THEN {"panic", "error"} ELSE {"ok", "error"}

\* The permissions a caller keeps in the metadata of an object come back as
\* the mode of the object, if they have at most one type character.
ModeKept ==
  call.op = "get" /\ call.outcome = "ok" /\ client.kind = "oss" =>
    LET m == ModeOf[call.key]
    IN Cardinality(m.type) <= 1 => GetMode = m

\* Open opens the named object (s3.go:79): a stored object may fail to be
\* read but GetObject does not panic.
OpensNamed == call.op = "get" => call.outcome # "panic"

=============================================================================
