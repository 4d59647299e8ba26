---------------------------- MODULE MediaManager ----------------------------
(***************************************************************************)
(* The media manager: a file is compressed, uploaded to a cloud provider   *)
(* and recorded as an asset.  Uploads and deletes interleave at every      *)
(* await.  In the providers over a file system and over S3 a file is named *)
(* by the millisecond and the name it has on its owner's machine; in       *)
(* Cloudinary it gets an id of its own.                                    *)
(***************************************************************************)
EXTENDS Integers, Sequences, FiniteSets

CONSTANTS
  Uploads,       \* the calls of upload; each is also the file it uploads
  OriginalName,  \* OriginalName[u]: file.originalname
  Type,          \* Type[u]: the type of the file
  Compressors,   \* the compressors of the composite: what each one supports
                 \* and the type it compresses it to
  Deletes,       \* the calls of delete
  MaxTime        \* bound: the last millisecond

ConstantsAssumption ==
  /\ IsFiniteSet(Uploads)
  /\ Type \in [Uploads -> STRING]
  /\ Compressors \in Seq([supports : STRING, to : STRING])
  /\ MaxTime \in Nat

VARIABLES
  provider, \* the cloud provider it was built with
  now,      \* the millisecond
  local,    \* the files in the upload folder; the i-th compressor writes <<u, i>>
  call,     \* call[u]: where an upload is
  cloud,    \* the objects of the provider, by name: whose content they have
  ids,      \* ids[u]: the name the provider's repository has for u's id
  assets,   \* the uploads whose asset was saved
  remove,   \* remove[d]: where a delete is
  removed,  \* history: the assets some call of delete was answered for
  stuck     \* history: the files whose removal from the upload folder failed

vars == <<provider, now, local, call, cloud, ids, assets, remove, removed, stuck>>

Providers == {"fs", "s3", "cloudinary"}

Paths == Uploads \X (0 .. Len(Compressors))
Original(u) == <<u, 0>>

\* S3 and the file system name an object by the time and the original name.
ObjectName(u) == IF provider = "cloudinary" THEN <<u, 0>> ELSE <<OriginalName[u], now>>
Names == (Uploads \cup {OriginalName[u] : u \in Uploads}) \X (0 .. MaxTime)
NoName == <<>>

Stages == {"new", "compress", "upload", "copied", "uploaded", "saved", "done", "failed"}

TypeOK ==
  /\ provider \in Providers
  /\ now \in 0 .. MaxTime
  /\ local \subseteq Paths
  /\ call \in [Uploads -> [at : Stages, path : Paths, type : STRING,
                           next : 1 .. Len(Compressors) + 1, name : Names \cup {NoName}]]
  /\ \A u \in Uploads : call[u].path[1] = u
  /\ \A n \in DOMAIN cloud : n \in Names /\ cloud[n] \in Uploads
  /\ ids \in [Uploads -> Names \cup {NoName}]
  /\ assets \subseteq Uploads
  /\ remove \in [Deletes -> {<<>>} \cup {<<u>> : u \in Uploads}]
  /\ removed \subseteq assets
  /\ stuck \subseteq Paths

Init ==
  /\ provider \in Providers
  /\ now = 0
  /\ local = {}
  /\ call = [u \in Uploads |-> [at |-> "new", path |-> Original(u), type |-> Type[u],
                                next |-> 1, name |-> NoName]]
  /\ cloud = [n \in {} |-> {}]
  /\ ids = [u \in Uploads |-> NoName]
  /\ assets = {}
  /\ remove = [d \in Deletes |-> <<>>]
  /\ removed = {}
  /\ stuck = {}

-----------------------------------------------------------------------------
(* Compression                                                             *)

supports(t) == \E i \in DOMAIN Compressors : Compressors[i].supports = t

GoTo(u, stage) == call' = [call EXCEPT ![u].at = stage]

\* The file has arrived in the upload folder.
upload(u) ==
  /\ call[u].at = "new"
  /\ local' = local \cup {Original(u)}
  /\ GoTo(u, IF supports(Type[u]) THEN "compress" ELSE "upload")
  /\ UNCHANGED <<now, cloud, ids, assets, remove, removed, provider, stuck>>

\* Mutant: the loop starts again after a compressor that does not support it.
Compress_Restarts(u) ==
  LET i == call[u].next IN
  /\ call[u].at = "compress"
  /\ i <= Len(Compressors)
  /\ IF Compressors[i].supports = call[u].type
     THEN /\ local' = local \cup {<<u, i>>}
          /\ call' = [call EXCEPT ![u].next = i + 1, ![u].path = <<u, i>>,
                                  ![u].type = Compressors[i].to]
     ELSE /\ call' = [call EXCEPT ![u].next = 1]
          /\ UNCHANGED local
  /\ UNCHANGED <<now, cloud, ids, assets, remove, removed, provider, stuck>>

\* The next compressor that supports what the last one produced; it is given
\* the original file.
Compress(u) ==
  LET i == call[u].next IN
  /\ call[u].at = "compress"
  /\ i <= Len(Compressors)
  /\ IF Compressors[i].supports = call[u].type
     THEN /\ local' = local \cup {<<u, i>>}
          /\ call' = [call EXCEPT ![u].next = i + 1, ![u].path = <<u, i>>,
                                  ![u].type = Compressors[i].to]
     ELSE /\ call' = [call EXCEPT ![u].next = i + 1]
          /\ UNCHANGED local
  /\ UNCHANGED <<now, cloud, ids, assets, remove, removed, provider, stuck>>

\* A compressor throws, and upload with it.
CompressFails(u) ==
  /\ call[u].at = "compress"
  /\ call[u].next <= Len(Compressors)
  /\ Compressors[call[u].next].supports = call[u].type
  /\ GoTo(u, "failed")
  /\ UNCHANGED <<now, local, cloud, ids, assets, remove, removed, provider, stuck>>

\* Mutant: the file that was compressed stays.
Compressed_Keeps(u) ==
  /\ call[u].at = "compress"
  /\ call[u].next > Len(Compressors)
  /\ GoTo(u, "upload")
  /\ UNCHANGED <<now, local, cloud, ids, assets, remove, removed, provider, stuck>>

\* A file is removed, or that fails: the error is swallowed and the file stays.
unlink(path) ==
  \/ local' = local \ {path} /\ UNCHANGED stuck
  \/ stuck' = stuck \cup {path} /\ UNCHANGED local

\* Then the file that was compressed is removed.
Compressed(u) ==
  /\ call[u].at = "compress"
  /\ call[u].next > Len(Compressors)
  /\ unlink(Original(u))
  /\ GoTo(u, "upload")
  /\ UNCHANGED <<now, cloud, ids, assets, remove, removed, provider>>

-----------------------------------------------------------------------------
(* Upload                                                                  *)

With(f, x, y) == [z \in DOMAIN f \cup {x} |-> IF z = x THEN y ELSE f[z]]

\* The name is fixed when the upload begins, the object stored later.
NameObject(u) ==
  /\ call[u].at = "upload"
  /\ call[u].name = NoName
  /\ call' = [call EXCEPT ![u].name = ObjectName(u)]
  /\ UNCHANGED <<now, local, cloud, ids, assets, remove, removed, provider, stuck>>

Stored(u) ==
  /\ call[u].at = "upload"
  /\ call[u].name # NoName
  /\ cloud' = With(cloud, call[u].name, u)
  /\ GoTo(u, "copied")
  /\ UNCHANGED <<now, local, ids, assets, remove, removed, provider, stuck>>

\* Mutant: the provider does not record the id it answers.
Identified_Not(u) ==
  /\ call[u].at = "copied"
  /\ GoTo(u, "uploaded")
  /\ UNCHANGED <<now, local, cloud, ids, assets, remove, removed, provider, stuck>>

\* The provider knows the name by the id it answers.
Identified(u) ==
  /\ call[u].at = "copied"
  /\ ids' = [ids EXCEPT ![u] = call[u].name]
  /\ GoTo(u, "uploaded")
  /\ UNCHANGED <<now, local, cloud, assets, remove, removed, provider, stuck>>

\* The disk, the provider or the provider's repository fails: upload throws.
UploadFails(u) ==
  /\ \/ call[u].at = "upload" /\ call[u].name # NoName
     \/ call[u].at = "copied" /\ provider = "fs"
  /\ GoTo(u, "failed")
  /\ UNCHANGED <<now, local, cloud, ids, assets, remove, removed, provider, stuck>>

Saved(u) ==
  /\ call[u].at = "uploaded"
  /\ assets' = assets \cup {u}
  /\ GoTo(u, "saved")
  /\ UNCHANGED <<now, local, cloud, ids, remove, removed, provider, stuck>>

\* The uploaded file is removed, and upload returns.
Unlinked(u) ==
  /\ call[u].at = "saved"
  /\ unlink(call[u].path)
  /\ GoTo(u, "done")
  /\ UNCHANGED <<now, cloud, ids, assets, remove, removed, provider>>

-----------------------------------------------------------------------------
(* Deletion                                                                *)

\* The asset is looked up, and with "fs" the name of its file; the asset stays.
delete(d, u) ==
  /\ remove[d] = <<>>
  /\ u \in assets
  /\ remove' = [remove EXCEPT ![d] = <<u>>]
  /\ UNCHANGED <<now, local, call, cloud, ids, assets, removed, provider, stuck>>

Without(f, x) == [z \in DOMAIN f \ {x} |-> f[z]]

\* The provider removes the object.  Where there is none the file system
\* throws, the others do not.
Deleted(d, u) ==
  /\ remove[d] = <<u>>
  /\ remove' = [remove EXCEPT ![d] = <<>>]
  /\ cloud' = Without(cloud, ids[u])
  /\ removed' = IF provider = "fs" /\ ids[u] \notin DOMAIN cloud
                THEN removed ELSE removed \cup {u}
  /\ UNCHANGED <<now, local, call, ids, assets, provider, stuck>>

\* The provider cannot be reached, or the disk fails: delete throws.
DeleteFails(d) ==
  /\ remove[d] # <<>>
  /\ remove' = [remove EXCEPT ![d] = <<>>]
  /\ UNCHANGED <<now, local, call, cloud, ids, assets, removed, provider, stuck>>

Tick ==
  /\ now < MaxTime
  /\ now' = now + 1
  /\ UNCHANGED <<local, call, cloud, ids, assets, remove, removed, provider, stuck>>

Next ==
  \/ Tick
  \/ \E u \in Uploads :
       \/ upload(u) \/ Compress(u) \/ CompressFails(u) \/ Compressed(u)
       \/ NameObject(u) \/ Stored(u) \/ Identified(u) \/ UploadFails(u)
       \/ Saved(u) \/ Unlinked(u)
  \/ \E d \in Deletes, u \in Uploads : delete(d, u) \/ Deleted(d, u)
  \/ \E d \in Deletes : DeleteFails(d)

Spec == Init /\ [][Next]_vars

\* Compressors and providers answer.
Answers(u) ==
  \/ Compress(u) \/ CompressFails(u) \/ Compressed(u) \/ NameObject(u) \/ Stored(u)
  \/ Identified(u) \/ UploadFails(u) \/ Saved(u) \/ Unlinked(u)

Fairness == \A u \in Uploads : WF_vars(Answers(u))

-----------------------------------------------------------------------------
(* Properties                                                              *)

\* Uploads and deletes of files of other names, or made at other times, do not
\* touch it: an asset nobody deleted is served with the content that was
\* uploaded, unless another upload got the same name in the same millisecond.
AssetsAreServed ==
  \A u \in assets \ removed :
    \/ ids[u] \in DOMAIN cloud /\ cloud[ids[u]] = u
    \/ \E v \in Uploads \ {u} : call[v].name = call[u].name

\* What an upload that succeeded leaves in the upload folder is known: what a
\* compressor made before the last one, which nothing removes, and the file that
\* arrived or the one that was stored where its own removal failed, of which the
\* caller is told nothing.
NothingElseIsLeftBehind ==
  \A u \in Uploads : call[u].at = "done" =>
    \A p \in local \ stuck : p[1] = u => p[2] \in 1 .. call[u].path[2] - 1

\* The two, of variables that keep their types: assets are served until they are
\* deleted, and uploads leave no file behind but results that were replaced and
\* files that could not be removed.
AssetsAreKept == TypeOK /\ AssetsAreServed /\ NothingElseIsLeftBehind

\* Every upload that began returns or throws.
UploadsEnd == \A u \in Uploads : call[u].at # "new" ~> call[u].at \in {"done", "failed"}

=============================================================================
