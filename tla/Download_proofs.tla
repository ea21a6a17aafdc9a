--------------------------- MODULE Download_proofs ---------------------------
(***************************************************************************)
(* Publication and downloads, for any builds and any number of downloads.  *)
(***************************************************************************)
EXTENDS Download, TLAPS

(* A publication that no mirror run has disturbed uploads what it verified. *)

\* A manifest in the bucket has its binaries beside it; so will the next one.
BinariesThere ==
  /\ bucket.manifest # NoFile => \A p \in Platforms : bucket.binary[p] # NoFile
  /\ publishing.at = "upload" /\ publishing.n > 1 => bucket.binary["windows"] # NoFile
  /\ publishing.at = "upload" /\ publishing.n > 2 => bucket.binary["linux"] # NoFile

VerifiedSoFar ==
  /\ publishing.at = "verify" => publishing.n \in {1, 2}
  /\ publishing.at # "idle" /\ ~publishing.mixed => mirroring.at = "idle"
  /\ publishing.at = "verify" /\ publishing.n = 2 /\ ~publishing.mixed => Verified("windows")
  /\ publishing.at = "upload" /\ ~publishing.mixed => Verified("windows") /\ Verified("linux")

UploadedSoFar ==
  publishing.at = "upload" /\ ~publishing.mixed =>
    /\ publishing.n > 1 => bucket.binary["windows"] = mirror.binary["windows"]
    /\ publishing.n > 2 => bucket.binary["linux"] = mirror.binary["linux"]
    /\ publishing.n > 3 => bucket.manifest = mirror.manifest

SoundRelease ==
  /\ sound /\ bucket.manifest # NoFile =>
       \A p \in Platforms : bucket.binary[p] = bucket.manifest
  /\ fresh # {} => sound

ReleaseTypeOK ==
  /\ mirror \in Files /\ bucket \in Files
  /\ mirroring \in [at : {"idle", "binaries", "fetching", "verify"}, platform : Platforms,
                    build : Builds \cup {NoFile}, todo : SUBSET Platforms]
  /\ publishing \in [at : {"idle", "verify", "upload"}, n : 1 .. 4, mixed : BOOLEAN]
  /\ scripts \in BOOLEAN /\ sound \in BOOLEAN /\ fresh \subseteq Downloads

ReleaseInv ==
  ReleaseTypeOK /\ BinariesThere /\ VerifiedSoFar /\ UploadedSoFar /\ SoundRelease

\* What a download has gathered, and what it means that it is fresh.
Gathered(d) ==
  /\ dl[d].at \in {"scripts", "audit", "get", "stream", "complete"} => dl[d].sha256 \in Builds
  /\ dl[d].at \in {"get", "stream", "complete"} => dl[d].lost \/ dl[d].logged = dl[d].sha256
  /\ dl[d].at \in {"scripts", "audit", "get"} =>
       /\ bucket.binary[dl[d].platform] # NoFile
       /\ d \in fresh => dl[d].sha256 = bucket.manifest
  /\ dl[d].at \in {"stream", "complete"} /\ dl[d].fresh => dl[d].exe = dl[d].sha256
  /\ dl[d].at = "installed" => dl[d].exe \in Builds /\ (dl[d].lost \/ dl[d].logged = dl[d].exe)
  /\ dl[d].at = "refused" => ~dl[d].fresh

DownloadInv ==
  /\ ReleaseInv
  /\ dl \in [Downloads -> Records]
  /\ \A d \in Downloads : Gathered(d)

-----------------------------------------------------------------------------
LEMMA InitInv == DownloadInit => DownloadInv
  <1> SUFFICES ASSUME DownloadInit PROVE DownloadInv
    OBVIOUS
  <1>1. ReleaseInv
    <2>1. NoFiles \in Files /\ NoFiles.manifest = NoFile
      BY DEF NoFiles, Files, Contents
    <2>2. NotPublishing.at = "idle"
      BY DEF NotPublishing
    <2>3. NotMirroring \in [at : {"idle", "binaries", "fetching", "verify"},
                            platform : Platforms, build : Builds \cup {NoFile},
                            todo : SUBSET Platforms]
      BY DEF NotMirroring, Platforms
    <2>4. NotPublishing \in [at : {"idle", "verify", "upload"}, n : 1 .. 4, mixed : BOOLEAN]
      BY DEF NotPublishing
    <2>5. ReleaseTypeOK
      BY <2>1, <2>3, <2>4 DEF DownloadInit, ReleaseInit, ReleaseTypeOK
    <2> QED
      BY <2>1, <2>2, <2>5
      DEF DownloadInit, ReleaseInit, ReleaseInv, BinariesThere, VerifiedSoFar, UploadedSoFar,
          SoundRelease
  <1>2. AtForm \in Records /\ AtForm.at = "form"
    BY DEF AtForm, Records, DownloadStages, Platforms, Contents
  <1> QED
    BY <1>1, <1>2 DEF DownloadInit, DownloadInv, Gathered

-----------------------------------------------------------------------------
(* The release.                                                            *)

\* A step of the mirror: the bucket stays, and an undisturbed publication sees
\* neither a run begin nor the directory change.
MirrorMoves ==
  /\ mirror' \in Files
  /\ mirroring' \in [at : {"idle", "binaries", "fetching", "verify"}, platform : Platforms,
                     build : Builds \cup {NoFile}, todo : SUBSET Platforms]
  /\ publishing' \in [at : {"idle", "verify", "upload"}, n : 1 .. 4, mixed : BOOLEAN]
  /\ publishing'.at = publishing.at /\ publishing'.n = publishing.n
  /\ publishing'.at # "idle" /\ ~publishing'.mixed =>
       ~publishing.mixed /\ mirroring'.at = "idle" /\ mirror' = mirror
  /\ UNCHANGED bucketVars

LEMMA MirrorMovesInv ==
  ASSUME ReleaseInv, MirrorMoves
  PROVE  ReleaseInv'
  <1>1. ReleaseTypeOK' /\ BinariesThere' /\ SoundRelease'
    BY DEF ReleaseInv, ReleaseTypeOK, BinariesThere, SoundRelease, MirrorMoves, bucketVars
  <1>2. VerifiedSoFar'
    BY DEF ReleaseInv, VerifiedSoFar, Verified, MirrorMoves
  <1>3. UploadedSoFar'
    BY DEF ReleaseInv, UploadedSoFar, MirrorMoves, bucketVars
  <1> QED
    BY <1>1, <1>2, <1>3 DEF ReleaseInv

LEMMA SetBinaryType ==
  ASSUME mirror \in Files, NEW p \in Platforms, NEW file \in Contents, SetBinary(p, file)
  PROVE  mirror' \in Files
  BY DEF Files, SetBinary

LEMMA MirrorStep ==
  ASSUME ReleaseInv,
         FetchManifest \/ FetchBinary \/ BinaryFetched \/ VerifyFetched \/ MirrorStops
  PROVE  MirrorMoves
  <1> USE DEF ReleaseInv, ReleaseTypeOK
  <1>1. CASE FetchManifest
    <2>1. PICK m \in Builds \cup {NoFile} :
            /\ mirror' = [manifest |-> m, binary |-> mirror.binary]
            /\ \/ Mirroring("binaries", "linux", NoFile, Platforms)
               \/ UNCHANGED mirroring
      BY <1>1 DEF FetchManifest
    <2>2. mirror' \in Files
      BY <2>1 DEF Files
    <2>3. publishing' = [at |-> publishing.at, n |-> publishing.n,
                         mixed |-> publishing.at # "idle"] /\ UNCHANGED bucketVars
      BY <1>1 DEF FetchManifest
    <2>4. mirroring' \in [at : {"idle", "binaries", "fetching", "verify"},
                          platform : Platforms, build : Builds \cup {NoFile},
                          todo : SUBSET Platforms]
      BY <2>1 DEF Mirroring, Platforms
    <2> QED
      BY <2>2, <2>3, <2>4 DEF MirrorMoves
  <1>2. CASE FetchBinary
    <2>1. PICK p \in mirroring.todo, b \in Builds :
            SetBinary(p, Partial) /\ Mirroring("fetching", p, b, mirroring.todo)
      BY <1>2 DEF FetchBinary
    <2>2. mirror' \in Files
      BY <2>1, SetBinaryType DEF Contents
    <2> QED
      BY <1>2, <2>1, <2>2 DEF FetchBinary, MirrorMoves, Mirroring, VerifiedSoFar
  <1>3. CASE BinaryFetched
    <2>1. mirror' \in Files
      BY <1>3, SetBinaryType DEF BinaryFetched, Contents
    <2> QED
      BY <1>3, <2>1 DEF BinaryFetched, MirrorMoves, Mirroring, VerifiedSoFar
  <1>4. CASE VerifyFetched
    <2>1. mirror' \in Files
      BY <1>4, SetBinaryType DEF VerifyFetched, Contents
    <2> QED
      BY <1>4, <2>1
      DEF VerifyFetched, MirrorMoves, Mirroring, NotMirroring, VerifiedSoFar, Platforms
  <1>5. CASE MirrorStops
    BY <1>5 DEF MirrorStops, MirrorMoves, NotMirroring, VerifiedSoFar, Platforms
  <1> QED
    BY <1>1, <1>2, <1>3, <1>4, <1>5

LEMMA PublishBeginStep ==
  ASSUME ReleaseInv, PublishBegin \/ PublishStops
  PROVE  ReleaseInv'
  <1>1. UNCHANGED <<mirrorVars, bucketVars>>
    BY DEF PublishBegin, PublishStops
  <1>2. /\ \/ publishing'.at = "idle"
           \/ /\ publishing'.at = "verify" /\ publishing'.n = 1
              /\ ~publishing'.mixed => mirroring.at = "idle"
        /\ publishing' \in [at : {"idle", "verify", "upload"}, n : 1 .. 4, mixed : BOOLEAN]
    <2>1. CASE PublishBegin
      <3>1. CASE mirroring.at = "idle"
        <4>1. publishing' = [at |-> "verify", n |-> 1, mixed |-> FALSE]
          BY <2>1, <3>1 DEF PublishBegin
        <4> QED
          BY <3>1, <4>1
      <3>2. CASE mirroring.at # "idle"
        <4>1. publishing' = [at |-> "verify", n |-> 1, mixed |-> TRUE]
          BY <2>1, <3>2 DEF PublishBegin
        <4> QED
          BY <4>1
      <3> QED
        BY <3>1, <3>2
    <2>2. CASE PublishStops
      BY <2>2 DEF PublishStops, NotPublishing
    <2> QED
      BY <2>1, <2>2
  <1>4. ReleaseTypeOK'
    BY <1>1, <1>2 DEF ReleaseInv, ReleaseTypeOK, mirrorVars, bucketVars
  <1> QED
    BY <1>1, <1>2, <1>4
    DEF ReleaseInv, BinariesThere, VerifiedSoFar, UploadedSoFar, SoundRelease, mirrorVars,
        bucketVars

LEMMA VerifyStep ==
  ASSUME ReleaseInv, verify_platform_binary
  PROVE  ReleaseInv'
  <1>1. UNCHANGED <<mirrorVars, bucketVars>> /\ publishing.at = "verify"
    BY DEF verify_platform_binary
  <1>2. \/ publishing.n = 1 /\ Verified("windows") /\ Publishing("verify", 2)
        \/ publishing.n = 2 /\ Verified("linux") /\ Publishing("upload", 1)
    BY DEF ReleaseInv, VerifiedSoFar, verify_platform_binary, Verifies
  <1> QED
    BY <1>1, <1>2
    DEF ReleaseInv, ReleaseTypeOK, BinariesThere, VerifiedSoFar, UploadedSoFar, SoundRelease,
        Verified, Publishing, mirrorVars, bucketVars

LEMMA UploadOrder ==
  /\ Len(Uploads) = 4
  /\ Uploads[1] = "windows" /\ Uploads[2] = "linux"
  /\ Uploads[3] = "manifest" /\ Uploads[4] = "scripts"
  BY DEF Uploads

LEMMA NotLast ==
  ASSUME Upload, NEW n \in 1 .. 3, publishing.n = n
  PROVE  Uploaded(Uploads[n]) /\ sound' = FALSE /\ Publishing("upload", n + 1)
  <1>1. publishing.n # Len(Uploads)
    BY UploadOrder
  <1> QED
    BY <1>1 DEF Upload

\* The upload of one object.
LEMMA UploadStep ==
  ASSUME ReleaseInv, Upload
  PROVE  /\ ReleaseInv' /\ fresh' = {}
         /\ \A p \in Platforms : bucket.binary[p] # NoFile => bucket'.binary[p] # NoFile
  <1> USE DEF ReleaseInv, ReleaseTypeOK
  <1>1. /\ publishing.at = "upload" /\ UNCHANGED mirrorVars /\ fresh' = {}
        /\ ~publishing.mixed => Verified("windows") /\ Verified("linux")
    BY DEF Upload, VerifiedSoFar
  <1>2. ASSUME NEW p \in Platforms, Uploaded(p)
        PROVE  /\ bucket' \in Files /\ bucket'.manifest = bucket.manifest
               /\ bucket'.binary[p] = mirror.binary[p] /\ mirror.binary[p] # NoFile
               /\ \A q \in Platforms \ {p} : bucket'.binary[q] = bucket.binary[q]
               /\ scripts' = scripts
    <2>1. mirror.binary[p] \in Contents
      BY DEF Files
    <2> QED
      BY <1>2, <2>1 DEF Uploaded, Platforms, Files
  <1>3. CASE publishing.n = 1
    <2>1. Uploaded("windows") /\ sound' = FALSE /\ Publishing("upload", 2)
      BY <1>3, NotLast, UploadOrder
    <2>2. /\ publishing'.at = "upload" /\ publishing'.n = 2
          /\ publishing'.mixed = publishing.mixed /\ mirror' = mirror /\ mirroring' = mirroring
          /\ publishing' \in [at : {"idle", "verify", "upload"}, n : 1 .. 4, mixed : BOOLEAN]
      BY <1>1, <2>1 DEF Publishing, mirrorVars
    <2>3. /\ bucket' \in Files /\ bucket'.manifest = bucket.manifest
          /\ bucket'.binary["windows"] = mirror.binary["windows"] /\ mirror.binary["windows"] # NoFile
          /\ bucket'.binary["linux"] = bucket.binary["linux"] /\ scripts' = scripts
      BY <1>2, <2>1 DEF Platforms
    <2>4. BinariesThere'
      BY <1>1, <1>3, <2>2, <2>3 DEF BinariesThere, Platforms
    <2>5. VerifiedSoFar'
      BY <1>1, <1>3, <2>2 DEF VerifiedSoFar, Verified
    <2>6. UploadedSoFar'
      BY <1>1, <1>3, <2>2, <2>3 DEF UploadedSoFar
    <2>7. SoundRelease' /\ ReleaseTypeOK'
      BY <1>1, <2>1, <2>2, <2>3 DEF SoundRelease
    <2> QED
      BY <1>1, <2>3, <2>4, <2>5, <2>6, <2>7 DEF BinariesThere, Platforms
  <1>4. CASE publishing.n = 2
    <2>1. Uploaded("linux") /\ sound' = FALSE /\ Publishing("upload", 3)
      BY <1>4, NotLast, UploadOrder
    <2>2. /\ publishing'.at = "upload" /\ publishing'.n = 3
          /\ publishing'.mixed = publishing.mixed /\ mirror' = mirror /\ mirroring' = mirroring
          /\ publishing' \in [at : {"idle", "verify", "upload"}, n : 1 .. 4, mixed : BOOLEAN]
      BY <1>1, <2>1 DEF Publishing, mirrorVars
    <2>3. /\ bucket' \in Files /\ bucket'.manifest = bucket.manifest
          /\ bucket'.binary["linux"] = mirror.binary["linux"] /\ mirror.binary["linux"] # NoFile
          /\ bucket'.binary["windows"] = bucket.binary["windows"] /\ scripts' = scripts
      BY <1>2, <2>1 DEF Platforms
    <2>4. BinariesThere'
      BY <1>1, <1>4, <2>2, <2>3 DEF BinariesThere, Platforms
    <2>5. VerifiedSoFar'
      BY <1>1, <1>4, <2>2 DEF VerifiedSoFar, Verified
    <2>6. UploadedSoFar'
      BY <1>1, <1>4, <2>2, <2>3 DEF UploadedSoFar
    <2>7. SoundRelease' /\ ReleaseTypeOK'
      BY <1>1, <2>1, <2>2, <2>3 DEF SoundRelease
    <2> QED
      BY <1>1, <2>3, <2>4, <2>5, <2>6, <2>7 DEF BinariesThere, Platforms
  <1>5. CASE publishing.n = 3
    <2>1. Uploaded("manifest") /\ sound' = FALSE /\ Publishing("upload", 4)
      BY <1>5, NotLast, UploadOrder
    <2>2. /\ publishing'.at = "upload" /\ publishing'.n = 4
          /\ publishing'.mixed = publishing.mixed /\ mirror' = mirror /\ mirroring' = mirroring
          /\ publishing' \in [at : {"idle", "verify", "upload"}, n : 1 .. 4, mixed : BOOLEAN]
      BY <1>1, <2>1 DEF Publishing, mirrorVars
    <2>3. /\ bucket' \in Files /\ bucket'.manifest = mirror.manifest
          /\ bucket'.binary = bucket.binary /\ scripts' = scripts
      <3>1. bucket' = [manifest |-> mirror.manifest, binary |-> bucket.binary] /\ scripts' = scripts
        BY <2>1 DEF Uploaded, Platforms
      <3> QED
        BY <3>1 DEF Files
    <2>4. BinariesThere'
      BY <1>1, <1>5, <2>2, <2>3 DEF BinariesThere, Platforms
    <2>5. VerifiedSoFar'
      BY <1>1, <1>5, <2>2 DEF VerifiedSoFar, Verified
    <2>6. UploadedSoFar'
      BY <1>1, <1>5, <2>2, <2>3 DEF UploadedSoFar
    <2>7. SoundRelease' /\ ReleaseTypeOK'
      BY <1>1, <2>1, <2>2, <2>3 DEF SoundRelease
    <2> QED
      BY <1>1, <2>3, <2>4, <2>5, <2>6, <2>7 DEF BinariesThere, Platforms
  <1>6. CASE publishing.n = 4
    <2>1. Uploaded("scripts") /\ sound' = ~publishing.mixed /\ publishing' = NotPublishing
      BY <1>6, UploadOrder DEF Upload
    <2>2. bucket' = bucket /\ scripts' = TRUE
      BY <2>1 DEF Uploaded, Platforms
    <2> QED
      BY <1>1, <1>6, <2>1, <2>2
      DEF Platforms, BinariesThere, VerifiedSoFar, UploadedSoFar, SoundRelease,
          Verified, NotPublishing, mirrorVars
  <1> QED
    BY <1>3, <1>4, <1>5, <1>6

\* What the downloads rely on: binaries do not go away, and unless an object is
\* uploaded the manifest stays, and a sound release sound.
Published ==
  /\ \A p \in Platforms : bucket.binary[p] # NoFile => bucket'.binary[p] # NoFile
  /\ \/ fresh' = {}
     \/ fresh' = fresh /\ sound' = sound /\ bucket' = bucket

LEMMA ReleaseStep ==
  ASSUME ReleaseInv, ReleaseNext
  PROVE  ReleaseInv' /\ Published
  <1>1. CASE FetchManifest \/ FetchBinary \/ BinaryFetched \/ VerifyFetched \/ MirrorStops
    BY <1>1, MirrorStep, MirrorMovesInv DEF MirrorMoves, Published, bucketVars
  <1>2. CASE PublishBegin \/ PublishStops
    BY <1>2, PublishBeginStep DEF PublishBegin, PublishStops, Published, bucketVars
  <1>3. CASE verify_platform_binary
    BY <1>3, VerifyStep DEF verify_platform_binary, Published, bucketVars
  <1>4. CASE Upload
    BY <1>4, UploadStep DEF Published
  <1> QED
    BY <1>1, <1>2, <1>3, <1>4 DEF ReleaseNext

-----------------------------------------------------------------------------
(* The downloads.                                                          *)

\* The release moves on under the downloads.
LEMMA ReleaseNextInv ==
  ASSUME DownloadInv, ReleaseNext, UNCHANGED dl
  PROVE  DownloadInv'
  <1>1. ReleaseInv' /\ Published
    BY ReleaseStep DEF DownloadInv
  <1>2. ASSUME NEW d \in Downloads PROVE Gathered(d)'
    <2>1. Gathered(d) /\ dl[d].platform \in Platforms /\ dl' = dl
      BY DEF DownloadInv, Records
    <2> QED
      BY <1>1, <2>1 DEF Gathered, Published
  <1> QED
    BY <1>1, <1>2 DEF DownloadInv

\* A step of one download, after which what it has gathered is as it should be.
LEMMA OneDownload ==
  ASSUME DownloadInv, NEW d \in Downloads, NEW r \in Records,
         dl' = [dl EXCEPT ![d] = r], ReleaseInv', UNCHANGED <<bucket, sound>>,
         \A e \in Downloads \ {d} : e \in fresh' => e \in fresh,
         Gathered(d)'
  PROVE  DownloadInv'
  <1>1. dl' \in [Downloads -> Records]
    BY DEF DownloadInv
  <1>2. ASSUME NEW e \in Downloads, e # d PROVE Gathered(e)'
    <2>1. Gathered(e) /\ dl'[e] = dl[e]
      BY <1>2 DEF DownloadInv
    <2> QED
      BY <1>2, <2>1 DEF Gathered
  <1> QED
    BY <1>1, <1>2 DEF DownloadInv

\* While the release stays as it is.
LEMMA ReleaseStays ==
  ASSUME ReleaseInv, UNCHANGED releaseVars
  PROVE  ReleaseInv'
  BY DEF ReleaseInv, ReleaseTypeOK, BinariesThere, VerifiedSoFar, UploadedSoFar, SoundRelease,
         Verified, releaseVars, mirrorVars, bucketVars

LEMMA AskStep ==
  ASSUME DownloadInv, NEW d \in Downloads, download(d)
  PROVE  DownloadInv'
  <1>1. PICK p \in Platforms : Download(d, "manifest", p, NoFile, NoFile, NoFile, FALSE, FALSE)
    BY DEF download
  <1>2. PICK r \in Records :
          r = [at |-> "manifest", platform |-> p, sha256 |-> NoFile, exe |-> NoFile,
               logged |-> NoFile, lost |-> FALSE, fresh |-> FALSE]
    BY DEF Records, DownloadStages, Contents
  <1>3. dl' = [dl EXCEPT ![d] = r] /\ UNCHANGED releaseVars
    BY <1>1, <1>2 DEF Download, download
  <1>4. dl'[d] = r /\ r.at = "manifest"
    BY <1>2, <1>3 DEF DownloadInv
  <1>5. Gathered(d)'
    BY <1>4 DEF Gathered
  <1>6. ReleaseInv'
    BY <1>3, ReleaseStays DEF DownloadInv
  <1> QED
    BY <1>3, <1>5, <1>6, OneDownload DEF releaseVars, bucketVars

LEMMA ManifestStep ==
  ASSUME DownloadInv, NEW d \in Downloads, ReadManifest(d)
  PROVE  DownloadInv'
  <1>1. bucket.manifest \in Builds /\ bucket \in Files /\ dl[d] \in Records
    BY DEF DownloadInv, ReleaseInv, ReleaseTypeOK, Files, ReadManifest
  <1>2. PICK r \in Records :
          r = [at |-> "scripts", platform |-> dl[d].platform, sha256 |-> bucket.manifest,
               exe |-> NoFile, logged |-> NoFile, lost |-> FALSE, fresh |-> FALSE]
    BY <1>1 DEF Records, DownloadStages, Contents
  <1>3. /\ dl' = [dl EXCEPT ![d] = r] /\ fresh' = IF sound THEN fresh \cup {d} ELSE fresh
        /\ UNCHANGED <<mirrorVars, publishing, bucket, scripts, sound>>
    BY <1>2 DEF ReadManifest, Download, release_sha256
  <1>4. dl'[d] = r /\ r.at = "scripts" /\ r.sha256 = bucket.manifest
        /\ r.platform \in Platforms
    BY <1>1, <1>2, <1>3 DEF DownloadInv, Records
  <1>6. Gathered(d)'
    BY <1>1, <1>3, <1>4 DEF Gathered, DownloadInv, ReleaseInv, BinariesThere, ReadManifest
  <1>5. ReleaseInv'
    BY <1>3 DEF DownloadInv, ReleaseInv, ReleaseTypeOK, BinariesThere, VerifiedSoFar,
                UploadedSoFar, SoundRelease, Verified, mirrorVars
  <1> QED
    BY <1>3, <1>6, <1>5, OneDownload

\* The steps that leave the release as it is.
LEMMA RecordStep ==
  ASSUME DownloadInv, NEW d \in Downloads, NEW r \in Records,
         dl' = [dl EXCEPT ![d] = r], UNCHANGED releaseVars,
         r.at \in {"scripts", "audit", "get", "stream", "complete"} => r.sha256 \in Builds,
         r.at \in {"get", "stream", "complete"} => r.lost \/ r.logged = r.sha256,
         r.at \in {"scripts", "audit", "get"} =>
           /\ bucket.binary[r.platform] # NoFile
           /\ d \in fresh => r.sha256 = bucket.manifest,
         r.at \in {"stream", "complete"} /\ r.fresh => r.exe = r.sha256,
         r.at = "installed" => r.exe \in Builds /\ (r.lost \/ r.logged = r.exe),
         r.at = "refused" => ~r.fresh
  PROVE  DownloadInv'
  <1>1. UNCHANGED <<bucket, sound, fresh>>
    BY DEF releaseVars, bucketVars
  <1>2. dl'[d] = r
    BY DEF DownloadInv
  <1>3. Gathered(d)'
    BY <1>1, <1>2 DEF Gathered
  <1>4. ReleaseInv'
    BY ReleaseStays DEF DownloadInv
  <1> QED
    BY <1>1, <1>3, <1>4, OneDownload

\* What a download that is under way has gathered.
LEMMA UnderWay ==
  ASSUME DownloadInv, NEW d \in Downloads
  PROVE  /\ dl[d].platform \in Platforms /\ dl[d].sha256 \in Builds \cup {NoFile}
         /\ dl[d].exe \in Contents /\ dl[d].logged \in Builds \cup {NoFile}
         /\ dl[d].lost \in BOOLEAN /\ dl[d].fresh \in BOOLEAN
         /\ Gathered(d) /\ bucket \in Files
         /\ NoFile \in Contents /\ "windows" \in Platforms
  BY DEF DownloadInv, Records, ReleaseInv, ReleaseTypeOK, Contents, Platforms

LEMMA ScriptsStep ==
  ASSUME DownloadInv, NEW d \in Downloads, ReadScripts(d)
  PROVE  DownloadInv'
  <1>1. PICK r \in Records :
          r = [at |-> "audit", platform |-> dl[d].platform, sha256 |-> dl[d].sha256, exe |-> dl[d].exe,
               logged |-> dl[d].logged, lost |-> dl[d].lost, fresh |-> dl[d].fresh]
    BY UnderWay DEF Records, DownloadStages
  <1>2. dl' = [dl EXCEPT ![d] = r] /\ UNCHANGED releaseVars /\ dl[d].at = "scripts"
    BY <1>1 DEF ReadScripts, Moves, Download
  <1> QED
    BY <1>1, <1>2, UnderWay, RecordStep DEF Gathered

LEMMA AuditStep ==
  ASSUME DownloadInv, NEW d \in Downloads, audit_success(d)
  PROVE  DownloadInv'
  <1>1. PICK logged \in Builds \cup {NoFile}, lost \in BOOLEAN :
          /\ logged = dl[d].sha256 \/ lost
          /\ Download(d, "get", dl[d].platform, dl[d].sha256, NoFile, logged, lost, FALSE)
    BY UnderWay DEF audit_success, Audited
  <1>2. PICK r \in Records :
          r = [at |-> "get", platform |-> dl[d].platform, sha256 |-> dl[d].sha256, exe |-> NoFile,
               logged |-> logged, lost |-> lost, fresh |-> FALSE]
    BY UnderWay DEF Records, DownloadStages
  <1>3. /\ dl' = [dl EXCEPT ![d] = r] /\ UNCHANGED releaseVars /\ dl[d].at = "audit"
    BY <1>1, <1>2 DEF audit_success, Download
  <1> QED
    BY <1>1, <1>2, <1>3, UnderWay, RecordStep DEF Gathered

\* What is read is what the manifest says if no object was uploaded since.
LEMMA GetStep ==
  ASSUME DownloadInv, NEW d \in Downloads, s3_chunks(d)
  PROVE  DownloadInv'
  <1>1. PICK exe \in Contents, new \in BOOLEAN :
          exe = bucket.binary[dl[d].platform] /\ new = (d \in fresh)
    <2>1. bucket.binary[dl[d].platform] \in Contents
      BY UnderWay DEF Files
    <2>2. (d \in fresh) \in BOOLEAN
      OBVIOUS
    <2> QED
      BY <2>1, <2>2, Zenon
  <1>2. PICK r \in Records :
          r = [at |-> "stream", platform |-> dl[d].platform, sha256 |-> dl[d].sha256, exe |-> exe,
               logged |-> dl[d].logged, lost |-> dl[d].lost, fresh |-> new]
    BY UnderWay DEF Records, DownloadStages
  <1>3. dl' = [dl EXCEPT ![d] = r] /\ UNCHANGED releaseVars /\ dl[d].at = "get"
    BY <1>1, <1>2 DEF s3_chunks, Download
  <1>4. new => exe = dl[d].sha256
    BY <1>1, <1>3, UnderWay, ReleaseAssumption
    DEF DownloadInv, ReleaseInv, SoundRelease, Gathered
  <1> QED
    BY <1>2, <1>3, <1>4, UnderWay, RecordStep DEF Gathered

LEMMA StreamStep ==
  ASSUME DownloadInv, NEW d \in Downloads, zip_stream(d)
  PROVE  DownloadInv'
  <1>1. PICK r \in Records :
          r = [at |-> "complete", platform |-> dl[d].platform, sha256 |-> dl[d].sha256, exe |-> dl[d].exe,
               logged |-> dl[d].logged, lost |-> dl[d].lost, fresh |-> dl[d].fresh]
    BY UnderWay DEF Records, DownloadStages
  <1>2. dl' = [dl EXCEPT ![d] = r] /\ UNCHANGED releaseVars /\ dl[d].at = "stream"
    BY <1>1 DEF zip_stream, Moves, Download
  <1> QED
    BY <1>1, <1>2, UnderWay, RecordStep DEF Gathered

LEMMA FailStep ==
  ASSUME DownloadInv, NEW d \in Downloads, Fails(d)
  PROVE  DownloadInv'
  <1>1. PICK r \in Records :
          r = [at |-> "failed", platform |-> "windows", sha256 |-> NoFile, exe |-> NoFile,
               logged |-> NoFile, lost |-> FALSE, fresh |-> FALSE]
    BY UnderWay DEF Records, DownloadStages
  <1>2. dl' = [dl EXCEPT ![d] = r] /\ UNCHANGED releaseVars
    BY <1>1 DEF Fails, Ends, Download
  <1> QED
    BY <1>1, <1>2, RecordStep

LEMMA InstallStep ==
  ASSUME DownloadInv, NEW d \in Downloads, install_claude_code(d)
  PROVE  DownloadInv'
  <1>1. /\ dl[d].sha256 \in Builds /\ (dl[d].lost \/ dl[d].logged = dl[d].sha256)
        /\ dl[d].fresh => dl[d].exe = dl[d].sha256
        /\ UNCHANGED releaseVars
    BY UnderWay DEF Gathered, install_claude_code
  <1>2. CASE /\ dl[d].exe = dl[d].sha256
             /\ Ends(d, "installed", dl[d].exe, dl[d].logged, dl[d].lost, FALSE)
    <2>1. PICK r \in Records :
            r = [at |-> "installed", platform |-> "windows", sha256 |-> NoFile, exe |-> dl[d].exe,
                 logged |-> dl[d].logged, lost |-> dl[d].lost, fresh |-> FALSE]
      BY UnderWay DEF Records, DownloadStages
    <2>2. dl' = [dl EXCEPT ![d] = r]
      BY <1>2, <2>1 DEF Ends, Download
    <2> QED
      BY <1>1, <1>2, <2>1, <2>2, RecordStep
  <1>3. CASE /\ dl[d].exe # dl[d].sha256
             /\ Ends(d, "refused", NoFile, NoFile, FALSE, dl[d].fresh)
    <2>1. PICK r \in Records :
            r = [at |-> "refused", platform |-> "windows", sha256 |-> NoFile, exe |-> NoFile,
                 logged |-> NoFile, lost |-> FALSE, fresh |-> dl[d].fresh]
      BY UnderWay DEF Records, DownloadStages
    <2>2. dl' = [dl EXCEPT ![d] = r]
      BY <1>3, <2>1 DEF Ends, Download
    <2> QED
      BY <1>1, <1>3, <2>1, <2>2, RecordStep
  <1> QED
    BY <1>2, <1>3
    DEF install_claude_code, Matches, Sha256, build_install_cmd, build_install_sh

LEMMA NextInv == DownloadInv /\ [DownloadNext]_downloadVars => DownloadInv'
  <1> SUFFICES ASSUME DownloadInv, [DownloadNext]_downloadVars PROVE DownloadInv'
    OBVIOUS
  <1>1. CASE ReleaseNext /\ UNCHANGED dl
    BY <1>1, ReleaseNextInv
  <1>2. ASSUME NEW d \in Downloads, DownloadStep(d) PROVE DownloadInv'
    BY <1>2, AskStep, ManifestStep, ScriptsStep, AuditStep, GetStep, StreamStep, FailStep,
       InstallStep
    DEF DownloadStep
  <1>3. CASE UNCHANGED downloadVars
    <2>1. ReleaseInv' /\ UNCHANGED <<bucket, fresh, dl>>
      BY <1>3, ReleaseStays DEF DownloadInv, downloadVars, releaseVars, bucketVars
    <2> QED
      BY <2>1 DEF DownloadInv, Gathered
  <1> QED
    BY <1>1, <1>2, <1>3 DEF DownloadNext

LEMMA Invariant == DownloadSpec => []DownloadInv
  BY InitInv, NextInv, PTL DEF DownloadSpec

-----------------------------------------------------------------------------
\* The variables of the release and of every download keep their types: a digest
\* that is logged or checked is one that a manifest gives.
THEOREM TypeCorrect == DownloadSpec => []DownloadTypeOK
  <1>1. DownloadInv => DownloadTypeOK
    BY DEF DownloadInv, ReleaseInv, ReleaseTypeOK, DownloadTypeOK
  <1> QED
    BY <1>1, Invariant, PTL

\* However often the version is published over itself, from a directory that
\* mirror runs write meanwhile, what any client installs is a whole build and the
\* one that its line in the audit log names.
THEOREM AuditTellsWhatWasInstalled == DownloadSpec => []InstalledAsAudited
  <1>1. DownloadInv => InstalledAsAudited
    BY DEF DownloadInv, Gathered, InstalledAsAudited
  <1> QED
    BY <1>1, Invariant, PTL

\* A manifest that is found has its binaries, and an installer refuses only what
\* was read across an upload, or from a release that is not sound.
THEOREM NoRefusalWithoutCause == DownloadSpec => []RefusedOnlyIfTorn
  <1>1. DownloadInv => RefusedOnlyIfTorn
    BY DEF DownloadInv, Gathered, RefusedOnlyIfTorn
  <1> QED
    BY <1>1, Invariant, PTL

=============================================================================
