------------------------------ MODULE Release -------------------------------
(***************************************************************************)
(* One release on its way to the portal's bucket: mirror-claude-release.sh *)
(* fetches it into a directory, publish-portal-release.sh checks the       *)
(* directory and uploads it object by object.  Both may be run again for   *)
(* the same version by whoever shares the directory, either may stop       *)
(* anywhere, and upstream may have released the version again meanwhile.   *)
(***************************************************************************)
EXTENDS Naturals, Sequences

CONSTANTS
  Builds,        \* what upstream has released under the version
  NoFile,        \* a file that is not there or cannot be parsed
  Partial,       \* a file that curl has begun
  Downloads      \* of the portal's clients (module Download)

Platforms == {"windows", "linux"}

ASSUME ReleaseAssumption == NoFile # Partial /\ {NoFile, Partial} \cap Builds = {}

\* A file is named by the build it is of: a digest tells builds and parts apart,
\* and the manifest of a build gives the digests of its own binaries.
Contents == Builds \cup {Partial, NoFile}
Files == [manifest : Builds \cup {NoFile}, binary : [Platforms -> Contents]]
NoFiles == [manifest |-> NoFile, binary |-> [p \in Platforms |-> NoFile]]

VARIABLES
  mirror,        \* the directory $MIRROR_DIR/<version>
  mirroring,     \* where mirror-claude-release.sh is
  bucket,        \* releases/<version>/
  scripts,       \* the objects without a version are there
  publishing,    \* where publish-portal-release.sh is; mixed: a mirror run has
                 \* changed the directory meanwhile (history)
  sound,         \* the last publication is complete and was not mixed (history)
  fresh          \* who read a manifest while sound, with no upload since (history)

mirrorVars == <<mirror, mirroring>>
bucketVars == <<bucket, scripts, sound, fresh>>
releaseVars == <<mirrorVars, bucketVars, publishing>>

NotMirroring == [at |-> "idle", platform |-> "linux", build |-> NoFile, todo |-> {}]
NotPublishing == [at |-> "idle", n |-> 1, mixed |-> FALSE]

ReleaseInit ==
  /\ mirror = NoFiles /\ mirroring = NotMirroring
  /\ bucket = NoFiles /\ scripts = FALSE
  /\ publishing = NotPublishing
  /\ sound = TRUE /\ fresh = {}

-----------------------------------------------------------------------------
(* mirror-claude-release.sh                                                *)

Mirroring(at, p, b, todo) ==
  mirroring' = [at |-> at, platform |-> p, build |-> b, todo |-> todo]

SetBinary(p, file) ==
  mirror' = [manifest |-> mirror.manifest, binary |-> [mirror.binary EXCEPT ![p] = file]]

\* curl writes over the manifest that is there; cut off, it leaves what it has,
\* and so does a signature that is refused.
FetchManifest ==
  /\ mirroring.at = "idle"
  /\ \E m \in Builds \cup {NoFile} :
       /\ mirror' = [manifest |-> m, binary |-> mirror.binary]
       /\ \/ m # NoFile /\ Mirroring("binaries", "linux", NoFile, Platforms)
          \/ UNCHANGED mirroring
  /\ publishing' = [at |-> publishing.at, n |-> publishing.n,
                    mixed |-> publishing.at # "idle"]
  /\ UNCHANGED bucketVars

FetchBinary ==
  /\ mirroring.at = "binaries"
  /\ \E p \in mirroring.todo, b \in Builds :
       /\ SetBinary(p, Partial)
       /\ Mirroring("fetching", p, b, mirroring.todo)
  /\ UNCHANGED <<bucketVars, publishing>>

BinaryFetched ==
  /\ mirroring.at = "fetching"
  /\ SetBinary(mirroring.platform, mirroring.build)
  /\ Mirroring("verify", mirroring.platform, NoFile, mirroring.todo)
  /\ UNCHANGED <<bucketVars, publishing>>

VerifyFetched ==
  LET p == mirroring.platform
      left == mirroring.todo \ {p} IN
  /\ mirroring.at = "verify"
  /\ \/ /\ mirror.binary[p] = mirror.manifest
        /\ IF left = {} THEN mirroring' = NotMirroring
                        ELSE Mirroring("binaries", "linux", NoFile, left)
        /\ UNCHANGED mirror
     \/ /\ mirror.binary[p] # mirror.manifest
        /\ SetBinary(p, NoFile)
        /\ mirroring' = NotMirroring
  /\ UNCHANGED <<bucketVars, publishing>>

\* A command fails, the run is killed, or it was for fewer platforms.
MirrorStops ==
  /\ mirroring.at # "idle"
  /\ mirroring' = NotMirroring
  /\ UNCHANGED <<mirror, bucketVars, publishing>>

-----------------------------------------------------------------------------
(* publish-portal-release.sh                                               *)

Verifies == <<"windows", "linux">>

\* The objects without a version, which come last, are uploaded in one step here.
Uploads == <<"windows", "linux", "manifest", "scripts">>

Publishing(at, n) == publishing' = [at |-> at, n |-> n, mixed |-> publishing.mixed]

PublishBegin ==
  /\ publishing.at = "idle"
  /\ \A p \in Platforms : mirror.binary[p] # NoFile
  /\ publishing' = [at |-> "verify", n |-> 1, mixed |-> mirroring.at # "idle"]
  /\ UNCHANGED <<mirrorVars, bucketVars>>

\* Faulty: the binary is taken as the mirror run has left it.
Verified_Skipped(p) == mirror.manifest # NoFile

Verified(p) == mirror.manifest # NoFile /\ mirror.binary[p] = mirror.manifest

verify_platform_binary ==
  /\ publishing.at = "verify" /\ Verified(Verifies[publishing.n])
  /\ IF publishing.n = Len(Verifies) THEN Publishing("upload", 1)
                                     ELSE Publishing("verify", publishing.n + 1)
  /\ UNCHANGED <<mirrorVars, bucketVars>>

\* The file is uploaded as it is by now.
Uploaded(key) ==
  \/ /\ key \in Platforms /\ mirror.binary[key] # NoFile
     /\ bucket' = [manifest |-> bucket.manifest,
                   binary |-> [bucket.binary EXCEPT ![key] = mirror.binary[key]]]
     /\ UNCHANGED scripts
  \/ /\ key = "manifest"
     /\ bucket' = [manifest |-> mirror.manifest, binary |-> bucket.binary]
     /\ UNCHANGED scripts
  \/ /\ key = "scripts"
     /\ scripts' = TRUE
     /\ UNCHANGED bucket

Upload ==
  LET last == publishing.n = Len(Uploads) IN
  /\ publishing.at = "upload"
  /\ Uploaded(Uploads[publishing.n])
  /\ fresh' = {}
  /\ sound' = (last /\ ~publishing.mixed)
  /\ IF last THEN publishing' = NotPublishing ELSE Publishing("upload", publishing.n + 1)
  /\ UNCHANGED mirrorVars

PublishStops ==
  /\ publishing.at # "idle"
  /\ publishing' = NotPublishing
  /\ UNCHANGED <<mirrorVars, bucketVars>>

ReleaseNext ==
  \/ FetchManifest \/ FetchBinary \/ BinaryFetched \/ VerifyFetched \/ MirrorStops
  \/ PublishBegin \/ verify_platform_binary \/ Upload \/ PublishStops

=============================================================================
