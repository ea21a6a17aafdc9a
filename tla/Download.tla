------------------------------ MODULE Download ------------------------------
(***************************************************************************)
(* Downloads of the release that the portal serves (views/downloads.py,    *)
(* artifacts.py), each from its form to the installed binary, while the    *)
(* release is being published.  The manifest and the scripts are read      *)
(* before the response starts, the binary when the stream has begun.       *)
(***************************************************************************)
EXTENDS Release

VARIABLE dl      \* download -> what the portal and then its client do with it

downloadVars == <<releaseVars, dl>>

\* sha256: the digest that install.cmd, install.sh and README.txt carry;
\* logged, lost: its line in the audit log, or that it could not be written.
DownloadStages == {"form", "manifest", "scripts", "audit", "get", "stream", "failed",
                   "complete", "installed", "refused"}
Records == [at : DownloadStages, platform : Platforms, sha256 : Builds \cup {NoFile},
            exe : Contents, logged : Builds \cup {NoFile}, lost : BOOLEAN,
            fresh : BOOLEAN]
AtForm == [at |-> "form", platform |-> "windows", sha256 |-> NoFile, exe |-> NoFile,
           logged |-> NoFile, lost |-> FALSE, fresh |-> FALSE]

DownloadInit == ReleaseInit /\ dl = [d \in Downloads |-> AtForm]

-----------------------------------------------------------------------------
(* The portal.                                                             *)

\* What a download has gathered, one part after the other.
Download(d, at, p, sha256, exe, logged, lost, new) ==
  dl' = [dl EXCEPT ![d] = [at |-> at, platform |-> p, sha256 |-> sha256, exe |-> exe,
                           logged |-> logged, lost |-> lost, fresh |-> new]]

Moves(d, at) == Download(d, at, dl[d].platform, dl[d].sha256, dl[d].exe,
                         dl[d].logged, dl[d].lost, dl[d].fresh)

\* What no one asks of a download that is over is forgotten.
Ends(d, at, exe, logged, lost, new) ==
  Download(d, at, "windows", NoFile, exe, logged, lost, new)

\* A selection that is refused is audited as denied and shows the form again.
download(d) ==
  /\ dl[d].at = "form"
  /\ \E p \in Platforms : Download(d, "manifest", p, NoFile, NoFile, NoFile, FALSE, FALSE)
  /\ UNCHANGED releaseVars

\* Faulty: the digest of what is in the bucket, whatever the manifest says.
release_sha256_OfObject(p) == bucket.binary[p]

release_sha256(p) == bucket.manifest

ReadManifest(d) ==
  /\ dl[d].at = "manifest" /\ bucket.manifest # NoFile
  /\ Download(d, "scripts", dl[d].platform, release_sha256(dl[d].platform),
              NoFile, NoFile, FALSE, FALSE)
  /\ fresh' = IF sound THEN fresh \cup {d} ELSE fresh
  /\ UNCHANGED <<mirrorVars, publishing, bucket, scripts, sound>>

ReadScripts(d) ==
  /\ dl[d].at = "scripts" /\ scripts
  /\ Moves(d, "audit")
  /\ UNCHANGED releaseVars

\* Faulty: the manifest is read once more for the audit line.
Audited_Reread(d) == bucket.manifest

Audited(d) == dl[d].sha256

\* Before the stream; a line that cannot be written does not stop it.
audit_success(d) ==
  /\ dl[d].at = "audit"
  /\ \/ Download(d, "get", dl[d].platform, dl[d].sha256, NoFile, Audited(d), FALSE, FALSE)
     \/ Download(d, "get", dl[d].platform, dl[d].sha256, NoFile, NoFile, TRUE, FALSE)
  /\ UNCHANGED releaseVars

\* The headers are out.  GetObject answers with one version of the object.
s3_chunks(d) ==
  /\ dl[d].at = "get" /\ bucket.binary[dl[d].platform] # NoFile
  /\ Download(d, "stream", dl[d].platform, dl[d].sha256, bucket.binary[dl[d].platform],
              dl[d].logged, dl[d].lost, d \in fresh)
  /\ UNCHANGED releaseVars

\* The binary, then the scripts, then the end of the chunked response.
zip_stream(d) ==
  /\ dl[d].at = "stream"
  /\ Moves(d, "complete")
  /\ UNCHANGED releaseVars

\* A read fails, the worker is stopped or the client goes away: an error page, or
\* a response without its end, whose ZIP the browser does not take for complete.
Fails(d) ==
  /\ dl[d].at \in {"manifest", "scripts", "audit", "get", "stream"}
  /\ Ends(d, "failed", NoFile, NoFile, FALSE, FALSE)
  /\ UNCHANGED releaseVars

-----------------------------------------------------------------------------
(* The client.                                                             *)

\* The wrapper in the package hands the installer the digest that the portal read.
build_install_cmd(d) == dl[d].sha256
build_install_sh(d) == dl[d].sha256
Sha256(d) == IF dl[d].platform = "linux" THEN build_install_sh(d) ELSE build_install_cmd(d)

\* Faulty: the installer trusts the package.
Matches_Any(d) == TRUE

\* The installer hashes its own copy of the binary.
Matches(d) == dl[d].exe = Sha256(d)

install_claude_code(d) ==
  /\ dl[d].at = "complete"
  /\ \/ Matches(d) /\ Ends(d, "installed", dl[d].exe, dl[d].logged, dl[d].lost, FALSE)
     \/ ~Matches(d) /\ Ends(d, "refused", NoFile, NoFile, FALSE, dl[d].fresh)
  /\ UNCHANGED releaseVars

DownloadStep(d) ==
  \/ download(d) \/ ReadManifest(d) \/ ReadScripts(d) \/ audit_success(d)
  \/ s3_chunks(d) \/ zip_stream(d) \/ Fails(d) \/ install_claude_code(d)

DownloadNext ==
  \/ ReleaseNext /\ UNCHANGED dl
  \/ \E d \in Downloads : DownloadStep(d)

DownloadSpec == DownloadInit /\ [][DownloadNext]_downloadVars

-----------------------------------------------------------------------------
\* The variables have their types: whatever is in the bucket, a digest that is
\* logged or checked is one that a manifest gives.
DownloadTypeOK ==
  /\ mirror \in Files /\ bucket \in Files
  /\ mirroring \in [at : {"idle", "binaries", "fetching", "verify"}, platform : Platforms,
                    build : Builds \cup {NoFile}, todo : SUBSET Platforms]
  /\ publishing \in [at : {"idle", "verify", "upload"}, n : 1 .. 4, mixed : BOOLEAN]
  /\ scripts \in BOOLEAN /\ sound \in BOOLEAN /\ fresh \subseteq Downloads
  /\ dl \in [Downloads -> Records]

\* What is installed is whole and is what the audit log says was downloaded, over
\* publications of the version over itself and uploads of files that a mirror run
\* is writing; only a line that could not be written is missing.
InstalledAsAudited ==
  \A d \in Downloads : dl[d].at = "installed" =>
    /\ dl[d].exe \in Builds
    /\ dl[d].lost \/ dl[d].logged = dl[d].exe

\* A download that finds a manifest finds its binary, and what it gets is refused
\* for its digest only if the manifest was read while a publication was not
\* complete, an object was uploaded before the binary was read, or a mirror run
\* changed the directory under the last publication.
RefusedOnlyIfTorn ==
  \A d \in Downloads :
    /\ dl[d].at \in {"scripts", "audit", "get"} => bucket.binary[dl[d].platform] # NoFile
    /\ dl[d].at = "refused" => ~dl[d].fresh

=============================================================================
