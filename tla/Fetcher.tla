------------------------------ MODULE Fetcher ------------------------------
(***************************************************************************)
(* BrowserFetcher::fetch: a version is resolved to a build, and the build  *)
(* is found in the cache or downloaded and unpacked into it.               *)
(*                                                                         *)
(* Several fetches share one cache directory: they run in one program or   *)
(* in several, and any of them may be killed at any point.  A file is what *)
(* its content is a part of; an archive is Chunks parts.                   *)
(***************************************************************************)
EXTENDS Naturals, Sequences, SequencesExt

CONSTANTS
  Fetches,    \* calls of fetch
  Options,    \* what they may ask for: [kind, platform, version]
  Releases,   \* the host's metadata: [version, revision, channels]
  LastChange, \* the host's newest revision of Chromium
  Entries     \* of an archive, in order: "exe", "link" or "file"

\* A release has a version, and an archive has the executable in it.
ASSUME FetcherConstants ==
  /\ \A r \in Releases : r.version # <<>>
  /\ Entries \in Seq({"exe", "link", "file"}) /\ \E n \in 1..Len(Entries) : Entries[n] = "exe"

NoBuild == [revision |-> 0, id |-> <<>>]
Gap == <<>>
Chunks == 2

-----------------------------------------------------------------------------
(* Versions.  A number, a channel's name or the parts of a dotted version. *)

Number(n) == [type |-> "number", value |-> n]
ChannelName(name) == [type |-> "channel", value |-> name]
Dotted(parts) == [type |-> "dotted", value |-> parts]

\* BrowserVersion::from_str: what is too small for a revision is a milestone.
FromStr(s) ==
  CASE s.type = "number" ->
         [s EXCEPT !.type = IF s.value >= 1000000 THEN "revision" ELSE "milestone"]
    [] s.type = "dotted" /\ Len(s.value) \notin {3, 4} -> [s EXCEPT !.type = "invalid"]
    [] OTHER -> s

\* BrowserVersion::current
LatestBuild(kind) ==
  IF kind = "Chromium" THEN [type |-> "revision", value |-> 1585606] ELSE ChannelName("Stable")

BuildOf(release) == [revision |-> release.revision, id |-> release.version]
Builds(P(_)) == {BuildOf(r) : r \in {x \in Releases : P(x)}}

ByRevision(kind, n) ==
  IF kind = "Chromium" THEN {[revision |-> n, id |-> <<n>>]}
                       ELSE Builds(LAMBDA r : r.revision = n)

ByChannel(kind, name) ==
  IF kind # "Chromium" THEN Builds(LAMBDA r : name \in r.channels)
  ELSE IF name = "Canary" THEN {[revision |-> LastChange, id |-> <<LastChange>>]} ELSE {}

\* A patch is taken at its word, and its revision is not known.
ByVersion(kind, parts) ==
  IF kind = "Chromium" THEN {}
  ELSE IF Len(parts) = 4 THEN {[revision |-> 0, id |-> parts]}
  ELSE {b \in Builds(LAMBDA r : Front(r.version) = parts) :
          \A r \in Releases : Front(r.version) = parts => Last(r.version) <= Last(b.id)}

ByMilestone(kind, n) ==
  IF kind = "Chromium" THEN {}
  ELSE Builds(LAMBDA r : Head(r.version) = n /\ "milestone" \in r.channels)

\* At most one build; none is an error.
Resolve(kind, version) ==
  LET v == IF version.type = "default" THEN LatestBuild(kind) ELSE FromStr(version)
  IN CASE v.type = "revision" -> ByRevision(kind, v.value)
       [] v.type = "channel" -> ByChannel(kind, v.value)
       [] v.type = "dotted" -> ByVersion(kind, v.value)
       [] v.type = "milestone" -> ByMilestone(kind, v.value)
       [] OTHER -> {}

-----------------------------------------------------------------------------
(* Paths *)

\* Mutant: the same name for every kind.
ArchiveNameOfAll(kind, platform, build) == <<"chrome", platform>>

\* The folder of the archive, below the build's own.
ArchiveName(kind, platform, build) ==
  IF kind # "Chromium" THEN <<kind, platform>>
  ELSE CASE platform \in {"Mac", "MacArm"} -> <<"chrome-mac">>
         [] platform \in {"Win32", "Win64"} ->
              IF build.revision = 0 \/ build.revision > 591479 THEN <<"chrome-win">>
                                                               ELSE <<"chrome-win32">>
         [] OTHER -> <<"chrome-linux">>

\* The kind of browser has no part in the name.
FolderPath(platform, build) == <<platform, build.id>>

\* with_extension("zip"): what follows the last dot of the folder's name is replaced.
ArchivePath(folder) ==
  <<folder[1], IF Len(folder[2]) > 1 THEN Front(folder[2]) ELSE folder[2]>>

Path(folder, kind, build, n) == <<folder, ArchiveName(kind, folder[1], build), n>>

\* What the host keeps at download_url.
ArchiveContent(kind, platform, build) == <<kind, platform, build.id>>

ExeAt == CHOOSE n \in 1..Len(Entries) : Entries[n] = "exe"

-----------------------------------------------------------------------------
VARIABLES
  options,  \* of each fetch
  fetch_stage,    \* of each fetch
  build,    \* what its version was resolved to
  at,       \* the chunk it writes or the entry it unpacks
  linked,   \* the file it writes is still the one at the archive's path
  source,   \* the content of the archive it unpacks
  archives, \* cache: the archives, each a content or a gap for every chunk
  files,    \* cache: what is in the file at each path
  disturbed \* history: folders where fetches met, or an unpacking stopped that had created
            \* the executable

cacheVars == <<archives, files>>
fetchVars == <<options, fetch_stage, build, at, linked, source, cacheVars, disturbed>>

Folder(f) == FolderPath(options[f].platform, build[f])
Archive(f) == ArchivePath(Folder(f))
FileAt(f, n) == Path(Folder(f), options[f].kind, build[f], n)
Own(f) == ArchiveContent(options[f].kind, options[f].platform, build[f])

PutFile(g, path, value) ==
  [p \in DOMAIN g \cup {path} |-> IF p = path THEN value ELSE g[p]]
WithoutFile(g, path) == [p \in DOMAIN g \ {path} |-> g[p]]

To(f, next) == fetch_stage' = [fetch_stage EXCEPT ![f] = next]
ArchiveBusy(f) == fetch_stage[f] \notin {"new", "done", "failed", "killed"}

\* The folders of those that are under way with an archive at the same path.
Met(f) ==
  LET others == {g \in Fetches \ {f} : ArchiveBusy(g) /\ build[g] # NoBuild /\ Archive(g) = Archive(f)}
  IN IF others = {} THEN {} ELSE {Folder(g) : g \in others \cup {f}}

\* Metadata that cannot be had is an error too.
ResolveVersion(f) ==
  /\ fetch_stage[f] = "new"
  /\ \/ \E b \in Resolve(options[f].kind, options[f].version) :
          build' = [build EXCEPT ![f] = b] /\ To(f, "local")
     \/ To(f, "failed") /\ UNCHANGED build
  /\ UNCHANGED <<options, at, linked, source, cacheVars, disturbed>>

\* The executable is there, or the archive's file is created or cut to nothing.  The
\* cache's own directory may be missing.
Local(f) ==
  /\ fetch_stage[f] = "local"
  /\ IF FileAt(f, ExeAt) \in DOMAIN files
     THEN To(f, "done") /\ UNCHANGED <<at, linked, archives>>
     ELSE \/ To(f, "failed") /\ UNCHANGED <<at, linked, archives>>
          \/ /\ To(f, "downloading") /\ at' = [at EXCEPT ![f] = 1]
             /\ linked' = [linked EXCEPT ![f] = TRUE]
             /\ archives' = PutFile(archives, Archive(f), [c \in 1..Chunks |-> Gap])
  /\ disturbed' = disturbed \cup Met(f)
  /\ UNCHANGED <<options, build, source, files>>

\* A chunk of the body: each file handle has its own position.  `write` may take less
\* than it is given, and nobody writes the rest.
Download(f) ==
  /\ fetch_stage[f] = "downloading"
  /\ \E written \in {Own(f), Gap} :
       archives' = IF linked[f] /\ Archive(f) \in DOMAIN archives
                   THEN [archives EXCEPT ![Archive(f)][at[f]] = written] ELSE archives
  /\ at' = [at EXCEPT ![f] = IF at[f] < Chunks THEN at[f] + 1 ELSE 1]
  /\ To(f, IF at[f] < Chunks THEN "downloading" ELSE "opening")
  /\ UNCHANGED <<options, build, linked, source, files, disturbed>>

\* The host refuses, or the transfer or a write fails.
DownloadFails(f) ==
  /\ fetch_stage[f] = "downloading" /\ To(f, "failed")
  /\ UNCHANGED <<options, build, at, linked, source, cacheVars, disturbed>>

\* Where the archive has this entry.
Target(f, n) == <<Folder(f), ArchiveName(source[f][1], source[f][2], build[f]), n>>
HasPart(f) ==
  Archive(f) \in DOMAIN archives => \E c \in 1..Chunks : archives[Archive(f)][c] = source[f]
IsSound(f) ==
  Archive(f) \in DOMAIN archives => \A c \in 1..Chunks : archives[Archive(f)][c] = source[f]

\* The end of an archive says what is in it; with a gap before it, it may not be found.
OpenArchive(f) ==
  /\ fetch_stage[f] = "opening"
  /\ LET last == IF Archive(f) \in DOMAIN archives THEN archives[Archive(f)][Chunks] ELSE Gap
     IN \/ last # Gap /\ To(f, "unpacking") /\ source' = [source EXCEPT ![f] = last]
        \/ /\ last # Gap => \E c \in 1..Chunks : archives[Archive(f)][c] # last
           /\ To(f, "failed") /\ UNCHANGED source
  /\ UNCHANGED <<options, build, at, linked, cacheVars, disturbed>>

\* The executable stays if it is there by then, whole or not.
Stop(f, stage) ==
  /\ To(f, stage)
  /\ disturbed' = IF fetch_stage[f] \in {"unpacking", "filling"} /\ FileAt(f, ExeAt) \in DOMAIN files
                  THEN disturbed \cup {Folder(f)} ELSE disturbed

\* A file is created, and filled in the next step.
Unpack(f) ==
  /\ fetch_stage[f] = "unpacking" /\ at[f] <= Len(Entries) /\ Entries[at[f]] # "link"
  /\ files' = PutFile(files, Target(f, at[f]), Gap) /\ To(f, "filling")
  /\ UNCHANGED <<options, build, at, linked, source, archives, disturbed>>

\* A link is read first, and cannot be made where there is a file.
UnpackLink(f) ==
  /\ fetch_stage[f] = "unpacking" /\ at[f] <= Len(Entries) /\ Entries[at[f]] = "link"
  /\ \/ /\ HasPart(f) /\ Target(f, at[f]) \notin DOMAIN files
        /\ files' = PutFile(files, Target(f, at[f]), source[f])
        /\ at' = [at EXCEPT ![f] = at[f] + 1] /\ UNCHANGED <<fetch_stage, disturbed>>
     \/ /\ ~IsSound(f) \/ Target(f, at[f]) \in DOMAIN files
        /\ Stop(f, "failed") /\ UNCHANGED <<at, files>>
  /\ UNCHANGED <<options, build, linked, source, archives>>

\* The checksum of what was read must fit: an archive with gaps may still have this
\* entry.
Fill(f) ==
  /\ fetch_stage[f] = "filling"
  /\ \/ /\ HasPart(f)
        /\ files' = [files EXCEPT ![Target(f, at[f])] = source[f]]
        /\ at' = [at EXCEPT ![f] = at[f] + 1] /\ To(f, "unpacking") /\ UNCHANGED disturbed
     \/ ~IsSound(f) /\ Stop(f, "failed") /\ UNCHANGED <<at, files>>
  /\ UNCHANGED <<options, build, linked, source, archives>>

\* The archive is removed, if possible; whoever writes it goes on writing nowhere.
Finish(f) ==
  /\ fetch_stage[f] = "unpacking" /\ at[f] > Len(Entries) /\ To(f, "done")
  /\ archives' = WithoutFile(archives, Archive(f))
  /\ linked' = [g \in Fetches |-> linked[g] /\ (build[g] = NoBuild \/ Archive(g) # Archive(f))]
  /\ UNCHANGED <<options, build, at, source, files, disturbed>>

\* The program is killed, or writing to the disk fails.
CutShort(f) ==
  /\ ArchiveBusy(f) /\ Stop(f, "killed")
  /\ UNCHANGED <<options, build, at, linked, source, cacheVars>>

FetchInit ==
  /\ options \in [Fetches -> Options] /\ fetch_stage = [f \in Fetches |-> "new"]
  /\ build = [f \in Fetches |-> NoBuild] /\ at = [f \in Fetches |-> 1]
  /\ linked = [f \in Fetches |-> FALSE] /\ source = [f \in Fetches |-> <<>>]
  /\ archives = <<>> /\ files = <<>> /\ disturbed = {}

FetchNext ==
  \E f \in Fetches :
    \/ ResolveVersion(f) \/ Local(f) \/ Download(f) \/ DownloadFails(f)
    \/ OpenArchive(f) \/ Unpack(f) \/ UnpackLink(f) \/ Fill(f) \/ Finish(f) \/ CutShort(f)

FetchSpec == FetchInit /\ [][FetchNext]_fetchVars

-----------------------------------------------------------------------------
(* Properties *)

Stages == {"new", "local", "downloading", "opening", "unpacking", "filling", "done",
           "failed", "killed"}

FetchTypeOK ==
  /\ fetch_stage \in [Fetches -> Stages] /\ options \in [Fetches -> Options]
  /\ \A p \in DOMAIN archives : DOMAIN archives[p] = 1..Chunks
  /\ \A f \in Fetches : at[f] \in 1..(Len(Entries) + 1)

\* What fetch returns is a whole installation of the very build that was asked for,
\* whatever was installed before and wherever earlier fetches failed or were killed.
\* Two kinds of folder are excepted.  In one, an unpacking failed or was killed once it
\* had created the executable: half written or empty, it is all that `local` looks for,
\* and the next fetch returns it.  In the other, fetches used one archive path at a time.
InstallationIsWhole ==
  \A f \in Fetches :
    fetch_stage[f] = "done" /\ Folder(f) \notin disturbed =>
      \A n \in 1..Len(Entries) :
        FileAt(f, n) \in DOMAIN files /\ files[FileAt(f, n)] = Own(f)
=============================================================================
