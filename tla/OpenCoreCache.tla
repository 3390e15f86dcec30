---------------------------- MODULE OpenCoreCache ----------------------------
(***************************************************************************)
(* The cache of OpenCore releases that all targets share: the archives in  *)
(* downloads/, the trees under cache/opencore/, downloads/manifest.tsv and *)
(* cache/current-sources.env, which names the release builds use and pins  *)
(* the kexts and drivers.                                                  *)
(*                                                                         *)
(* Three commands work on it: "main" is prepare_aspire4310_macos.sh        *)
(* --download, "fetch" and "select" are select_opencore_release.sh with    *)
(* --download and with --select-only.  Nothing locks the cache.  Any       *)
(* failing command ends a script on the spot, as a kill does, and neither  *)
(* script tidies the cache up on its way out.                              *)
(***************************************************************************)
EXTENDS Naturals

CONSTANTS
    Procs,       \* shells the operator has open
    MaxVersion,  \* releases that come out
    MaxKills,    \* how often a command fails or is killed
    FoundArchives  \* what an archive that was put into downloads/ may be

ASSUME CacheAssumption ==
    /\ MaxVersion \in Nat \ {0}
    /\ MaxKills \in Nat
    /\ FoundArchives \subseteq {"none", "bad", "good"}

VARIABLES
    latest,    \* the newest release upstream
    archive,   \* downloads/OpenCore-<version>-<variant>.zip
    part,      \* the same with .part
    manifest,  \* the (version, digest) rows marked VERIFIED
    staging,   \* cache/opencore/<version>/<variant>.extracting
    cache,     \* cache/opencore/<version>/<variant>
    env,       \* current-sources.env
    proc,      \* the running commands
    kills,     \* commands ended early so far
    overlap    \* two commands have run at the same time

vars == <<latest, archive, part, manifest, staging, cache, env, proc, kills, overlap>>

Versions == 1..MaxVersion

\* A file is what upstream has ("good") or is not ("bad": cut short, with a hole
\* in it, or another one); a tree has all files of its release ("whole") or not.
Files == {"none", "bad", "good"}
Trees == {"none", "some", "whole"}

NoEnv == [there |-> FALSE, oc |-> 0, pins |-> 0]
TornEnv == [there |-> TRUE, oc |-> 0, pins |-> 0]

\* fd: where the file a curl of the command writes is by now; spoiled: another
\* command has emptied what this one is writing; pins: read, or about to be set.
Idle == [pc |-> "idle", tool |-> "none", v |-> 1, fd |-> "none",
         spoiled |-> FALSE, pins |-> 0]

Tools == {"main", "fetch", "select"}

Labels == {"idle", "have", "compare", "curl", "curling", "rename", "digest",
           "extract", "unzip", "install", "validate", "read", "truncate", "rewrite"}

Init ==
    /\ latest = 1
    /\ archive \in [Versions -> FoundArchives]
    /\ part = [v \in Versions |-> "none"]
    /\ manifest = {}
    /\ staging = [v \in Versions |-> "none"]
    /\ cache = [v \in Versions |-> "none"]
    /\ env = NoEnv
    /\ proc = [p \in Procs |-> Idle]
    /\ kills = 0
    /\ overlap = FALSE

(***************************************************************************)
(* Steps of a command.                                                     *)
(***************************************************************************)
At(p, l) == proc[p].pc = l

\* The command goes on at label n; the rest of it is as before.
Goes(p, n) == proc' = [proc EXCEPT ![p].pc = n]

Ends(p) == proc' = [proc EXCEPT ![p] = Idle]

\* The commands other than p at label l that work on the same release.
Others(p, l) == {q \in Procs \ {p} : At(q, l) /\ proc[q].v = proc[p].v}

\* p goes on at label n and spoils what the commands in qs are writing.
GoesSpoiling(p, n, fd, qs) ==
    proc' = [q \in Procs |->
               IF q = p THEN [proc[p] EXCEPT !.pc = n, !.fd = fd, !.spoiled = FALSE]
               ELSE IF q \in qs THEN [proc[q] EXCEPT !.spoiled = TRUE]
               ELSE proc[q]]

\* The answers a test for a file of the tree can give.
Shows(tree) == CASE tree = "whole" -> {TRUE}
                 [] tree = "some" -> BOOLEAN
                 [] OTHER -> {FALSE}

\* Mutant of Start: the release after the one that was resolved is asked for.
StartBeyond(p, tool, v) ==
    /\ At(p, "idle")
    /\ v <= latest
    /\ proc' = [proc EXCEPT ![p] = [Idle EXCEPT !.pc = "have", !.tool = tool,
                                                !.v = v + 1]]
    /\ UNCHANGED <<latest, archive, part, manifest, staging, cache, env, kills, overlap>>

\* A command is started: "main" takes the newest release, the others a given one.
Start(p, tool, v) ==
    /\ At(p, "idle")
    /\ v <= latest
    /\ tool = "main" => v = latest
    /\ proc' = [proc EXCEPT ![p] =
                  [Idle EXCEPT !.pc = IF tool = "select" THEN "validate" ELSE "have",
                               !.tool = tool, !.v = v]]
    /\ overlap' = (overlap \/ \E q \in Procs \ {p} : ~At(q, "idle"))
    /\ UNCHANGED <<latest, archive, part, manifest, staging, cache, env, kills>>

(***************************************************************************)
(* The archive.                                                            *)
(***************************************************************************)

\* download_cached has found the archive: the manifest decides about it.
CacheHit(v) == IF <<v, archive[v]>> \in manifest THEN "extract" ELSE "compare"

\* An archive that is not there is downloaded; the selector takes one that is.
LookForArchive(p) ==
    LET v == proc[p].v
    IN  /\ At(p, "have")
        /\ Goes(p, IF archive[v] = "none" THEN "curl"
                   ELSE IF proc[p].tool = "fetch" THEN "digest" ELSE CacheHit(v))
        /\ UNCHANGED <<latest, archive, part, manifest, staging, cache, env, kills,
                       overlap>>

\* download_cached fetches the file anew and compares: it dies if they differ.
CompareWithUpstream(p) ==
    /\ At(p, "compare")
    /\ IF archive[proc[p].v] = "good" THEN Goes(p, "digest") ELSE Ends(p)
    /\ UNCHANGED <<latest, archive, part, manifest, staging, cache, env, kills, overlap>>

\* Mutant of OpenPart: curl writes the archive itself, without a .part.
OpenPartInPlace(p) ==
    /\ At(p, "curl")
    /\ archive' = [archive EXCEPT ![proc[p].v] = "bad"]
    /\ part' = [part EXCEPT ![proc[p].v] = "bad"]
    /\ GoesSpoiling(p, "curling", "part", {})
    /\ UNCHANGED <<latest, manifest, staging, cache, env, kills, overlap>>

\* curl opens .part and empties it, whoever else is writing it.
OpenPart(p) ==
    LET v == proc[p].v
        writers == {q \in Others(p, "curling") : proc[q].fd = "part"}
    IN  /\ At(p, "curl")
        /\ part' = [part EXCEPT ![v] = "bad"]
        /\ GoesSpoiling(p, "curling", "part", writers)
        /\ UNCHANGED <<latest, archive, manifest, staging, cache, env, kills, overlap>>

\* curl has written all of it, under whatever name the file has now.
FinishPart(p) ==
    LET v == proc[p].v
        content == IF proc[p].spoiled THEN "bad" ELSE "good"
    IN  /\ At(p, "curling")
        /\ IF proc[p].fd = "part"
           THEN part' = [part EXCEPT ![v] = content] /\ UNCHANGED archive
           ELSE archive' = [archive EXCEPT ![v] = content] /\ UNCHANGED part
        /\ proc' = [proc EXCEPT ![p].pc = "rename", ![p].fd = "none"]
        /\ UNCHANGED <<latest, manifest, staging, cache, env, kills, overlap>>

\* mv .part to the archive; a curl still writing it does not notice.
RenamePart(p) ==
    LET v == proc[p].v
    IN  /\ At(p, "rename")
        /\ IF part[v] = "none"
           THEN Ends(p) /\ UNCHANGED <<archive, part>>
           ELSE /\ archive' = [archive EXCEPT ![v] = part[v]]
                /\ part' = [part EXCEPT ![v] = "none"]
                /\ proc' = [q \in Procs |->
                              IF q = p THEN [proc[p] EXCEPT !.pc = "digest"]
                              ELSE IF q \in Others(p, "curling") /\ proc[q].fd = "part"
                              THEN [proc[q] EXCEPT !.fd = "archive"]
                              ELSE proc[q]]
        /\ UNCHANGED <<latest, manifest, staging, cache, env, kills, overlap>>

record_manifest(p) ==
    /\ At(p, "digest")
    /\ manifest' = manifest \cup {<<proc[p].v, archive[proc[p].v]>>}
    /\ Goes(p, "extract")
    /\ UNCHANGED <<latest, archive, part, staging, cache, env, kills, overlap>>

(***************************************************************************)
(* The tree.                                                               *)
(***************************************************************************)

\* Mutant of BeginExtraction: the archive is unpacked in its final place.
BeginExtractionInPlace(p) ==
    LET v == proc[p].v
    IN  /\ At(p, "extract")
        /\ IF cache[v] # "none" THEN Goes(p, "validate") /\ UNCHANGED <<staging, cache>>
           ELSE /\ cache' = [cache EXCEPT ![v] = "some"]
                /\ staging' = [staging EXCEPT ![v] = "some"]
                /\ GoesSpoiling(p, "unzip", "none", {})
        /\ UNCHANGED <<latest, archive, part, manifest, env, kills, overlap>>

\* Mutant of BeginExtraction: a stale extraction is in the selector's way too.
BeginExtractionStrict(p) ==
    LET v == proc[p].v
    IN  /\ At(p, "extract")
        /\ IF cache[v] # "none" THEN Goes(p, "validate") /\ UNCHANGED staging
           ELSE IF staging[v] # "none" THEN Ends(p) /\ UNCHANGED staging
           ELSE staging' = [staging EXCEPT ![v] = "some"] /\ Goes(p, "unzip")
        /\ UNCHANGED <<latest, archive, part, manifest, cache, env, kills, overlap>>

\* extract_zip_once, unlike the selector, does not remove a stale extraction.
StaleExtraction(p) == proc[p].tool = "main" /\ staging[proc[p].v] # "none"

\* A tree with its marker is left alone, one without it is refused.
BeginExtraction(p) ==
    LET v == proc[p].v
        stale == StaleExtraction(p)
    IN  /\ At(p, "extract")
        /\ \E marker \in Shows(cache[v]) :
             \/ /\ marker /\ Goes(p, "validate")
                /\ UNCHANGED staging
             \/ /\ ~marker /\ (cache[v] # "none" \/ stale) /\ Ends(p)
                /\ UNCHANGED staging
             \/ /\ ~marker /\ cache[v] = "none" /\ ~stale
                /\ staging' = [staging EXCEPT ![v] = "some"]
                /\ GoesSpoiling(p, "unzip", "none", Others(p, "unzip"))
        /\ UNCHANGED <<latest, archive, part, manifest, cache, env, kills, overlap>>

\* unzip needs an archive and its directory; the marker is then looked for.  One that
\* is not upstream's may be refused, or it is a zip as well and is unpacked.
Unzip(p) ==
    LET v == proc[p].v
        sound == archive[v] = "good"
        result == IF sound /\ ~proc[p].spoiled THEN "whole" ELSE "some"
    IN  /\ At(p, "unzip")
        /\ \/ (~sound \/ staging[v] = "none") /\ Ends(p) /\ UNCHANGED staging
           \/ /\ archive[v] # "none" /\ staging[v] # "none"
              /\ staging' = [staging EXCEPT ![v] = result]
              /\ \E marker \in Shows(result) :
                   IF marker THEN Goes(p, "install") ELSE Ends(p)
        /\ UNCHANGED <<latest, archive, part, manifest, cache, env, kills, overlap>>

\* mv of the extraction to its place, or into a tree another command put there.
InstallTree(p) ==
    LET v == proc[p].v
    IN  /\ At(p, "install")
        /\ IF staging[v] = "none"
           THEN Ends(p) /\ UNCHANGED <<staging, cache>>
           ELSE /\ staging' = [staging EXCEPT ![v] = "none"]
                /\ cache' = [cache EXCEPT ![v] = IF @ = "none" THEN staging[v] ELSE @]
                /\ Goes(p, "validate")
        /\ UNCHANGED <<latest, archive, part, manifest, env, kills, overlap>>

(***************************************************************************)
(* The selection.                                                          *)
(***************************************************************************)

\* Mutant of validate_cache: the selector does not look at the tree.
validate_cache_skipped(p) ==
    /\ At(p, "validate")
    /\ Goes(p, "read")
    /\ UNCHANGED <<latest, archive, part, manifest, staging, cache, env, kills, overlap>>

\* The files a build needs are there.  The selector also wants the file that names
\* the selection to exist; "main" goes on to write a new one.
validate_cache(p) ==
    /\ At(p, "validate")
    /\ \E valid \in Shows(cache[proc[p].v]) :
         IF valid /\ (proc[p].tool = "main" \/ env.there)
         THEN Goes(p, "read")
         ELSE Ends(p)
    /\ UNCHANGED <<latest, archive, part, manifest, staging, cache, env, kills, overlap>>

\* The commits of the drivers and kexts run_download has resolved and fetched; that
\* it fails on the way to them is a Kill.
ResolvedPins == latest

\* The selector reads the lines it is to keep.
ReadPins(p) ==
    /\ At(p, "read")
    /\ proc' = [proc EXCEPT ![p].pc = "truncate",
                            ![p].pins = IF proc[p].tool = "main"
                                        THEN ResolvedPins ELSE env.pins]
    /\ UNCHANGED <<latest, archive, part, manifest, staging, cache, env, kills, overlap>>

\* Both rewrite the file in place: it is emptied, then written.
TruncateEnv(p) ==
    /\ At(p, "truncate")
    /\ env' = TornEnv
    /\ Goes(p, "rewrite")
    /\ UNCHANGED <<latest, archive, part, manifest, staging, cache, kills, overlap>>

RewriteEnv(p) ==
    /\ At(p, "rewrite")
    /\ env' = [there |-> TRUE, oc |-> proc[p].v, pins |-> proc[p].pins]
    /\ Ends(p)
    /\ UNCHANGED <<latest, archive, part, manifest, staging, cache, kills, overlap>>

(***************************************************************************)
(* Around the commands.                                                    *)
(***************************************************************************)

\* A command fails or is killed, and leaves the cache as it is.
Kill(p) ==
    /\ ~At(p, "idle")
    /\ kills < MaxKills
    /\ kills' = kills + 1
    /\ Ends(p)
    /\ UNCHANGED <<latest, archive, part, manifest, staging, cache, env, overlap>>

Release ==
    /\ latest < MaxVersion
    /\ latest' = latest + 1
    /\ UNCHANGED <<archive, part, manifest, staging, cache, env, proc, kills, overlap>>

Step(p) ==
    \/ LookForArchive(p) \/ CompareWithUpstream(p) \/ OpenPart(p) \/ FinishPart(p)
    \/ RenamePart(p) \/ record_manifest(p) \/ BeginExtraction(p) \/ Unzip(p)
    \/ InstallTree(p) \/ validate_cache(p) \/ ReadPins(p) \/ TruncateEnv(p)
    \/ RewriteEnv(p)

Next ==
    \/ Release
    \/ \E p \in Procs :
         \/ \E tool \in Tools, v \in Versions : Start(p, tool, v)
         \/ Step(p)
         \/ Kill(p)

Spec == Init /\ [][Next]_vars

\* A command that was started is scheduled, and the operator does not tire of
\* asking for a release with "fetch".
Fairness ==
    \A p \in Procs :
        /\ WF_vars(Step(p))
        /\ \A v \in Versions : SF_vars(Start(p, "fetch", v))

LiveSpec == Spec /\ Fairness

(***************************************************************************)
(* Properties.                                                             *)
(***************************************************************************)

\* Every variable holds a value of its kind.
TypeOK ==
    /\ latest \in Versions
    /\ archive \in [Versions -> Files]
    /\ part \in [Versions -> Files]
    /\ manifest \subseteq Versions \X Files
    /\ staging \in [Versions -> Trees]
    /\ cache \in [Versions -> Trees]
    /\ env \in [there : BOOLEAN, oc : 0..MaxVersion, pins : 0..MaxVersion]
    /\ proc \in [Procs -> [pc : Labels, tool : Tools \cup {"none"}, v : Versions,
                           fd : {"none", "part", "archive"}, spoiled : BOOLEAN,
                           pins : 0..MaxVersion]]
    /\ kills \in 0..MaxKills
    /\ overlap \in BOOLEAN

\* A release that is selected has been unpacked, and as long as no two commands ran
\* at once, and no archive but upstream's was put into downloads/, all of it is there,
\* wherever earlier commands failed or were killed.
SelectedIsUnpacked ==
    env.oc # 0 => /\ cache[env.oc] # "none"
                  /\ ~overlap => cache[env.oc] = "whole"

\* As long as no two commands ran at once, and no archive but upstream's was put into
\* downloads/, a tree in its place in the cache is complete, although both extractors
\* use the same staging directory and may have been stopped anywhere.
CachedIsWhole == ~overlap => \A v \in Versions : cache[v] # "some"

\* Every release asked for often enough gets into the cache, whatever state a
\* command that was stopped has left its files in.
ReleaseGetsCached ==
    \A v \in Versions : v <= latest ~> cache[v] = "whole"

\* As long as nobody put archives into downloads/ and no two commands ran at once,
\* what the manifest marks as VERIFIED is what upstream has, although a download
\* may stop anywhere and the selector does not compare the archive it finds.
RecordedIsUpstream == ~overlap => \A v \in Versions : <<v, "bad">> \notin manifest

\* A row of the manifest marks a file as VERIFIED that was downloaded or compared
\* with the one upstream, whatever was in downloads/ before.
VerifiedIsUpstream == \A v \in Versions : <<v, "bad">> \notin manifest

\* "pinned kext/HFS metadata is preserved": a selection that has read the pins
\* leaves them in the file, however it ends.
PinsPreserved ==
    [][\A p \in Procs :
         /\ proc[p].tool \in {"fetch", "select"}
         /\ proc[p].pins # 0
         /\ proc'[p].pc = "idle"
         => env'.pins = proc[p].pins]_vars
==============================================================================
