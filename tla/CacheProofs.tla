----------------------------- MODULE CacheProofs -----------------------------
(***************************************************************************)
(* Proofs about OpenCoreCache, for every number of shells, releases and    *)
(* failing commands.                                                       *)
(*                                                                         *)
(* Nothing locks the cache, so most of what is known of its files is known *)
(* only as long as no two commands have run at once.  Then the one command *)
(* under way is the only writer: what it downloads goes to .part, what it  *)
(* unpacks is whole, and nobody spoils either, provided that no archive    *)
(* but upstream's was put into downloads/.  That a selected release has a  *)
(* tree needs neither proviso: a tree never leaves the cache.              *)
(***************************************************************************)
EXTENDS OpenCoreCache, TLAPS

Pins == 0..MaxVersion
Envs == [there : BOOLEAN, oc : Pins, pins : Pins]
Frames == [pc : Labels, tool : Tools \cup {"none"}, v : Versions,
           fd : {"none", "part", "archive"}, spoiled : BOOLEAN, pins : Pins]

Busy(p) == proc[p].pc # "idle"

\* Without an overlap one command is under way at most.
AloneInv == ~overlap => \A p, q \in Procs : Busy(p) /\ Busy(q) => p = q

\* What such a command is writing is what it takes it for.
CleanInv ==
    ~overlap => \A p \in Procs :
        /\ ~proc[p].spoiled
        /\ proc[p].pc = "curling" => proc[p].fd = "part"
        /\ proc[p].pc = "rename" => part[proc[p].v] = "good"
        /\ proc[p].pc = "install" => staging[proc[p].v] = "whole"

\* A command that goes on to select a release has seen its tree.
CheckedInv ==
    \A p \in Procs :
        proc[p].pc \in {"read", "truncate", "rewrite"} => cache[proc[p].v] # "none"

\* A release that is selected has a tree.
SelectedInv == env.oc # 0 => cache[env.oc] # "none"

\* Alone, no command leaves a bad archive where one can be taken for good.
SoundInv == ~overlap => \A v \in Versions : archive[v] # "bad"

IndInv ==
    /\ TypeOK /\ AloneInv /\ CleanInv /\ SoundInv /\ CheckedInv /\ SelectedInv
    /\ CachedIsWhole

(***************************************************************************)
(* Types.                                                                  *)
(***************************************************************************)

\* A command starts from a frame of its kind.
LEMMA IdleType == Idle \in Frames
  <1>1. 1 \in Versions /\ 0 \in Pins
    BY CacheAssumption DEF Versions, Pins
  <1>2. "idle" \in Labels
    BY DEF Labels
  <1> QED
    BY <1>1, <1>2 DEF Idle, Frames

\* The ways the frames change keep their types.
LEMMA FrameTypes ==
    ASSUME proc \in [Procs -> Frames], NEW p \in Procs
    PROVE  /\ \A n \in Labels : Goes(p, n) => proc' \in [Procs -> Frames]
           /\ Ends(p) => proc' \in [Procs -> Frames]
           /\ \A qs : \A n \in Labels, fd \in {"none", "part"} :
                 GoesSpoiling(p, n, fd, qs) => proc' \in [Procs -> Frames]
  <1>1. ASSUME NEW n \in Labels, Goes(p, n) PROVE proc' \in [Procs -> Frames]
    BY <1>1 DEF Goes, Frames
  <1>2. Ends(p) => proc' \in [Procs -> Frames]
    BY IdleType DEF Ends
  <1>3. ASSUME NEW n \in Labels, NEW fd \in {"none", "part"}, NEW qs,
               GoesSpoiling(p, n, fd, qs)
        PROVE  proc' \in [Procs -> Frames]
    <2>1. [proc[p] EXCEPT !.pc = n, !.fd = fd, !.spoiled = FALSE] \in Frames
      BY <1>3 DEF Frames
    <2>2. \A q \in Procs : [proc[q] EXCEPT !.spoiled = TRUE] \in Frames
      BY DEF Frames
    <2> QED
      BY <1>3, <2>1, <2>2 DEF GoesSpoiling
  <1> QED
    BY <1>1, <1>2, <1>3

\* The empty cache is of its kind, whatever archives were found.
LEMMA InitTypes == Init => TypeOK
  <1> SUFFICES ASSUME Init PROVE TypeOK
    OBVIOUS
  <1>1. latest \in Versions /\ kills \in 0..MaxKills
    BY CacheAssumption DEF Init, Versions
  <1>2. archive \in [Versions -> Files]
    BY CacheAssumption DEF Init, Files
  <1>3. /\ part \in [Versions -> Files] /\ staging \in [Versions -> Trees]
        /\ cache \in [Versions -> Trees] /\ manifest \subseteq Versions \X Files
        /\ overlap \in BOOLEAN
    BY DEF Init, Files, Trees
  <1>4. env \in Envs
    <2>1. 0 \in Pins
      BY CacheAssumption DEF Pins
    <2> QED
      BY <2>1 DEF Init, NoEnv, Envs
  <1>5. proc \in [Procs -> Frames]
    BY IdleType DEF Init
  <1> QED
    BY <1>1, <1>2, <1>3, <1>4, <1>5 DEF TypeOK, Frames, Envs, Pins

\* Every step keeps the types of the files and of the running commands.
LEMMA StepTypes == ASSUME TypeOK, Next PROVE TypeOK'
  <1> USE DEF Files, Trees
  <1>0. /\ proc \in [Procs -> Frames] /\ latest \in Versions /\ latest \in Pins
        /\ archive \in [Versions -> Files] /\ part \in [Versions -> Files]
        /\ manifest \subseteq Versions \X Files
        /\ staging \in [Versions -> Trees] /\ cache \in [Versions -> Trees]
        /\ env \in Envs
        /\ kills \in 0..MaxKills /\ overlap \in BOOLEAN
    BY CacheAssumption DEF TypeOK, Frames, Envs, Pins, Versions
  <1>1. CASE Release
    <2>1. latest' \in Versions
      BY <1>0, <1>1, CacheAssumption DEF Release, Versions
    <2> QED
      BY <1>0, <1>1, <2>1 DEF Release, TypeOK, Frames, Envs, Pins
  <1>2. ASSUME NEW p \in Procs, NEW tool \in Tools, NEW v \in Versions, Start(p, tool, v)
        PROVE  TypeOK'
    <2>1. [Idle EXCEPT !.pc = IF tool = "select" THEN "validate" ELSE "have",
                       !.tool = tool, !.v = v] \in Frames
      BY IdleType DEF Frames, Labels
    <2>2. proc' \in [Procs -> Frames] /\ overlap' \in BOOLEAN
      BY <1>0, <1>2, <2>1 DEF Start
    <2> QED
      BY <1>0, <1>2, <2>2 DEF Start, TypeOK, Frames, Envs, Pins
  <1>3. ASSUME NEW p \in Procs, Kill(p) PROVE TypeOK'
    <2>1. kills' \in 0..MaxKills
      BY <1>0, <1>3, CacheAssumption DEF Kill
    <2>2. proc' \in [Procs -> Frames]
      BY <1>0, <1>3, FrameTypes DEF Kill
    <2> QED
      BY <1>0, <1>3, <2>1, <2>2 DEF Kill, TypeOK, Frames, Envs, Pins
  <1>4. ASSUME NEW p \in Procs, Step(p) PROVE TypeOK'
    <2>0. proc[p] \in Frames /\ proc[p].v \in Versions /\ proc[p].pins \in Pins
      BY <1>0 DEF Frames
    <2>a. {"rename", "digest", "extract", "validate", "truncate", "rewrite"} \subseteq Labels
      BY DEF Labels
    <2>1. ASSUME proc' \in [Procs -> Frames],
                 UNCHANGED <<latest, archive, part, manifest, staging, cache, env, kills,
                             overlap>>
          PROVE  TypeOK'
      BY <1>0, <2>1 DEF TypeOK, Frames, Envs, Pins
    <2>2. CASE LookForArchive(p) \/ CompareWithUpstream(p) \/ validate_cache(p)
      <3>1. Ends(p) \/ \E n \in Labels : Goes(p, n)
        BY <2>2 DEF LookForArchive, CompareWithUpstream, validate_cache, CacheHit, Labels
      <3>2. proc' \in [Procs -> Frames]
        BY <1>0, <3>1, FrameTypes
      <3> QED
        BY <2>1, <2>2, <3>2 DEF LookForArchive, CompareWithUpstream, validate_cache
    <2>3. CASE OpenPart(p)
      <3>1. proc' \in [Procs -> Frames]
        <4>1. \E qs : GoesSpoiling(p, "curling", "part", qs)
          BY <2>3 DEF OpenPart
        <4> QED
          BY <1>0, <4>1, FrameTypes DEF Labels
      <3> QED
        BY <1>0, <2>0, <2>3, <3>1 DEF OpenPart, TypeOK, Frames, Envs, Pins
    <2>4. CASE FinishPart(p)
      <3>1. proc' \in [Procs -> Frames]
        <4>1. [proc[p] EXCEPT !.pc = "rename", !.fd = "none"] \in Frames
          BY <2>0, <2>a DEF Frames
        <4>2. proc' = [proc EXCEPT ![p] = [proc[p] EXCEPT !.pc = "rename", !.fd = "none"]]
          BY <1>0, <2>4 DEF FinishPart, Frames
        <4> QED
          BY <1>0, <4>1, <4>2
      <3>2. archive' \in [Versions -> Files] /\ part' \in [Versions -> Files]
        BY <1>0, <2>4 DEF FinishPart
      <3> QED
        BY <1>0, <2>4, <3>1, <3>2 DEF FinishPart, TypeOK, Frames, Envs, Pins
    <2>5. CASE RenamePart(p)
      <3>1. proc' \in [Procs -> Frames]
        <4>1. [proc[p] EXCEPT !.pc = "digest"] \in Frames
          BY <2>0, <2>a DEF Frames
        <4>2. \A q \in Procs : [proc[q] EXCEPT !.fd = "archive"] \in Frames
          BY <1>0 DEF Frames
        <4> QED
          BY <1>0, <2>5, <4>1, <4>2, FrameTypes DEF RenamePart
      <3>2. archive' \in [Versions -> Files] /\ part' \in [Versions -> Files]
        BY <1>0, <2>0, <2>5 DEF RenamePart
      <3> QED
        BY <1>0, <2>5, <3>1, <3>2 DEF RenamePart, TypeOK, Frames, Envs, Pins
    <2>6. CASE record_manifest(p)
      <3>1. proc' \in [Procs -> Frames]
        BY <1>0, <2>a, <2>6, FrameTypes DEF record_manifest
      <3>2. manifest' \subseteq Versions \X Files
        <4>1. <<proc[p].v, archive[proc[p].v]>> \in Versions \X Files
          BY <1>0, <2>0
        <4> QED
          BY <1>0, <2>6, <4>1 DEF record_manifest
      <3> QED
        BY <1>0, <2>6, <3>1, <3>2 DEF record_manifest, TypeOK, Frames, Envs, Pins
    <2>7. CASE BeginExtraction(p)
      <3>1. proc' \in [Procs -> Frames]
        <4>1. \/ Ends(p) \/ Goes(p, "validate")
              \/ \E qs : GoesSpoiling(p, "unzip", "none", qs)
          BY <2>7 DEF BeginExtraction
        <4> QED
          BY <1>0, <4>1, FrameTypes DEF Labels
      <3>2. staging' \in [Versions -> Trees]
        BY <1>0, <2>7 DEF BeginExtraction
      <3> QED
        BY <1>0, <2>7, <3>1, <3>2 DEF BeginExtraction, TypeOK, Frames, Envs, Pins
    <2>8. CASE Unzip(p)
      <3>1. proc' \in [Procs -> Frames]
        <4>1. Ends(p) \/ Goes(p, "install")
          BY <2>8 DEF Unzip
        <4> QED
          BY <1>0, <4>1, FrameTypes DEF Labels
      <3>2. staging' \in [Versions -> Trees]
        BY <1>0, <2>8 DEF Unzip
      <3> QED
        BY <1>0, <2>8, <3>1, <3>2 DEF Unzip, TypeOK, Frames, Envs, Pins
    <2>9. CASE InstallTree(p)
      <3>1. proc' \in [Procs -> Frames]
        BY <1>0, <2>a, <2>9, FrameTypes DEF InstallTree
      <3>2. staging' \in [Versions -> Trees] /\ cache' \in [Versions -> Trees]
        BY <1>0, <2>0, <2>9 DEF InstallTree
      <3> QED
        BY <1>0, <2>9, <3>1, <3>2 DEF InstallTree, TypeOK, Frames, Envs, Pins
    <2>10. CASE ReadPins(p)
      <3>1. env.pins \in Pins /\ ResolvedPins \in Pins
        BY <1>0 DEF ResolvedPins, Envs
      <3>2. proc' \in [Procs -> Frames]
        <4>1. \A n \in Pins :
                [proc[p] EXCEPT !.pc = "truncate", !.pins = n] \in Frames
          BY <2>0, <2>a DEF Frames
        <4>2. \E n \in Pins :
                proc' = [proc EXCEPT ![p] = [proc[p] EXCEPT !.pc = "truncate", !.pins = n]]
          BY <1>0, <2>10, <3>1 DEF ReadPins, Frames
        <4> QED
          BY <1>0, <4>1, <4>2
      <3> QED
        BY <2>1, <2>10, <3>2 DEF ReadPins
    <2>11. CASE TruncateEnv(p) \/ RewriteEnv(p)
      <3>1. proc' \in [Procs -> Frames]
        BY <1>0, <2>a, <2>11, FrameTypes DEF TruncateEnv, RewriteEnv
      <3>2. 0 \in Pins /\ proc[p].v \in Pins
        BY <2>0, CacheAssumption DEF Versions, Pins
      <3>3. env' \in Envs
        <4>1. TornEnv \in Envs
          BY <3>2 DEF TornEnv, Envs
        <4>2. [there |-> TRUE, oc |-> proc[p].v, pins |-> proc[p].pins] \in Envs
          BY <2>0, <3>2 DEF Envs
        <4> QED
          BY <2>11, <4>1, <4>2 DEF TruncateEnv, RewriteEnv
      <3> QED
        BY <1>0, <2>11, <3>1, <3>3 DEF TruncateEnv, RewriteEnv, TypeOK, Frames, Envs, Pins
    <2> QED
      BY <1>4, <2>2, <2>3, <2>4, <2>5, <2>6, <2>7, <2>8, <2>9, <2>10, <2>11 DEF Step
  <1> QED
    BY <1>1, <1>2, <1>3, <1>4 DEF Next

\* Type correctness of the cache and of the commands that work on it.
THEOREM TypesHold == Spec => []TypeOK
  <1>1. TypeOK /\ UNCHANGED vars => TypeOK'
    BY DEF vars, TypeOK
  <1> QED
    BY <1>1, InitTypes, StepTypes, PTL DEF Spec

(***************************************************************************)
(* The invariant.                                                          *)
(***************************************************************************)

\* Whoever works, the other commands stay where they are, and no proviso is regained.
LEMMA OthersStay ==
    ASSUME TypeOK, NEW p \in Procs, Step(p) \/ Kill(p)
    PROVE  /\ Busy(p) /\ overlap' = overlap
           /\ \A q \in Procs \ {p} : proc'[q].pc = proc[q].pc /\ proc'[q].v = proc[q].v
  <1>0. proc \in [Procs -> Frames]
    BY DEF TypeOK, Frames, Pins
  <1>1. overlap' = overlap /\ Busy(p)
    BY DEF Step, Kill, LookForArchive, CompareWithUpstream, OpenPart, FinishPart, RenamePart,
           record_manifest, BeginExtraction, Unzip, InstallTree, validate_cache, ReadPins,
           TruncateEnv, RewriteEnv, At, Busy
  <1>2. ASSUME \/ Ends(p) \/ \E n : Goes(p, n)
               \/ \E n, fd, qs : GoesSpoiling(p, n, fd, qs)
        PROVE  \A q \in Procs \ {p} : proc'[q].pc = proc[q].pc /\ proc'[q].v = proc[q].v
    <2>1. CASE Ends(p) \/ \E n : Goes(p, n)
      BY <1>0, <2>1 DEF Ends, Goes
    <2>2. ASSUME NEW n, NEW fd, NEW qs, GoesSpoiling(p, n, fd, qs), NEW q \in Procs \ {p}
          PROVE  proc'[q].pc = proc[q].pc /\ proc'[q].v = proc[q].v
      <3>1. proc'[q] = IF q \in qs THEN [proc[q] EXCEPT !.spoiled = TRUE] ELSE proc[q]
        BY <2>2 DEF GoesSpoiling
      <3>2. proc[q] \in Frames
        BY <1>0, <2>2
      <3> QED
        BY <3>1, <3>2 DEF Frames
    <2> QED
      BY <1>2, <2>1, <2>2
  <1>3. CASE FinishPart(p)
    BY <1>0, <1>1, <1>3 DEF FinishPart, Frames
  <1>4. CASE RenamePart(p)
    BY <1>0, <1>1, <1>2, <1>4 DEF RenamePart, Frames
  <1>5. CASE ReadPins(p)
    BY <1>0, <1>1, <1>5 DEF ReadPins, Frames
  <1>6. CASE LookForArchive(p) \/ CompareWithUpstream(p) \/ validate_cache(p) \/ Unzip(p)
    BY <1>1, <1>2, <1>6 DEF LookForArchive, CompareWithUpstream, validate_cache, Unzip
  <1>7. CASE OpenPart(p) \/ BeginExtraction(p)
    BY <1>1, <1>2, <1>7 DEF OpenPart, BeginExtraction
  <1>8. CASE \/ record_manifest(p) \/ InstallTree(p) \/ TruncateEnv(p) \/ RewriteEnv(p)
             \/ Kill(p)
    BY <1>1, <1>2, <1>8 DEF record_manifest, InstallTree, TruncateEnv, RewriteEnv, Kill
  <1> QED
    BY <1>3, <1>4, <1>5, <1>6, <1>7, <1>8 DEF Step

\* Without an overlap the others are idle, and their frames are not touched.
LEMMA OthersIdle ==
    ASSUME TypeOK, AloneInv, ~overlap, NEW p \in Procs, Step(p) \/ Kill(p)
    PROVE  \A q \in Procs \ {p} : ~Busy(q) /\ proc'[q] = proc[q]
  <1>0. proc \in [Procs -> Frames]
    BY DEF TypeOK, Frames, Pins
  <1>1. \A q \in Procs \ {p} : ~Busy(q)
    BY OthersStay DEF AloneInv
  <1>2. \A l \in Labels \ {"idle"} : Others(p, l) = {}
    BY <1>1 DEF Others, At, Busy
  <1>3. Others(p, "curling") = {} /\ Others(p, "unzip") = {}
    BY <1>2 DEF Labels
  <1>4. ASSUME \/ Ends(p) \/ (\E n : Goes(p, n))
               \/ \E n, fd : GoesSpoiling(p, n, fd, {})
        PROVE  \A q \in Procs \ {p} : proc'[q] = proc[q]
    BY <1>0, <1>4 DEF Ends, Goes, GoesSpoiling
  <1>5. CASE FinishPart(p)
    BY <1>0, <1>1, <1>5 DEF FinishPart
  <1>6. CASE RenamePart(p)
    BY <1>0, <1>1, <1>3, <1>4, <1>6 DEF RenamePart
  <1>7. CASE ReadPins(p)
    BY <1>0, <1>1, <1>7 DEF ReadPins
  <1>8. CASE LookForArchive(p) \/ CompareWithUpstream(p) \/ validate_cache(p) \/ Unzip(p)
    BY <1>1, <1>4, <1>8 DEF LookForArchive, CompareWithUpstream, validate_cache, Unzip
  <1>9. CASE OpenPart(p)
    <2>1. {q \in Others(p, "curling") : proc[q].fd = "part"} = {}
      BY <1>3
    <2> QED
      BY <1>1, <1>4, <1>9, <2>1 DEF OpenPart
  <1>10. CASE BeginExtraction(p)
    BY <1>1, <1>3, <1>4, <1>10 DEF BeginExtraction
  <1>11. CASE \/ record_manifest(p) \/ InstallTree(p) \/ TruncateEnv(p) \/ RewriteEnv(p)
              \/ Kill(p)
    BY <1>1, <1>4, <1>11 DEF record_manifest, InstallTree, TruncateEnv, RewriteEnv, Kill
  <1> QED
    BY <1>5, <1>6, <1>7, <1>8, <1>9, <1>10, <1>11 DEF Step

\* What is in the cache stays there, and only a tree that is put there is new.
LEMMA CacheGrows ==
    ASSUME TypeOK, Next
    PROVE  /\ \A v \in Versions : cache[v] # "none" => cache'[v] = cache[v]
           /\ overlap => overlap'
  <1>1. ASSUME NEW p \in Procs, InstallTree(p)
        PROVE  /\ \A v \in Versions : cache[v] # "none" => cache'[v] = cache[v]
               /\ overlap' = overlap
    BY <1>1 DEF InstallTree, TypeOK
  <1>2. ASSUME NEW p \in Procs,
               \/ LookForArchive(p) \/ CompareWithUpstream(p) \/ OpenPart(p)
               \/ FinishPart(p) \/ RenamePart(p) \/ record_manifest(p)
        PROVE  cache' = cache /\ overlap' = overlap
    BY <1>2 DEF LookForArchive, CompareWithUpstream, OpenPart, FinishPart, RenamePart,
                record_manifest
  <1>3. ASSUME NEW p \in Procs,
               \/ BeginExtraction(p) \/ Unzip(p) \/ validate_cache(p) \/ ReadPins(p)
               \/ TruncateEnv(p) \/ RewriteEnv(p) \/ Kill(p)
        PROVE  cache' = cache /\ overlap' = overlap
    BY <1>3 DEF BeginExtraction, Unzip, validate_cache, ReadPins, TruncateEnv, RewriteEnv, Kill
  <1>4. ASSUME NEW p \in Procs, NEW tool \in Tools, NEW v \in Versions, Start(p, tool, v)
        PROVE  cache' = cache /\ (overlap => overlap')
    BY <1>4 DEF Start
  <1>5. ASSUME Release PROVE cache' = cache /\ overlap' = overlap
    BY <1>5 DEF Release
  <1>6. ASSUME NEW p \in Procs, Step(p)
        PROVE  InstallTree(p) \/ (cache' = cache /\ overlap' = overlap)
    BY <1>2, <1>3, <1>6 DEF Step
  <1> QED
    BY <1>1, <1>3, <1>4, <1>5, <1>6 DEF Next

\* Starting a command beside another one is an overlap.
LEMMA AloneKept == ASSUME TypeOK, AloneInv, Next PROVE AloneInv'
  <1>0. proc \in [Procs -> Frames]
    BY DEF TypeOK, Frames, Pins
  <1>1. CASE Release
    BY <1>1 DEF Release, AloneInv, Busy
  <1>2. ASSUME NEW p \in Procs, NEW tool \in Tools, NEW v \in Versions, Start(p, tool, v)
        PROVE  AloneInv'
    <2>1. \A q \in Procs \ {p} : proc'[q] = proc[q]
      BY <1>0, <1>2 DEF Start
    <2>2. ~overlap' => \A q \in Procs \ {p} : ~Busy(q)
      BY <1>2 DEF Start, At, Busy
    <2> QED
      BY <2>1, <2>2 DEF AloneInv, Busy
  <1>3. ASSUME NEW p \in Procs, Step(p) \/ Kill(p) PROVE AloneInv'
    BY <1>3, OthersStay DEF AloneInv, Busy
  <1> QED
    BY <1>1, <1>2, <1>3 DEF Next

\* Alone, a command finds what it has written.
LEMMA CleanKept == ASSUME IndInv, Next PROVE CleanInv'
  <1>0. /\ TypeOK /\ AloneInv /\ CleanInv /\ SoundInv
        /\ proc \in [Procs -> Frames]
        /\ part \in [Versions -> Files] /\ staging \in [Versions -> Trees]
        /\ archive \in [Versions -> Files]
    BY DEF IndInv, TypeOK, Frames, Pins
  <1> SUFFICES ASSUME ~overlap', NEW q \in Procs
               PROVE  /\ ~proc'[q].spoiled
                      /\ proc'[q].pc = "curling" => proc'[q].fd = "part"
                      /\ proc'[q].pc = "rename" => part'[proc'[q].v] = "good"
                      /\ proc'[q].pc = "install" => staging'[proc'[q].v] = "whole"
    BY DEF CleanInv
  <1>a. ~overlap
    BY <1>0, CacheGrows
  <1>b. /\ ~proc[q].spoiled
        /\ proc[q].pc = "curling" => proc[q].fd = "part"
        /\ proc[q].pc = "rename" => part[proc[q].v] = "good"
        /\ proc[q].pc = "install" => staging[proc[q].v] = "whole"
        /\ proc[q] \in Frames /\ proc[q].v \in Versions
    BY <1>0, <1>a DEF CleanInv, Frames
  <1>1. CASE Release
    BY <1>1, <1>b DEF Release
  <1>2. ASSUME NEW p \in Procs, NEW tool \in Tools, NEW v \in Versions, Start(p, tool, v)
        PROVE  /\ ~proc'[q].spoiled
               /\ proc'[q].pc = "curling" => proc'[q].fd = "part"
               /\ proc'[q].pc = "rename" => part'[proc'[q].v] = "good"
               /\ proc'[q].pc = "install" => staging'[proc'[q].v] = "whole"
    BY <1>0, <1>2, <1>b DEF Start, Idle
  <1>3. ASSUME NEW p \in Procs, Step(p) \/ Kill(p)
        PROVE  /\ ~proc'[q].spoiled
               /\ proc'[q].pc = "curling" => proc'[q].fd = "part"
               /\ proc'[q].pc = "rename" => part'[proc'[q].v] = "good"
               /\ proc'[q].pc = "install" => staging'[proc'[q].v] = "whole"
    <2>1. CASE q # p
      BY <1>0, <1>3, <1>a, <1>b, <2>1, OthersIdle DEF Busy
    <2>2. CASE q = p
      <3>1. ASSUME Ends(p) PROVE proc'[p] = Idle
        BY <1>0, <3>1 DEF Ends
      <3>2. ASSUME NEW n, Goes(p, n)
            PROVE  /\ proc'[p].pc = n /\ proc'[p].v = proc[p].v
                   /\ proc'[p].spoiled = proc[p].spoiled
        BY <1>0, <3>2 DEF Goes, Frames
      <3>3. ASSUME NEW n, NEW fd, NEW qs, GoesSpoiling(p, n, fd, qs)
            PROVE  proc'[p].pc = n /\ proc'[p].fd = fd /\ ~proc'[p].spoiled
        BY <1>0, <3>3 DEF GoesSpoiling, Frames
      <3>4. CASE LookForArchive(p) \/ CompareWithUpstream(p) \/ validate_cache(p)
        <4>1. Ends(p) \/ \E n \in {"curl", "digest", "extract", "compare", "read"} : Goes(p, n)
          BY <3>4 DEF LookForArchive, CompareWithUpstream, validate_cache, CacheHit
        <4> QED
          BY <1>b, <2>2, <3>1, <3>2, <4>1 DEF Idle
      <3>5. CASE OpenPart(p)
        BY <2>2, <3>3, <3>5 DEF OpenPart
      <3>6. CASE FinishPart(p)
        <4>1. proc[p].fd = "part" /\ ~proc[p].spoiled
          BY <1>b, <2>2, <3>6 DEF FinishPart, At
        <4>2. part' = [part EXCEPT ![proc[p].v] = "good"]
          BY <3>6, <4>1 DEF FinishPart
        <4>3. /\ proc'[p].pc = "rename" /\ proc'[p].v = proc[p].v
              /\ proc'[p].spoiled = proc[p].spoiled
          BY <1>0, <3>6 DEF FinishPart, Frames
        <4> QED
          BY <1>0, <1>b, <2>2, <4>2, <4>3
      <3>7. CASE RenamePart(p)
        <4>1. \/ proc'[p] = Idle
              \/ proc'[p].pc = "digest" /\ proc'[p].spoiled = proc[p].spoiled
          BY <1>0, <3>1, <3>7 DEF RenamePart, Frames
        <4> QED
          BY <1>b, <2>2, <4>1 DEF Idle
      <3>8. CASE BeginExtraction(p)
        <4>1. \/ Ends(p) \/ Goes(p, "validate")
              \/ \E fd, qs : GoesSpoiling(p, "unzip", fd, qs)
          BY <3>8 DEF BeginExtraction
        <4> QED
          BY <1>b, <2>2, <3>1, <3>2, <3>3, <4>1 DEF Idle
      <3>9. CASE Unzip(p)
        <4>1. archive[proc[p].v] \in {"none", "good"}
          BY <1>0, <1>a, <1>b, <2>2 DEF SoundInv, Files
        <4>2. \/ Ends(p)
              \/ Goes(p, "install") /\ staging' = [staging EXCEPT ![proc[p].v] = "whole"]
          BY <1>b, <2>2, <3>9, <4>1 DEF Unzip
        <4> QED
          BY <1>0, <1>b, <2>2, <3>1, <3>2, <4>2 DEF Idle
      <3>10. CASE record_manifest(p) \/ InstallTree(p) \/ TruncateEnv(p)
        <4>1. Ends(p) \/ \E n \in {"extract", "validate", "rewrite"} : Goes(p, n)
          BY <3>10 DEF record_manifest, InstallTree, TruncateEnv
        <4> QED
          BY <1>b, <2>2, <3>1, <3>2, <4>1 DEF Idle
      <3>11. CASE ReadPins(p)
        <4>1. proc'[p].pc = "truncate" /\ proc'[p].spoiled = proc[p].spoiled
          BY <1>0, <3>11 DEF ReadPins, Frames
        <4> QED
          BY <1>b, <2>2, <4>1
      <3>12. CASE RewriteEnv(p) \/ Kill(p)
        BY <2>2, <3>1, <3>12 DEF RewriteEnv, Kill, Idle
      <3> QED
        BY <1>3, <3>4, <3>5, <3>6, <3>7, <3>8, <3>9, <3>10, <3>11, <3>12 DEF Step
    <2> QED
      BY <2>1, <2>2
  <1> QED
    BY <1>1, <1>2, <1>3 DEF Next

\* The archive only changes by the rename of a .part that is complete.
LEMMA SoundKept == ASSUME IndInv, Next PROVE SoundInv'
  <1>0. /\ TypeOK /\ CleanInv /\ SoundInv /\ proc \in [Procs -> Frames] /\ archive \in [Versions -> Files]
    BY DEF IndInv, TypeOK, Frames, Pins
  <1> SUFFICES ASSUME ~overlap' PROVE \A v \in Versions : archive'[v] # "bad"
    BY DEF SoundInv
  <1>a. ~overlap
    BY <1>0, CacheGrows
  <1>1. ASSUME NEW p \in Procs, FinishPart(p) PROVE archive' = archive
    BY <1>0, <1>1, <1>a DEF FinishPart, At, CleanInv
  <1>2. ASSUME NEW p \in Procs, RenamePart(p) PROVE \A v \in Versions : archive'[v] # "bad"
    <2>1. part[proc[p].v] = "good"
      BY <1>0, <1>2, <1>a DEF RenamePart, At, CleanInv
    <2> QED
      BY <1>0, <1>2, <1>a, <2>1 DEF RenamePart, SoundInv
  <1>3. CASE archive' = archive
    BY <1>0, <1>3, <1>a DEF SoundInv
  <1> QED
    BY <1>1, <1>2, <1>3
       DEF Next, Step, Release, Start, Kill, LookForArchive, CompareWithUpstream, OpenPart,
           record_manifest, BeginExtraction, Unzip, InstallTree, validate_cache, ReadPins,
           TruncateEnv, RewriteEnv

\* A command selects what validate_cache has seen.
LEMMA CheckedKept == ASSUME TypeOK, CheckedInv, Next PROVE CheckedInv'
  <1> DEFINE Late == {"read", "truncate", "rewrite"}
  <1>0. /\ TypeOK /\ CheckedInv /\ proc \in [Procs -> Frames]
    BY DEF TypeOK, Frames, Pins
  <1> SUFFICES ASSUME NEW q \in Procs, proc'[q].pc \in Late
               PROVE  cache'[proc'[q].v] # "none"
    BY DEF CheckedInv
  <1>1. ASSUME proc[q].pc \in Late, proc'[q].v = proc[q].v PROVE cache'[proc'[q].v] # "none"
    BY <1>0, <1>1, CacheGrows DEF CheckedInv, Frames
  <1>2. CASE Release
    BY <1>1, <1>2 DEF Release
  <1>3. ASSUME NEW p \in Procs, NEW tool \in Tools, NEW v \in Versions, Start(p, tool, v)
        PROVE  cache'[proc'[q].v] # "none"
    BY <1>0, <1>1, <1>3 DEF Start, Idle
  <1>4. ASSUME NEW p \in Procs, Step(p) \/ Kill(p)
        PROVE  cache'[proc'[q].v] # "none"
    <2>1. CASE q # p
      BY <1>0, <1>1, <1>4, <2>1, OthersStay
    <2>2. CASE q = p
      <3>1. ~Ends(p)
        BY <1>0, <2>2 DEF Ends, Idle
      <3>2. ASSUME NEW n, Goes(p, n) PROVE n \in Late /\ proc'[p].v = proc[p].v
        BY <1>0, <2>2, <3>2 DEF Goes, Frames
      <3>3. ASSUME NEW n, NEW fd, NEW qs, GoesSpoiling(p, n, fd, qs) PROVE n \in Late
        BY <1>0, <2>2, <3>3 DEF GoesSpoiling, Frames
      <3>4. CASE validate_cache(p)
        <4>1. TRUE \in Shows(cache[proc[p].v]) /\ cache' = cache /\ proc'[p].v = proc[p].v
          BY <3>1, <3>2, <3>4 DEF validate_cache
        <4> QED
          BY <2>2, <4>1 DEF Shows
      <3>5. CASE ReadPins(p)
        BY <1>0, <1>1, <2>2, <3>5 DEF ReadPins, At, Frames
      <3>6. CASE TruncateEnv(p)
        BY <1>1, <2>2, <3>2, <3>6 DEF TruncateEnv, At
      <3>7. ~LookForArchive(p) /\ ~CompareWithUpstream(p)
        BY <3>1, <3>2 DEF LookForArchive, CompareWithUpstream, CacheHit
      <3>8. ~OpenPart(p) /\ ~BeginExtraction(p)
        BY <3>1, <3>2, <3>3 DEF OpenPart, BeginExtraction
      <3>9. ~FinishPart(p)
        BY <1>0, <2>2 DEF FinishPart, Frames
      <3>10. ~RenamePart(p)
        BY <1>0, <2>2, <3>1 DEF RenamePart, Frames
      <3>11. ~record_manifest(p) /\ ~Unzip(p) /\ ~InstallTree(p) /\ ~RewriteEnv(p) /\ ~Kill(p)
        BY <3>1, <3>2 DEF record_manifest, Unzip, InstallTree, RewriteEnv, Kill
      <3> QED
        BY <1>4, <3>4, <3>5, <3>6, <3>7, <3>8, <3>9, <3>10, <3>11 DEF Step
    <2> QED
      BY <2>1, <2>2
  <1> QED
    BY <1>2, <1>3, <1>4 DEF Next

\* The selection is written last, and trees do not leave the cache.
LEMMA SelectedKept == ASSUME TypeOK, CheckedInv, SelectedInv, Next PROVE SelectedInv'
  <1>0. TypeOK /\ SelectedInv /\ CheckedInv /\ proc \in [Procs -> Frames]
    BY DEF TypeOK, Frames, Pins
  <1>1. ASSUME env' = env PROVE SelectedInv'
    <2>1. env.oc # 0 => env.oc \in Versions
      BY <1>0, CacheAssumption DEF TypeOK, Versions
    <2> QED
      BY <1>0, <1>1, <2>1, CacheGrows DEF SelectedInv
  <1>2. ASSUME NEW p \in Procs, TruncateEnv(p) PROVE SelectedInv'
    BY <1>2 DEF TruncateEnv, TornEnv, SelectedInv
  <1>3. ASSUME NEW p \in Procs, RewriteEnv(p) PROVE SelectedInv'
    BY <1>0, <1>3 DEF RewriteEnv, At, CheckedInv, SelectedInv
  <1> QED
    BY <1>1, <1>2, <1>3
       DEF Next, Step, Release, Start, Kill, LookForArchive, CompareWithUpstream, OpenPart,
           FinishPart, RenamePart, record_manifest, BeginExtraction, Unzip, InstallTree,
           validate_cache, ReadPins

\* Alone, a command moves only whole trees into the cache.
LEMMA WholeKept == ASSUME IndInv, Next PROVE CachedIsWhole'
  <1>0. /\ TypeOK /\ CleanInv /\ CachedIsWhole /\ proc \in [Procs -> Frames]
        /\ cache \in [Versions -> Trees]
    BY DEF IndInv, TypeOK, Frames, Pins
  <1> SUFFICES ASSUME ~overlap' PROVE \A v \in Versions : cache'[v] # "some"
    BY DEF CachedIsWhole
  <1>a. ~overlap
    BY <1>0, CacheGrows
  <1>1. ASSUME NEW p \in Procs, InstallTree(p) PROVE \A v \in Versions : cache'[v] # "some"
    <2>1. staging[proc[p].v] = "whole"
      BY <1>0, <1>1, <1>a DEF InstallTree, At, CleanInv
    <2> QED
      BY <1>0, <1>1, <1>a, <2>1 DEF InstallTree, CachedIsWhole
  <1>2. CASE cache' = cache
    BY <1>0, <1>2, <1>a DEF CachedIsWhole
  <1> QED
    BY <1>1, <1>2
       DEF Next, Step, Release, Start, Kill, LookForArchive, CompareWithUpstream, OpenPart,
           FinishPart, RenamePart, record_manifest, BeginExtraction, Unzip,
           validate_cache, ReadPins, TruncateEnv, RewriteEnv

\* The commands of the cache keep it so that one that runs alone, after any number of
\* others that were stopped anywhere, finds what it needs, if downloads/ held no archive
\* but upstream's at first.
THEOREM InvariantHolds ==
    ASSUME FoundArchives \subseteq {"none", "good"} PROVE Spec => []IndInv
  <1>1. Init => IndInv
    <2> SUFFICES ASSUME Init PROVE IndInv
      OBVIOUS
    <2>1. \A p \in Procs : proc[p] = Idle
      BY DEF Init
    <2>2. AloneInv /\ CleanInv /\ CheckedInv
      BY <2>1 DEF AloneInv, CleanInv, CheckedInv, Busy, Idle
    <2>3. SelectedInv /\ CachedIsWhole /\ SoundInv
      BY DEF Init, NoEnv, SelectedInv, CachedIsWhole, SoundInv
    <2> QED
      BY <2>2, <2>3, InitTypes DEF IndInv
  <1>2. IndInv /\ Next => IndInv'
    BY StepTypes, AloneKept, CleanKept, SoundKept, CheckedKept, SelectedKept, WholeKept DEF IndInv
  <1>3. IndInv /\ UNCHANGED vars => IndInv'
    BY DEF vars, IndInv, TypeOK, AloneInv, CleanInv, SoundInv, CheckedInv, SelectedInv, CachedIsWhole,
           Busy
  <1> QED
    BY <1>1, <1>2, <1>3, PTL DEF Spec

\* No tree is in its place in cache/opencore/ with only some of its files, unless two
\* commands have run at once or another archive was put into downloads/.
THEOREM TreesAreWhole ==
    ASSUME FoundArchives \subseteq {"none", "good"} PROVE Spec => []CachedIsWhole
  <1>1. IndInv => CachedIsWhole
    BY DEF IndInv
  <1> QED
    BY <1>1, InvariantHolds, PTL

\* current-sources.env names no release without a tree, whatever runs at once and
\* whatever was put into downloads/.
THEOREM SelectionHasTree == Spec => [](env.oc # 0 => cache[env.oc] # "none")
  <1>1. Init => CheckedInv /\ SelectedInv
    BY DEF Init, NoEnv, Idle, CheckedInv, SelectedInv
  <1>2. TypeOK /\ CheckedInv /\ SelectedInv /\ Next => CheckedInv' /\ SelectedInv'
    BY CheckedKept, SelectedKept
  <1>3. CheckedInv /\ SelectedInv /\ UNCHANGED vars => CheckedInv' /\ SelectedInv'
    BY DEF vars, CheckedInv, SelectedInv
  <1>4. SelectedInv => (env.oc # 0 => cache[env.oc] # "none")
    BY DEF SelectedInv
  <1> QED
    BY <1>1, <1>2, <1>3, <1>4, TypesHold, PTL DEF Spec

\* The release current-sources.env names is unpacked, and all of it unless two commands
\* have run at once, if downloads/ held no archive but upstream's at first.
THEOREM SelectionIsUnpacked ==
    ASSUME FoundArchives \subseteq {"none", "good"} PROVE Spec => []SelectedIsUnpacked
  <1>1. IndInv => SelectedIsUnpacked
    <2> SUFFICES ASSUME IndInv, env.oc # 0
                 PROVE  cache[env.oc] # "none" /\ (~overlap => cache[env.oc] = "whole")
      BY DEF SelectedIsUnpacked
    <2>1. TypeOK /\ SelectedInv /\ CachedIsWhole
      BY DEF IndInv
    <2>2. env.oc \in Versions
      BY <2>1, CacheAssumption DEF TypeOK, Versions
    <2>3. cache[env.oc] \in {"none", "some", "whole"}
      BY <2>1, <2>2 DEF TypeOK, Trees
    <2> QED
      BY <2>1, <2>2, <2>3 DEF SelectedInv, CachedIsWhole
  <1> QED
    BY <1>1, InvariantHolds, PTL

\* If no bad archive was put into downloads/, what manifest.tsv marks as VERIFIED is
\* what upstream has, unless two commands have run at once: downloads that stop anywhere
\* do not matter, although the selector compares nothing.
THEOREM RecordIsTrue ==
    ASSUME FoundArchives \subseteq {"none", "good"} PROVE Spec => []RecordedIsUpstream
  <1>1. Init => RecordedIsUpstream
    BY DEF Init, RecordedIsUpstream
  <1>2. ASSUME IndInv, RecordedIsUpstream, Next PROVE RecordedIsUpstream'
    <2> SUFFICES ASSUME ~overlap', NEW v \in Versions PROVE <<v, "bad">> \notin manifest'
      BY DEF RecordedIsUpstream
    <2>1. ~overlap /\ <<v, "bad">> \notin manifest
      BY <1>2, CacheGrows DEF IndInv, RecordedIsUpstream
    <2>2. CASE \E p \in Procs : record_manifest(p)
      BY <1>2, <2>1, <2>2 DEF record_manifest, IndInv, SoundInv
    <2>3. CASE manifest' = manifest
      BY <2>1, <2>3
    <2>4. ASSUME NEW p \in Procs,
                 \/ LookForArchive(p) \/ CompareWithUpstream(p) \/ OpenPart(p)
                 \/ FinishPart(p) \/ RenamePart(p) \/ BeginExtraction(p) \/ Unzip(p)
          PROVE  manifest' = manifest
      BY <2>4 DEF LookForArchive, CompareWithUpstream, OpenPart, FinishPart, RenamePart,
                  BeginExtraction, Unzip
    <2>5. ASSUME NEW p \in Procs,
                 \/ InstallTree(p) \/ validate_cache(p) \/ ReadPins(p)
                 \/ TruncateEnv(p) \/ RewriteEnv(p) \/ Kill(p)
          PROVE  manifest' = manifest
      BY <2>5 DEF InstallTree, validate_cache, ReadPins, TruncateEnv, RewriteEnv, Kill
    <2>6. ASSUME NEW p \in Procs, NEW tool \in Tools, NEW w \in Versions, Start(p, tool, w)
          PROVE  manifest' = manifest
      BY <2>6 DEF Start
    <2>7. ASSUME Release PROVE manifest' = manifest
      BY <2>7 DEF Release
    <2>8. ASSUME NEW p \in Procs, Step(p)
          PROVE  record_manifest(p) \/ manifest' = manifest
      BY <2>4, <2>5, <2>8 DEF Step
    <2> QED
      BY <1>2, <2>2, <2>3, <2>5, <2>6, <2>7, <2>8 DEF Next
  <1>3. IndInv /\ RecordedIsUpstream /\ Next => RecordedIsUpstream'
    BY <1>2
  <1>4. RecordedIsUpstream /\ UNCHANGED vars => RecordedIsUpstream'
    <2>1. UNCHANGED vars => manifest' = manifest /\ overlap' = overlap
      BY DEF vars
    <2> QED
      BY <2>1 DEF RecordedIsUpstream
  <1> QED
    BY <1>1, <1>3, <1>4, InvariantHolds, PTL DEF Spec
==============================================================================
