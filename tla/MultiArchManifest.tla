-------------------------- MODULE MultiArchManifest --------------------------
(***************************************************************************)
(* The multi-arch manifest script (src/unnamed/part_001) and the arch      *)
(* image jobs that run it.  Each job builds and pushes one arch image      *)
(* (IMAGE_NAME = <virtual>-<arch>; part_000 is the arm64 Dockerfile), then *)
(* runs the script, which downloads a docker cli, asks the registry which  *)
(* of the two arch images exist, creates a local manifest list of those,   *)
(* and pushes it as the virtual image.  The jobs run on separate machines, *)
(* so their steps interleave; the registry is the only shared state.       *)
(*                                                                         *)
(* The script has no "set -e": every command runs whatever the previous    *)
(* one returned, and the script's exit status is that of its last         *)
(* command, rm.  A command that reaches the network (curl, manifest        *)
(* inspect, create and push) may fail when NetworkFails holds.  Image      *)
(* names, the cli's config file and the platform annotation are left out:  *)
(* an arch stands for its image, and the annotation only sets the          *)
(* platform field of an entry the model does not track.                   *)
(***************************************************************************)
EXTENDS FiniteSets

CONSTANTS
    Arches,        \* the arch suffixes the script checks: amd64 and arm64
    Jobs,          \* the image jobs; job j pushes the image of arch j
    NetworkFails   \* TRUE when a networked command may fail

\* No manifest list (none pushed yet, or the local create failed).  A list
\* names at least one image, since create refuses an empty one.
NoList == {}

VARIABLES
    images,    \* the arch images present in the registry
    manifest,  \* the arches the virtual image in the registry lists
    pc,        \* per job: the next step
    cli,       \* per job: ./docker-cli was extracted
    found,     \* per job: the arches whose AMD64_IMAGE/ARM64_IMAGE stayed non-empty
    local,     \* per job: the arches of its local manifest list (~/.docker/manifests)
    exit       \* per job: the script's exit status, once it ended

vars == <<images, manifest, pc, cli, found, local, exit>>

\* The outcomes a networked command can have.
Outcomes == IF NetworkFails THEN BOOLEAN ELSE {TRUE}

TypeOK ==
    /\ images \subseteq Arches
    /\ manifest \subseteq Arches
    /\ pc \in [Jobs -> {"image", "setup", "inspect", "create", "push", "rm", "done"}]
    /\ cli \in [Jobs -> BOOLEAN]
    /\ found \in [Jobs -> SUBSET Arches]
    /\ local \in [Jobs -> SUBSET Arches]
    /\ exit \in [Jobs -> {0, 1}]

Init ==
    /\ images = {}
    /\ manifest = NoList
    /\ pc = [j \in Jobs |-> "image"]
    /\ cli = [j \in Jobs |-> FALSE]
    /\ found = [j \in Jobs |-> {}]
    /\ local = [j \in Jobs |-> NoList]
    /\ exit = [j \in Jobs |-> 0]

\* The job's build: its arch image is built (for arm64 by the Dockerfile)
\* and pushed before the script runs.
PushImage(j) ==
    /\ pc[j] = "image"
    /\ images' = images \cup {j}
    /\ pc' = [pc EXCEPT ![j] = "setup"]
    /\ UNCHANGED <<manifest, cli, found, local, exit>>

\* curl | tar extracts ./docker-cli, or nothing when the download fails;
\* mkdir, the config file and the image names change nothing modelled.
Setup(j) ==
    /\ pc[j] = "setup"
    /\ \E ok \in Outcomes : cli' = [cli EXCEPT ![j] = ok]
    /\ found' = [found EXCEPT ![j] = Arches]
    /\ pc' = [pc EXCEPT ![j] = "inspect"]
    /\ UNCHANGED <<images, manifest, local, exit>>

\* "if ! ./docker-cli manifest inspect X; then X='' ; fi" for both arches,
\* amd64 first: an image the registry does not answer for, missing or
\* not, is dropped.
Inspect(j) ==
    /\ pc[j] = "inspect"
    /\ \E ok \in [Arches -> Outcomes] :
         found' = [found EXCEPT ![j] = {a \in Arches : cli[j] /\ ok[a] /\ a \in images}]
    /\ pc' = [pc EXCEPT ![j] = "create"]
    /\ UNCHANGED <<images, manifest, cli, local, exit>>

\* "manifest create $VIRTUAL_IMAGE $AMD64_IMAGE $ARM64_IMAGE": an empty
\* name vanishes from the unquoted command line, and create fails with
\* no image to list.
Create(j) ==
    /\ pc[j] = "create"
    /\ \E ok \in Outcomes :
         local' = [local EXCEPT ![j] = IF cli[j] /\ ok /\ found[j] # {}
                                       THEN found[j] ELSE NoList]
    /\ pc' = [pc EXCEPT ![j] = "push"]
    /\ UNCHANGED <<images, manifest, cli, found, exit>>

\* The arm64 annotate, then "manifest push $VIRTUAL_IMAGE": the local list
\* replaces the virtual image; without one, push fails.
Push(j) ==
    /\ pc[j] = "push"
    /\ \E ok \in Outcomes :
         manifest' = IF cli[j] /\ ok /\ local[j] # NoList THEN local[j] ELSE manifest
    /\ pc' = [pc EXCEPT ![j] = "rm"]
    /\ UNCHANGED <<images, cli, found, local, exit>>

\* "rm -r docker-cli ~/.docker", the last command: it fails only when
\* docker-cli is missing, and its status is the script's.
Remove(j) ==
    /\ pc[j] = "rm"
    /\ exit' = [exit EXCEPT ![j] = IF cli[j] THEN 0 ELSE 1]
    /\ pc' = [pc EXCEPT ![j] = "done"]
    /\ UNCHANGED <<images, manifest, cli, found, local>>

Next ==
    \E j \in Jobs :
        \/ PushImage(j)
        \/ Setup(j)
        \/ Inspect(j)
        \/ Create(j)
        \/ Push(j)
        \/ Remove(j)

Spec == Init /\ [][Next]_vars

\* The script's purpose ("Check if all arch images are in dockerhub",
\* "Creating multiarch manifest"): once every arch job has finished and
\* each reported success, the virtual image lists every arch image.
PublishedWhenAllSucceed ==
    (\A j \in Jobs : pc[j] = "done" /\ exit[j] = 0) => manifest = images

=============================================================================
