------------------------------- MODULE Deploy -------------------------------
(***************************************************************************)
(* The deploy dashboard, cmd/deployd/main.go: jobs run bash scripts, any   *)
(* number at a time, and share bin/last-backend-tag, bin/campus-server and *)
(* the images of the cluster.  A build takes the second as its tag, writes *)
(* it to the file, compiles, makes the image and imports it; a rollout     *)
(* reads the file and sets the image of the deployment.  set -e ends a     *)
(* script at its first error.  One service is modelled: the other one has  *)
(* files of its own.                                                       *)
(***************************************************************************)
EXTENDS Integers, FiniteSets

CONSTANTS
    Jobs,            \* jobs, each run once
    MaxSecond,       \* bound: seconds of the clock
    MaxDeployFaults  \* bound: commands that fail

ASSUME DeployBounds == MaxSecond \in Nat \ {0} /\ MaxDeployFaults \in Nat

VARIABLES
    second,      \* the clock, from 1
    tagFile,     \* bin/last-backend-tag; 0 when there is none: "latest"
    binary,      \* the job that compiled bin/campus-server last
    docker,      \* [tags -> the job whose binary is in the image, NoJob]
    cluster,     \* the same, for the images imported into k3s
    rolled,      \* what kubectl set image named last: a tag
    job,         \* [Jobs -> where the job is]
    clashed,     \* observation: jobs that ran while another one was building
    broken,      \* observation: a build has failed after it wrote its tag
    deployFaults

deployVars == <<second, tagFile, binary, docker, cluster, rolled, job, clashed, broken, deployFaults>>

NoJob == "no job"
Tags == 1..MaxSecond
ASSUME NoJobAssumption == NoJob \notin Jobs

Building == {"tag", "compile", "image", "import"}
Rolling == {"read", "set", "wait"}

JobType == [pc : {"new", "success", "failed"} \cup Building \cup Rolling,
            action : {"build", "rollout", "build-rollout"},
            tag : 0..MaxSecond, rolled : 0..MaxSecond]

DeployTypeOK ==
    /\ second \in 1..MaxSecond
    /\ tagFile \in 0..MaxSecond
    /\ binary \in Jobs \cup {NoJob}
    /\ docker \in [Tags -> Jobs \cup {NoJob}]
    /\ cluster \in [Tags -> Jobs \cup {NoJob}]
    /\ rolled \in 0..MaxSecond
    /\ job \in [Jobs -> JobType]
    /\ clashed \subseteq Jobs /\ broken \in BOOLEAN
    /\ deployFaults \in 0..MaxDeployFaults

DeployInit ==
    /\ second = 1
    /\ tagFile = 0
    /\ binary = NoJob
    /\ docker = [t \in Tags |-> NoJob]
    /\ cluster = [t \in Tags |-> NoJob]
    /\ rolled = 0
    /\ job \in [Jobs -> [pc : {"new"}, action : {"build", "rollout", "build-rollout"},
                         tag : {0}, rolled : {0}]]
    /\ clashed = {}
    /\ broken = FALSE
    /\ deployFaults = 0

Running(j) == job[j].pc \in Building \cup Rolling

PassSecond ==
    /\ second < MaxSecond
    /\ second' = second + 1
    /\ UNCHANGED <<tagFile, binary, docker, cluster, rolled, job, clashed, broken, deployFaults>>

Goto(j, pc) == job' = [job EXCEPT ![j].pc = pc]

\* runJob: nothing keeps jobs apart.
StartJob(j) ==
    LET rivals == {k \in Jobs \ {j} : Running(k) /\
                     (job[j].action # "rollout" \/ job[k].action # "rollout")}
    IN  /\ job[j].pc = "new"
        /\ Goto(j, IF job[j].action = "rollout" THEN "read" ELSE "tag")
        /\ clashed' = IF rivals = {} THEN clashed ELSE clashed \cup rivals \cup {j}
        /\ UNCHANGED <<second, tagFile, binary, docker, cluster, rolled, broken, deployFaults>>

-----------------------------------------------------------------------------
\* TAG="manual-$(date ...)"; echo "$TAG" > bin/last-backend-tag
WriteTag(j) ==
    /\ job[j].pc = "tag"
    /\ tagFile' = second
    /\ job' = [job EXCEPT ![j].pc = "compile", ![j].tag = second]
    /\ UNCHANGED <<second, binary, docker, cluster, rolled, clashed, broken, deployFaults>>

\* Mutant: a binary that is there is taken as it is.
CompileOnce(j) ==
    /\ job[j].pc = "compile"
    /\ binary' = IF binary = NoJob THEN j ELSE binary
    /\ Goto(j, "image")
    /\ UNCHANGED <<second, tagFile, docker, cluster, rolled, clashed, broken, deployFaults>>

\* scripts/build.sh bin/campus-server
Compile(j) ==
    /\ job[j].pc = "compile"
    /\ binary' = j
    /\ Goto(j, "image")
    /\ UNCHANGED <<second, tagFile, docker, cluster, rolled, clashed, broken, deployFaults>>

\* docker build: the binary that is there now, under the job's tag.
BuildImage(j) ==
    /\ job[j].pc = "image"
    /\ docker' = [docker EXCEPT ![job[j].tag] = binary]
    /\ Goto(j, "import")
    /\ UNCHANGED <<second, tagFile, binary, cluster, rolled, clashed, broken, deployFaults>>

\* docker save | k3s ctr images import
ImportImage(j) ==
    /\ job[j].pc = "import"
    /\ cluster' = [cluster EXCEPT ![job[j].tag] = docker[job[j].tag]]
    /\ Goto(j, IF job[j].action = "build" THEN "success" ELSE "read")
    /\ UNCHANGED <<second, tagFile, binary, docker, rolled, clashed, broken, deployFaults>>

\* TAG=$(cat bin/last-backend-tag || echo latest)
ReadTag(j) ==
    /\ job[j].pc = "read"
    /\ job' = [job EXCEPT ![j].pc = "set", ![j].tag = tagFile]
    /\ UNCHANGED <<second, tagFile, binary, docker, cluster, rolled, clashed, broken, deployFaults>>

\* kubectl set image
SetImage(j) ==
    /\ job[j].pc = "set"
    /\ rolled' = job[j].tag
    /\ job' = [job EXCEPT ![j].pc = "wait", ![j].rolled = job[j].tag]
    /\ UNCHANGED <<second, tagFile, binary, docker, cluster, clashed, broken, deployFaults>>

\* kubectl rollout status
WaitRollout(j) ==
    /\ job[j].pc = "wait"
    /\ Goto(j, "success")
    /\ UNCHANGED <<second, tagFile, binary, docker, cluster, rolled, clashed, broken, deployFaults>>

\* A command fails and set -e ends the script.
FailJob(j) ==
    /\ deployFaults < MaxDeployFaults
    /\ Running(j)
    /\ Goto(j, "failed")
    /\ broken' = (broken \/ job[j].pc \in Building \ {"tag"})
    /\ deployFaults' = deployFaults + 1
    /\ UNCHANGED <<second, tagFile, binary, docker, cluster, rolled, clashed>>

Run(j) ==
    \/ StartJob(j) \/ WriteTag(j) \/ Compile(j) \/ BuildImage(j) \/ ImportImage(j)
    \/ ReadTag(j) \/ SetImage(j) \/ WaitRollout(j) \/ FailJob(j)

DeployNext == PassSecond \/ \E j \in Jobs : Run(j)

DeploySpec == DeployInit /\ [][DeployNext]_deployVars

-----------------------------------------------------------------------------
\* A job that builds and rolls out runs what it has just built, whatever jobs
\* came before it and wherever those failed; only a job that ran beside it can
\* change the file, the binary or the image under its feet.
RolloutUsesOwnBuild ==
    \A j \in Jobs \ clashed :
        job[j].pc = "wait" /\ job[j].action = "build-rollout" =>
            rolled = job[j].rolled /\ cluster[rolled] = j

\* A rollout names an image the cluster has, or `latest` when nothing was ever
\* built: the last tag in the file stands for a finished import, unless a build
\* ran beside the rollout or failed after it had written its tag.
RolloutFindsImage ==
    \A j \in Jobs \ clashed :
        job[j].pc = "wait" /\ ~broken => rolled = 0 \/ cluster[rolled] # NoJob

\* What a rollout names is there, and is what its job has built.
RolloutsTellTrue == RolloutUsesOwnBuild /\ RolloutFindsImage

=============================================================================
