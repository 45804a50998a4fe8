------------------------------ MODULE Container ------------------------------
(***************************************************************************)
(* The container of a job as the resources it is made of: an instance      *)
(* image copied from a base image, a libvirt domain on it, and the network *)
(* that all domains share (container.py).  Each delivery of a run_script   *)
(* message creates them step by step and destroys them step by step, in    *)
(* the task or in the handler that runs when the task failed or was        *)
(* revoked (tasks.py, task_utils.py).                                      *)
(*                                                                         *)
(* libvirt and the file system are modelled from how container.py uses     *)
(* them: each call is a step and may fail.                                 *)
(***************************************************************************)
EXTENDS Naturals

CONSTANTS
  Deliveries,   \* of run_script messages
  Jobs,
  JobOf         \* the job of each delivery: its uuid names image and domain

ASSUME ContainerAssumption == JobOf \in [Deliveries -> Jobs]

VARIABLES
  image,    \* the instance image of each job
  writing,  \* whether a delivery writes to the image, and opened it last
  domain,   \* the domain of each job
  network,  \* the network "default"
  at,       \* where each delivery is
  by,       \* in what: the task, or a handler
  trouble   \* history: what it did or met that went wrong

resources == <<image, writing, domain, network>>
vars == <<resources, at, by, trouble>>

Creating   == {"copy", "open", "copying", "net", "net_define", "net_check",
               "net_start", "domain", "start", "wait_ip"}
Destroying == {"delete", "stop", "undefine"}

TypeOK ==
  /\ image \in [Jobs -> {"none", "partial", "whole"}]
  /\ writing \in [Deliveries -> BOOLEAN]
  /\ domain \in [Jobs -> {"none", "defined", "running"}]
  /\ network \in {"none", "defined", "active"}
  /\ at \in [Deliveries ->
               Creating \cup Destroying \cup {"idle", "script", "clean", "over"}]
  /\ by \in [Deliveries -> {"task", "failure", "revoked"}]
  /\ trouble \in [Deliveries -> SUBSET {"unopened", "cut", "overwrote"}]

(* The network may be there from earlier jobs; host and job are new.       *)
Init ==
  /\ image = [j \in Jobs |-> "none"]
  /\ writing = [d \in Deliveries |-> FALSE]
  /\ domain = [j \in Jobs |-> "none"]
  /\ network \in {"none", "defined", "active"}
  /\ at = [d \in Deliveries |-> "idle"]
  /\ by = [d \in Deliveries |-> "task"]
  /\ trouble = [d \in Deliveries |-> {}]

Goto(d, from, to) == at[d] = from /\ at' = [at EXCEPT ![d] = to]

(* An exception in the task: the failure handler cleans up.                *)
Handle(d, handler) ==
  /\ at' = [at EXCEPT ![d] = "delete"]
  /\ by' = [by EXCEPT ![d] = handler]

SetImage(d, value)  == image' = [image EXCEPT ![JobOf[d]] = value]
SetDomain(d, value) == domain' = [domain EXCEPT ![JobOf[d]] = value]

------------------------------------------------------------------------------
(* LibVirtDomain.create()                                                  *)

Take(d) ==
  /\ Goto(d, "idle", "copy")
  /\ UNCHANGED <<resources, by, trouble>>

(* Mutant of LookForImage: an image that is there is used.                 *)
LookAndReuse(d) ==
  /\ Goto(d, "copy", IF image[JobOf[d]] = "none" THEN "open" ELSE "net")
  /\ UNCHANGED <<resources, by, trouble>>

(* copy_base_image makes sure that there is no such file ...               *)
LookForImage(d) ==
  /\ image[JobOf[d]] = "none"
  /\ Goto(d, "copy", "open")
  /\ UNCHANGED <<resources, by, trouble>>

(* ... and then opens it for writing, which empties one that another has   *)
(* made since.                                                             *)
OpenImage(d) ==
  /\ Goto(d, "open", "copying")
  /\ SetImage(d, "partial")
  /\ writing' = [e \in Deliveries |->
                    e = d \/ (writing[e] /\ JobOf[e] # JobOf[d])]
  /\ trouble' = [trouble EXCEPT ![d] =
                    IF image[JobOf[d]] # "none" THEN @ \cup {"overwrote"} ELSE @]
  /\ UNCHANGED <<domain, network, by>>

(* The image is whole when the one who opened it last has copied.  That it *)
(* was emptied or removed meanwhile is not noticed: an OSError of copystat *)
(* is only logged.                                                         *)
CopyEnds(d) ==
  /\ Goto(d, "copying", "net")
  /\ image' = [image EXCEPT ![JobOf[d]] = IF writing[d] THEN "whole" ELSE @]
  /\ writing' = [writing EXCEPT ![d] = FALSE]
  /\ UNCHANGED <<domain, network, by, trouble>>

(* LibVirtNet.create: looked up, defined when missing ...                  *)
LookupNetwork(d) ==
  /\ Goto(d, "net", IF network = "none" THEN "net_define" ELSE "net_check")
  /\ UNCHANGED <<resources, by, trouble>>

DefineNetwork(d) ==
  /\ network = "none"
  /\ Goto(d, "net_define", "net_check")
  /\ network' = "defined"
  /\ UNCHANGED <<image, writing, domain, by, trouble>>

(* ... and started when not active.                                        *)
CheckNetwork(d) ==
  /\ Goto(d, "net_check", IF network = "active" THEN "domain" ELSE "net_start")
  /\ UNCHANGED <<resources, by, trouble>>

StartNetwork(d) ==
  /\ network = "defined"
  /\ Goto(d, "net_start", "domain")
  /\ network' = "active"
  /\ UNCHANGED <<image, writing, domain, by, trouble>>

(* A domain as get_or_define leaves it.                                    *)
GotOrDefined(dom) == IF dom = "none" THEN "defined" ELSE dom

GetDomain(d) ==
  /\ Goto(d, "domain", "start")
  /\ SetDomain(d, GotOrDefined(domain[JobOf[d]]))
  /\ UNCHANGED <<image, writing, network, by, trouble>>

StartDomain(d) ==
  /\ domain[JobOf[d]] = "defined"
  /\ image[JobOf[d]] # "none"
  /\ Goto(d, "start", "wait_ip")
  /\ SetDomain(d, "running")
  /\ UNCHANGED <<image, writing, network, by, trouble>>

(* wait_for_ip: the domain must be running, and get a lease in time.       *)
GotIp(d) ==
  /\ domain[JobOf[d]] = "running"
  /\ Goto(d, "wait_ip", "script")
  /\ UNCHANGED <<resources, by, trouble>>

(* Asking for the address of a domain that is gone defines it again.       *)
NoIp(d) ==
  /\ at[d] = "wait_ip"
  /\ Handle(d, "failure")
  /\ SetDomain(d, GotOrDefined(domain[JobOf[d]]))
  /\ UNCHANGED <<image, writing, network, trouble>>

(* Calls that find what they do not expect: an image, a network or an      *)
(* active network that was not there before, a domain that runs already or *)
(* was undefined, an image that was removed.                               *)
Refused(d) ==
  \/ at[d] = "copy" /\ image[JobOf[d]] # "none"
  \/ at[d] = "net_define" /\ network # "none"
  \/ at[d] = "net_start" /\ network # "defined"
  \/ at[d] = "start" /\ domain[JobOf[d]] # "defined"
  \/ at[d] = "start" /\ image[JobOf[d]] = "none"

CreateRefused(d) ==
  /\ Refused(d)
  /\ Handle(d, "failure")
  /\ UNCHANGED <<resources, trouble>>

(* Any call, the script and what follows clean-up in the task may fail.    *)
TaskFails(d) ==
  /\ at[d] \in Creating \cup {"script", "clean"}
  /\ Handle(d, "failure")
  /\ UNCHANGED <<resources, trouble>>

ScriptEnds(d) ==
  /\ Goto(d, "script", "delete")
  /\ UNCHANGED <<resources, by, trouble>>

------------------------------------------------------------------------------
(* cleanup(): LibVirtDomain.destroy()                                      *)

(* After a clean-up the task goes on; a handler ends.                      *)
Cleaned(d) == IF by[d] = "task" THEN "clean" ELSE "over"

(* The image is deleted first ...                                          *)
DeleteImage(d) ==
  /\ image[JobOf[d]] # "none"
  /\ Goto(d, "delete", "stop")
  /\ SetImage(d, "none")
  /\ writing' = [e \in Deliveries |-> writing[e] /\ JobOf[e] # JobOf[d]]
  /\ UNCHANGED <<domain, network, by, trouble>>

(* ... and when it is missing that is all: cleanup logs the exception.     *)
NoImage(d) ==
  /\ image[JobOf[d]] = "none"
  /\ Goto(d, "delete", Cleaned(d))
  /\ UNCHANGED <<resources, by, trouble>>

(* A domain that was not running is no error ...                           *)
StopDomain(d) ==
  /\ Goto(d, "stop", "undefine")
  /\ SetDomain(d, "defined")
  /\ UNCHANGED <<image, writing, network, by, trouble>>

(* ... but neither is one that could not be stopped.                       *)
StopFails(d) ==
  /\ Goto(d, "stop", "undefine")
  /\ trouble' = [trouble EXCEPT ![d] = @ \cup {"cut"}]
  /\ UNCHANGED <<resources, by>>

(* Mutant of Undefine: the domain is only stopped.                         *)
LeaveDefined(d) ==
  /\ Goto(d, "undefine", Cleaned(d))
  /\ UNCHANGED <<resources, by, trouble>>

(* A running domain that is undefined runs on until it is stopped.         *)
Undefine(d) ==
  /\ Goto(d, "undefine", Cleaned(d))
  /\ SetDomain(d, IF domain[JobOf[d]] = "running" THEN "running" ELSE "none")
  /\ UNCHANGED <<image, writing, network, by, trouble>>

(* Exceptions other than LibVirtDomainException leave cleanup: libvirt     *)
(* cannot be reached at all, or does not undefine.  In the task the        *)
(* failure handler tries again, in a handler they are logged.              *)
CleanupRaises(d, from, kind) ==
  /\ at[d] = from
  /\ trouble' = [trouble EXCEPT ![d] = @ \cup {kind}]
  /\ IF by[d] = "task"
     THEN Handle(d, "failure")
     ELSE at' = [at EXCEPT ![d] = "over"] /\ UNCHANGED by
  /\ UNCHANGED resources

CannotOpen(d)    == CleanupRaises(d, "delete", "unopened")
UndefineFails(d) == CleanupRaises(d, "undefine", "cut")

TaskEnds(d) ==
  /\ Goto(d, "clean", "over")
  /\ UNCHANGED <<resources, by, trouble>>

(* Mutant of Revoked: the process is killed and nobody cleans up.          *)
JustKilled(d) ==
  /\ at[d] \notin {"idle", "over"}
  /\ by[d] # "revoked"
  /\ at' = [at EXCEPT ![d] = "over"]
  /\ UNCHANGED <<resources, by, trouble>>

(* A revocation kills the process wherever it is, and task_revoked cleans  *)
(* up in its place.                                                        *)
Revoked(d) ==
  /\ at[d] \notin {"idle", "over"}
  /\ by[d] # "revoked"
  /\ trouble' = [trouble EXCEPT ![d] =
                   IF at[d] \in {"stop", "undefine"} THEN @ \cup {"cut"} ELSE @]
  /\ Handle(d, "revoked")
  /\ UNCHANGED resources

------------------------------------------------------------------------------
Create(d) ==
  \/ LookForImage(d) \/ OpenImage(d) \/ CopyEnds(d)
  \/ LookupNetwork(d) \/ DefineNetwork(d) \/ CheckNetwork(d) \/ StartNetwork(d)
  \/ GetDomain(d) \/ StartDomain(d) \/ GotIp(d) \/ NoIp(d) \/ CreateRefused(d)

Destroy(d) ==
  \/ DeleteImage(d) \/ NoImage(d) \/ CannotOpen(d)
  \/ StopDomain(d) \/ StopFails(d) \/ Undefine(d) \/ UndefineFails(d)

Next ==
  \E d \in Deliveries :
    \/ Take(d) \/ Create(d) \/ TaskFails(d) \/ ScriptEnds(d)
    \/ Destroy(d) \/ TaskEnds(d) \/ Revoked(d)

Spec == Init /\ [][Next]_vars

------------------------------------------------------------------------------
(* No image is left behind, however often a job is delivered and whatever  *)
(* fails in creating: one that exists is still to be deleted by a delivery *)
(* of its job, unless libvirt could not be reached for that.               *)
HasOpened  == Creating \ {"copy", "open"}
WillDelete == HasOpened \cup {"script", "delete"}

NoImageLeft ==
  \A j \in Jobs : image[j] # "none" =>
    \E d \in Deliveries :
      JobOf[d] = j /\ (at[d] \in WillDelete \/ "unopened" \in trouble[d])

(* No domain is left behind of a job that is delivered once, unless its    *)
(* clean-up was cut short after the deletion of the image, by a revocation *)
(* or an error of libvirt: no later clean-up then goes past the image.     *)
Sole(d) == \A e \in Deliveries : JobOf[e] = JobOf[d] => e = d

NoDomainLeft ==
  \A d \in Deliveries :
    (Sole(d) /\ at[d] = "over" /\ trouble[d] = {}) => domain[JobOf[d]] = "none"

(* A domain is started on a whole image and with a network, also when a    *)
(* job is delivered twice and each cleans up what the other has made: only *)
(* where one opened the image after the other had, both having found none, *)
(* may it be incomplete.  (A third delivery can copy where the second      *)
(* deleted what the first made.)                                           *)
DeliveriesOf(j) == {d \in Deliveries : JobOf[d] = j}

AtMostTwice(j) ==
  \A d, e, f \in DeliveriesOf(j) : d = e \/ d = f \/ e = f

NotOverwritten(j) == \A d \in DeliveriesOf(j) : "overwrote" \notin trouble[d]

StartsComplete ==
  [][\A j \in Jobs :
       (/\ AtMostTwice(j) /\ NotOverwritten(j)
        /\ domain[j] # "running" /\ domain'[j] = "running")
         => image[j] = "whole" /\ network = "active"]_vars

------------------------------------------------------------------------------
(* Inductive strengthening of NoDomainLeft: the image of a job delivered   *)
(* once is there as long as its domain may need the clean-up to go on.     *)
HasImage  == HasOpened \cup {"script"}
HasDomain == {"start", "wait_ip", "script"} \cup Destroying

SoleInv(d) ==
  LET j == JobOf[d] IN
  /\ at[d] \in {"idle", "copy", "open"} => image[j] = "none"
  /\ at[d] \in HasImage => image[j] # "none"
  /\ domain[j] # "none" => at[d] \in HasDomain
  /\ at[d] = "delete" /\ domain[j] # "none" => image[j] # "none"
  /\ at[d] = "undefine" => domain[j] # "running"

DomainInv == \A d \in Deliveries : Sole(d) /\ trouble[d] = {} => SoleInv(d)

------------------------------------------------------------------------------
(* The container as its job sees it: the domain and the network are inside *)
(* of what is created, and the image is what tells that it is there.       *)
Stand(d) ==
  CASE at[d] \in {"idle", "copy"}            -> "waiting"
    [] at[d] = "open"                        -> "ready"
    [] at[d] \in HasOpened \cup {"script"}   -> "using"
    [] at[d] = "delete" /\ by[d] = "task"    -> "using"
    [] at[d] = "delete" /\ by[d] # "task"    -> "owing"
    [] OTHER                                 -> "rid"

Promise(j) == INSTANCE ContainerPromise WITH
  Deliveries <- DeliveriesOf(j),
  image      <- image[j] # "none",
  phase      <- [d \in DeliveriesOf(j) |-> Stand(d)]

(* The calls to libvirt and the file system, interleaved with those for    *)
(* other deliveries of the job and each failing where it may, come to what *)
(* ContainerPromise has: who creates has seen no container before, who did *)
(* or failed removes one, and nobody else does either.                     *)
ContainerPromised ==
  /\ \A j \in Jobs : Promise(j)!Init
  /\ [][\A j \in Jobs : [Promise(j)!Next]_(Promise(j)!vars)]_vars
==============================================================================
