--------------------------- MODULE ContainerProofs ---------------------------
(***************************************************************************)
(* Theorems about Container for any jobs and any number of deliveries.     *)
(***************************************************************************)
EXTENDS Container, TLAPS

LEMMA JobTyped == \A d \in Deliveries : JobOf[d] \in Jobs
  BY ContainerAssumption

LEMMA TypeStep == TypeOK /\ [Next]_vars => TypeOK'
<1> SUFFICES ASSUME TypeOK, [Next]_vars PROVE TypeOK'
  OBVIOUS
<1> USE JobTyped DEF TypeOK, Creating, Destroying, resources
<1>1. ASSUME NEW d \in Deliveries, Take(d) \/ ScriptEnds(d) \/ TaskEnds(d)
      PROVE TypeOK'
  BY <1>1 DEF Take, ScriptEnds, TaskEnds, Goto
<1>2. ASSUME NEW d \in Deliveries, Create(d) PROVE TypeOK'
  <2>1. CASE LookForImage(d)
    BY <2>1 DEF LookForImage, Goto
  <2>6. CASE OpenImage(d)
    <3>1. trouble' \in [Deliveries -> SUBSET {"unopened", "cut", "overwrote"}]
      BY <2>6 DEF OpenImage
    <3> QED
      BY <2>6, <3>1 DEF OpenImage, Goto, SetImage
  <2>2. CASE CopyEnds(d)
    BY <2>2 DEF CopyEnds, Goto
  <2>3. CASE LookupNetwork(d) \/ DefineNetwork(d) \/ CheckNetwork(d) \/ StartNetwork(d)
    BY <2>3 DEF LookupNetwork, DefineNetwork, CheckNetwork, StartNetwork, Goto
  <2>4. CASE GetDomain(d) \/ StartDomain(d) \/ GotIp(d)
    BY <2>4 DEF GetDomain, StartDomain, GotIp, GotOrDefined, SetDomain, Goto
  <2>5. CASE NoIp(d) \/ CreateRefused(d)
    BY <2>5 DEF NoIp, CreateRefused, GotOrDefined, SetDomain, Handle
  <2> QED
    BY <1>2, <2>1, <2>2, <2>3, <2>4, <2>5, <2>6 DEF Create
<1>3. ASSUME NEW d \in Deliveries, TaskFails(d) \/ Revoked(d) PROVE TypeOK'
  BY <1>3 DEF TaskFails, Revoked, Handle
<1>4. ASSUME NEW d \in Deliveries, Destroy(d) PROVE TypeOK'
  <2> USE DEF Goto, Cleaned
  <2>1. CASE DeleteImage(d) \/ NoImage(d)
    BY <2>1 DEF DeleteImage, NoImage, SetImage
  <2>2. CASE StopDomain(d) \/ StopFails(d)
    BY <2>2 DEF StopDomain, StopFails, SetDomain
  <2>3. CASE Undefine(d)
    BY <2>3 DEF Undefine, SetDomain
  <2>4. CASE CannotOpen(d) \/ UndefineFails(d)
    BY <2>4 DEF CannotOpen, UndefineFails, CleanupRaises, Handle
  <2> QED
    BY <1>4, <2>1, <2>2, <2>3, <2>4 DEF Destroy
<1>5. CASE UNCHANGED vars
  BY <1>5 DEF vars
<1> QED
  BY <1>1, <1>2, <1>3, <1>4, <1>5 DEF Next

(* Image, domain, network and the deliveries keep their types.             *)
THEOREM ContainerTypeCorrect == Spec => []TypeOK
<1>1. Init => TypeOK
  BY DEF Init, TypeOK, Creating, Destroying
<1> QED
  BY <1>1, TypeStep, PTL DEF Spec

------------------------------------------------------------------------------
(* A delivery that is to delete the image of its job goes on to do so,     *)
(* unless there is none or libvirt cannot be reached.                      *)
Owner(d) == at[d] \in WillDelete \/ "unopened" \in trouble[d]

LEMMA OwnerStays ==
  ASSUME TypeOK, NEW d \in Deliveries, Owner(d), [Next]_vars
  PROVE  Owner(d)' \/ image'[JobOf[d]] = "none"
<1> USE JobTyped DEF TypeOK, Owner, WillDelete, HasOpened, Creating, Destroying,
                     resources
<1>1. ASSUME NEW e \in Deliveries, Take(e) \/ ScriptEnds(e) \/ TaskEnds(e)
      PROVE Owner(d)'
  BY <1>1 DEF Take, ScriptEnds, TaskEnds, Goto
<1>2. ASSUME NEW e \in Deliveries, Create(e) PROVE Owner(d)'
  BY <1>2 DEF Create, LookForImage, OpenImage, CopyEnds, LookupNetwork,
     DefineNetwork, CheckNetwork, StartNetwork, GetDomain, StartDomain, GotIp,
     NoIp, CreateRefused, Goto, Handle
<1>3. ASSUME NEW e \in Deliveries, TaskFails(e) \/ Revoked(e) PROVE Owner(d)'
  BY <1>3 DEF TaskFails, Revoked, Handle
<1>4. ASSUME NEW e \in Deliveries, Destroy(e)
      PROVE Owner(d)' \/ image'[JobOf[d]] = "none"
  <2>1. CASE DeleteImage(e)
    BY <2>1 DEF DeleteImage, SetImage, Goto
  <2>2. CASE NoImage(e)
    BY <2>2 DEF NoImage, Goto
  <2>3. CASE StopDomain(e) \/ StopFails(e) \/ Undefine(e)
    BY <2>3 DEF StopDomain, StopFails, Undefine, Goto
  <2>4. CASE CannotOpen(e) \/ UndefineFails(e)
    BY <2>4 DEF CannotOpen, UndefineFails, CleanupRaises, Handle
  <2> QED
    BY <1>4, <2>1, <2>2, <2>3, <2>4 DEF Destroy
<1>5. CASE UNCHANGED vars
  BY <1>5 DEF vars
<1> QED
  BY <1>1, <1>2, <1>3, <1>4, <1>5 DEF Next

(* Only a delivery that copies brings an image into being.                 *)
LEMMA ImageAppears ==
  ASSUME TypeOK, NEW j \in Jobs, image[j] = "none", image'[j] # "none",
         [Next]_vars
  PROVE  \E d \in Deliveries : JobOf[d] = j /\ Owner(d)'
<1> USE JobTyped DEF TypeOK, resources
<1>1. PICK d \in Deliveries : OpenImage(d) \/ CopyEnds(d)
  BY DEF Next, vars, Take, Create, LookForImage, LookupNetwork, DefineNetwork, CheckNetwork,
     StartNetwork, GetDomain, StartDomain, GotIp, NoIp, CreateRefused,
     TaskFails, ScriptEnds, Destroy, DeleteImage, SetImage, NoImage, CannotOpen,
     UndefineFails, CleanupRaises, StopDomain, StopFails, Undefine, TaskEnds,
     Revoked
<1>2. JobOf[d] = j
  BY <1>1 DEF OpenImage, CopyEnds, SetImage
<1>3. at'[d] \in {"copying", "net"}
  BY <1>1 DEF OpenImage, CopyEnds, Goto
<1> QED
  BY <1>2, <1>3 DEF Owner, WillDelete, HasOpened, Creating

(* No image is left behind, however often a job is delivered and whatever  *)
(* fails, but when libvirt cannot be reached by a clean-up.                *)
THEOREM ImagesDeleted == Spec => []NoImageLeft
<1>1. Init => NoImageLeft
  BY DEF Init, NoImageLeft
<1>2. TypeOK /\ NoImageLeft /\ [Next]_vars => NoImageLeft'
  <2> SUFFICES ASSUME TypeOK, NoImageLeft, [Next]_vars,
                      NEW j \in Jobs, image'[j] # "none"
               PROVE  \E d \in Deliveries : JobOf[d] = j /\ Owner(d)'
    BY DEF NoImageLeft, Owner
  <2>1. CASE image[j] = "none"
    BY <2>1, ImageAppears
  <2>2. CASE image[j] # "none"
    <3>1. PICK d \in Deliveries : JobOf[d] = j /\ Owner(d)
      BY <2>2 DEF NoImageLeft, Owner
    <3> QED
      BY <3>1, OwnerStays
  <2> QED
    BY <2>1, <2>2
<1> QED
  BY <1>1, <1>2, ContainerTypeCorrect, PTL DEF Spec

------------------------------------------------------------------------------
(* A step of another delivery leaves image and domain of a job alone that  *)
(* is delivered once.                                                      *)
LEMMA OthersApart ==
  ASSUME TypeOK, NEW d \in Deliveries, Sole(d),
         NEW e \in Deliveries, e # d,
         \/ Take(e) \/ Create(e) \/ TaskFails(e) \/ ScriptEnds(e)
         \/ Destroy(e) \/ TaskEnds(e) \/ Revoked(e)
  PROVE  /\ at'[d] = at[d] /\ trouble'[d] = trouble[d]
         /\ image'[JobOf[d]] = image[JobOf[d]]
         /\ domain'[JobOf[d]] = domain[JobOf[d]]
<1>1. JobOf[e] # JobOf[d]
  BY DEF Sole
<1> USE <1>1, JobTyped DEF TypeOK, resources
<1>2. CASE Take(e) \/ ScriptEnds(e) \/ TaskEnds(e)
  BY <1>2 DEF Take, ScriptEnds, TaskEnds, Goto
<1>3. CASE Create(e)
  BY <1>3 DEF Create, LookForImage, OpenImage, CopyEnds, LookupNetwork, DefineNetwork,
     CheckNetwork, StartNetwork, GetDomain, StartDomain, GotIp, NoIp,
     CreateRefused, Goto, Handle, SetImage, SetDomain
<1>4. CASE TaskFails(e) \/ Revoked(e)
  BY <1>4 DEF TaskFails, Revoked, Handle
<1>5. CASE Destroy(e)
  BY <1>5 DEF Destroy, DeleteImage, NoImage, CannotOpen, StopDomain, StopFails,
     Undefine, UndefineFails, CleanupRaises, Handle, Goto, SetImage, SetDomain
<1> QED
  BY <1>2, <1>3, <1>4, <1>5

LEMMA SoleCreates ==
  ASSUME TypeOK, NEW d \in Deliveries, SoleInv(d), Create(d)
  PROVE  SoleInv(d)'
<1> USE JobTyped DEF TypeOK, resources, SoleInv, HasImage, HasOpened, HasDomain,
                     Creating, Destroying
<1>1. CASE LookForImage(d) \/ OpenImage(d) \/ CopyEnds(d)
  BY <1>1 DEF LookForImage, OpenImage, CopyEnds, Goto, SetImage
<1>2. CASE LookupNetwork(d) \/ DefineNetwork(d) \/ CheckNetwork(d) \/ StartNetwork(d)
  BY <1>2 DEF LookupNetwork, DefineNetwork, CheckNetwork, StartNetwork, Goto
<1>3. CASE GetDomain(d) \/ StartDomain(d) \/ GotIp(d)
  BY <1>3 DEF GetDomain, StartDomain, GotIp, Goto, SetDomain
<1>4. CASE NoIp(d) \/ CreateRefused(d)
  BY <1>4 DEF NoIp, CreateRefused, Refused, Handle, SetDomain
<1> QED
  BY <1>1, <1>2, <1>3, <1>4 DEF Create

(* A clean-up that meets no trouble keeps on as long as there is a domain. *)
LEMMA SoleDestroys ==
  ASSUME TypeOK, NEW d \in Deliveries, SoleInv(d), Destroy(d), trouble'[d] = {}
  PROVE  SoleInv(d)'
<1> USE JobTyped DEF TypeOK, resources, SoleInv, HasImage, HasOpened, HasDomain,
                     Creating, Destroying
<1>1. CASE DeleteImage(d) \/ NoImage(d)
  BY <1>1 DEF DeleteImage, NoImage, Cleaned, Goto, SetImage
<1>2. CASE StopDomain(d) \/ Undefine(d)
  BY <1>2 DEF StopDomain, Undefine, Cleaned, Goto, SetDomain
<1>3. CASE StopFails(d) \/ CannotOpen(d) \/ UndefineFails(d)
  BY <1>3 DEF StopFails, CannotOpen, UndefineFails, CleanupRaises
<1> QED
  BY <1>1, <1>2, <1>3 DEF Destroy

LEMMA TroubleStays ==
  ASSUME TypeOK, NEW d \in Deliveries, trouble[d] # {}, [Next]_vars
  PROVE  trouble'[d] # {}
BY DEF TypeOK, resources, vars, Next, Take, Create, LookForImage, OpenImage,
   CopyEnds,
   LookupNetwork, DefineNetwork, CheckNetwork, StartNetwork, GetDomain,
   StartDomain, GotIp, NoIp, CreateRefused, TaskFails, ScriptEnds, Destroy,
   DeleteImage, NoImage, CannotOpen, StopDomain, StopFails, Undefine,
   UndefineFails, CleanupRaises, TaskEnds, Revoked

LEMMA DomainStep == TypeOK /\ DomainInv /\ [Next]_vars => DomainInv'
<1> SUFFICES ASSUME TypeOK, DomainInv, [Next]_vars,
                    NEW d \in Deliveries, Sole(d), trouble'[d] = {}
             PROVE  SoleInv(d)'
  BY DEF DomainInv, Sole
<1>1. SoleInv(d)
  BY TroubleStays DEF DomainInv
<1>2. ASSUME NEW e \in Deliveries, e # d,
             \/ Take(e) \/ Create(e) \/ TaskFails(e) \/ ScriptEnds(e)
             \/ Destroy(e) \/ TaskEnds(e) \/ Revoked(e)
      PROVE SoleInv(d)'
  BY <1>1, <1>2, OthersApart DEF SoleInv
<1>3. CASE Create(d)
  BY <1>1, <1>3, SoleCreates
<1>4. CASE Destroy(d)
  BY <1>1, <1>4, SoleDestroys
<1>5. CASE Take(d) \/ ScriptEnds(d) \/ TaskEnds(d)
  BY <1>1, <1>5, JobTyped DEF SoleInv, HasImage, HasOpened, HasDomain, Creating,
     Destroying, TypeOK, resources, Take, ScriptEnds, TaskEnds, Goto
<1>6. CASE TaskFails(d) \/ Revoked(d)
  BY <1>1, <1>6, JobTyped DEF SoleInv, HasImage, HasOpened, HasDomain, Creating,
     Destroying, TypeOK, resources, TaskFails, Revoked, Handle
<1>7. CASE UNCHANGED vars
  BY <1>1, <1>7 DEF SoleInv, vars, resources
<1> QED
  BY <1>2, <1>3, <1>4, <1>5, <1>6, <1>7 DEF Next

(* No domain is left behind of a job that is delivered once and whose      *)
(* clean-up was not cut short.                                             *)
THEOREM DomainsUndefined == Spec => []NoDomainLeft
<1>1. Init => DomainInv
  BY JobTyped DEF Init, DomainInv, SoleInv, HasImage, HasOpened, HasDomain, Creating,
     Destroying
<1>2. DomainInv => NoDomainLeft
  BY DEF DomainInv, SoleInv, NoDomainLeft, HasDomain, Destroying
<1> QED
  BY <1>1, <1>2, DomainStep, ContainerTypeCorrect, PTL DEF Spec

------------------------------------------------------------------------------
(* A delivery that has copied finds its image whole, or deleted; and then  *)
(* the other delivery of its job, which did that, does not copy any more.  *)
Copied == {"net", "net_define", "net_check", "net_start", "domain", "start"}
Early  == {"idle", "copy", "open", "copying"}

Nobody(d, places) ==
  \A e \in Deliveries : JobOf[e] = JobOf[d] /\ e # d => at[e] \notin places

CopyInv(d) ==
  LET j == JobOf[d] IN
  /\ at[d] \in Copied =>
       image[j] = "whole" \/ (image[j] = "none" /\ Nobody(d, Early))
  /\ at[d] = "copying" =>
       /\ writing[d] => image[j] = "partial" /\ Nobody(d, {"copying"})
       /\ ~writing[d] => image[j] = "none" /\ Nobody(d, Early)

StartInv ==
  /\ \A d \in Deliveries : at[d] \in {"domain", "start"} => network = "active"
  /\ \A d \in Deliveries :
       AtMostTwice(JobOf[d]) /\ NotOverwritten(JobOf[d]) => CopyInv(d)

(* What was overwritten once was overwritten.                              *)
TroubleKept ==
  \A e \in Deliveries : "overwrote" \in trouble[e] => "overwrote" \in trouble'[e]

LEMMA NotBefore ==
  ASSUME TroubleKept, NEW j \in Jobs, NotOverwritten(j)'
  PROVE  NotOverwritten(j)
BY DEF TroubleKept, NotOverwritten, DeliveriesOf

(* Only copying and deleting matter to the image of a job.                 *)
LEMMA CopyKept ==
  ASSUME NEW d \in Deliveries, CopyInv(d),
         image'[JobOf[d]] = image[JobOf[d]], writing'[d] = writing[d],
         \A e \in Deliveries : JobOf[e] = JobOf[d] =>
           /\ at'[e] \in Copied => at[e] \in Copied
           /\ at'[e] = "copying" => at[e] = "copying"
           /\ at'[e] \in Early => at[e] \in Early
  PROVE  CopyInv(d)'
BY DEF CopyInv, Nobody

LEMMA StartStep == TypeOK /\ StartInv /\ [Next]_vars => StartInv'
<1> SUFFICES ASSUME TypeOK, StartInv, [Next]_vars PROVE StartInv'
  OBVIOUS
<1>k. TroubleKept
  BY DEF TroubleKept, TypeOK, resources, vars, Next, Take, Create, LookForImage,
     OpenImage, CopyEnds, LookupNetwork, DefineNetwork, CheckNetwork,
     StartNetwork, GetDomain, StartDomain, GotIp, NoIp, CreateRefused, TaskFails,
     ScriptEnds, Destroy, DeleteImage, NoImage, CannotOpen, StopDomain, StopFails,
     Undefine, UndefineFails, CleanupRaises, TaskEnds, Revoked
<1> USE JobTyped DEF TypeOK
<1>q. ASSUME UNCHANGED <<image, writing>>,
             network = "active" => network' = "active",
             \A e \in Deliveries :
               /\ at'[e] \in Copied => at[e] \in Copied
               /\ at'[e] = "copying" => at[e] = "copying"
               /\ at'[e] \in Early => at[e] \in Early
               /\ at'[e] \in {"domain", "start"} =>
                    at[e] \in {"domain", "start"} \/ network' = "active"
      PROVE  StartInv'
  <2>1. \A d \in Deliveries : at'[d] \in {"domain", "start"} => network' = "active"
    BY <1>q DEF StartInv
  <2>2. ASSUME NEW d \in Deliveries, AtMostTwice(JobOf[d]), NotOverwritten(JobOf[d])'
        PROVE  CopyInv(d)'
    <3>1. CopyInv(d)
      BY <1>k, <2>2, NotBefore DEF StartInv
    <3> QED
      BY <1>q, <3>1, CopyKept
  <2> QED
    BY <2>1, <2>2 DEF StartInv, AtMostTwice
<1>1. ASSUME NEW d \in Deliveries,
             Take(d) \/ LookForImage(d) \/ ScriptEnds(d) \/ TaskEnds(d)
      PROVE  StartInv'
  BY <1>1, <1>q DEF Take, LookForImage, ScriptEnds, TaskEnds, Goto, resources,
     Copied, Early
<1>2. ASSUME NEW d \in Deliveries, TaskFails(d) \/ Revoked(d) \/ CreateRefused(d)
      PROVE  StartInv'
  BY <1>2, <1>q DEF TaskFails, Revoked, CreateRefused, Handle, resources, Copied,
     Early
<1>3. ASSUME NEW d \in Deliveries,
             LookupNetwork(d) \/ DefineNetwork(d) \/ CheckNetwork(d) \/ StartNetwork(d)
      PROVE  StartInv'
  BY <1>3, <1>q DEF LookupNetwork, DefineNetwork, CheckNetwork, StartNetwork, Goto,
     resources, Copied, Early
<1>4. ASSUME NEW d \in Deliveries,
             GetDomain(d) \/ StartDomain(d) \/ GotIp(d) \/ NoIp(d)
      PROVE  StartInv'
  BY <1>4, <1>q DEF GetDomain, StartDomain, GotIp, NoIp, Goto, Handle, resources,
     Copied, Early
<1>5. ASSUME NEW d \in Deliveries,
             \/ NoImage(d) \/ StopDomain(d) \/ StopFails(d) \/ Undefine(d)
             \/ CannotOpen(d) \/ UndefineFails(d)
      PROVE  StartInv'
  BY <1>5, <1>q DEF NoImage, StopDomain, StopFails, Undefine, CannotOpen,
     UndefineFails, CleanupRaises, Cleaned, Goto, Handle, resources, Copied, Early
<1>c. ASSUME NEW d \in Deliveries, UNCHANGED network,
             \A e \in Deliveries \ {d} : at'[e] = at[e],
             at'[d] \notin {"domain", "start"},
             \A e \in Deliveries : JobOf[e] # JobOf[d] =>
               image'[JobOf[e]] = image[JobOf[e]] /\ writing'[e] = writing[e],
             ASSUME AtMostTwice(JobOf[d]), NotOverwritten(JobOf[d])',
                    NEW e \in Deliveries, JobOf[e] = JobOf[d]
             PROVE  CopyInv(e)'
      PROVE  StartInv'
  <2>1. \A e \in Deliveries : at'[e] \in {"domain", "start"} => network' = "active"
    BY <1>c DEF StartInv
  <2>2. ASSUME NEW e \in Deliveries, AtMostTwice(JobOf[e]), NotOverwritten(JobOf[e])'
        PROVE  CopyInv(e)'
    <3>1. CASE JobOf[e] = JobOf[d]
      BY <1>c, <2>2, <3>1
    <3>2. CASE JobOf[e] # JobOf[d]
      <4>1. CopyInv(e)
        BY <1>k, <2>2, NotBefore DEF StartInv
      <4> QED
        BY <1>c, <3>2, <4>1, CopyKept
    <3> QED
      BY <3>1, <3>2
  <2> QED
    BY <2>1, <2>2 DEF StartInv, AtMostTwice
<1>6. ASSUME NEW d \in Deliveries, OpenImage(d) PROVE StartInv'
  <2>1. /\ at[d] = "open" /\ at' = [at EXCEPT ![d] = "copying"]
        /\ image' = [image EXCEPT ![JobOf[d]] = "partial"]
        /\ writing' = [e \in Deliveries |->
                          e = d \/ (writing[e] /\ JobOf[e] # JobOf[d])]
        /\ image[JobOf[d]] # "none" => "overwrote" \in trouble'[d]
        /\ UNCHANGED network
    BY <1>6 DEF OpenImage, Goto, SetImage
  <2>2. ASSUME AtMostTwice(JobOf[d]), NotOverwritten(JobOf[d])',
               NEW e \in Deliveries, JobOf[e] = JobOf[d]
        PROVE  CopyInv(e)'
    <3>0. image[JobOf[d]] = "none"
      BY <2>1, <2>2 DEF NotOverwritten, DeliveriesOf
    <3>1. \A f \in Deliveries : JobOf[f] = JobOf[d] => CopyInv(f)
      BY <1>k, <2>2, NotBefore DEF StartInv
    <3>2. \A f \in Deliveries : JobOf[f] = JobOf[d] /\ f # d =>
            at[f] \notin Copied \cup {"copying"}
      BY <2>1, <3>0, <3>1 DEF CopyInv, Nobody, Early
    <3>3. CASE e = d
      BY <2>1, <3>2, <3>3 DEF CopyInv, Nobody, Copied
    <3>4. CASE e # d
      BY <2>1, <2>2, <3>2, <3>4 DEF CopyInv
    <3> QED
      BY <3>3, <3>4
  <2>3. \A e \in Deliveries : JobOf[e] # JobOf[d] =>
          image'[JobOf[e]] = image[JobOf[e]] /\ writing'[e] = writing[e]
    BY <2>1
  <2> QED
    BY <2>1, <2>2, <2>3, <1>c
<1>7. ASSUME NEW d \in Deliveries, CopyEnds(d) PROVE StartInv'
  <2>1. /\ at[d] = "copying" /\ at' = [at EXCEPT ![d] = "net"]
        /\ image' = [image EXCEPT ![JobOf[d]] =
                        IF writing[d] THEN "whole" ELSE image[JobOf[d]]]
        /\ writing' = [writing EXCEPT ![d] = FALSE]
        /\ UNCHANGED network
    BY <1>7 DEF CopyEnds, Goto
  <2>2. ASSUME AtMostTwice(JobOf[d]), NotOverwritten(JobOf[d])',
               NEW e \in Deliveries, JobOf[e] = JobOf[d]
        PROVE  CopyInv(e)'
    <3>1. CopyInv(d) /\ CopyInv(e)
      BY <1>k, <2>2, NotBefore DEF StartInv
    <3>2. CASE writing[d]
      <4>1. image[JobOf[d]] = "partial" /\ Nobody(d, {"copying"})
        BY <2>1, <3>1, <3>2 DEF CopyInv
      <4>2. image'[JobOf[d]] = "whole"
        BY <2>1, <3>2
      <4>3. at'[e] # "copying"
        BY <2>1, <2>2, <4>1 DEF Nobody
      <4> QED
        BY <2>2, <4>2, <4>3 DEF CopyInv
    <3>3. CASE ~writing[d]
      <4>1. image[JobOf[d]] = "none" /\ Nobody(d, Early)
        BY <2>1, <3>1, <3>3 DEF CopyInv
      <4>2. image' = image
        BY <2>1, <3>3
      <4>3. CASE e = d
        BY <2>1, <4>1, <4>2, <4>3 DEF CopyInv, Nobody
      <4>4. CASE e # d
        <5>1. at[e] \notin Early /\ at'[e] = at[e]
          BY <2>1, <2>2, <4>1, <4>4 DEF Nobody
        <5>2. Nobody(e, Early) => Nobody(e, Early)'
          BY <2>1 DEF Nobody, Early
        <5> QED
          BY <2>2, <3>1, <4>1, <4>2, <5>1, <5>2 DEF CopyInv, Early
      <4> QED
        BY <4>3, <4>4
    <3> QED
      BY <3>2, <3>3
  <2> QED
    BY <2>1, <2>2, <1>c
<1>8. ASSUME NEW d \in Deliveries, DeleteImage(d) PROVE StartInv'
  <2>1. /\ at[d] = "delete" /\ at' = [at EXCEPT ![d] = "stop"]
        /\ image' = [image EXCEPT ![JobOf[d]] = "none"]
        /\ writing' = [e \in Deliveries |-> writing[e] /\ JobOf[e] # JobOf[d]]
        /\ UNCHANGED network
    BY <1>8 DEF DeleteImage, Goto, SetImage
  <2>2. ASSUME AtMostTwice(JobOf[d]), NotOverwritten(JobOf[d])',
               NEW e \in Deliveries, JobOf[e] = JobOf[d]
        PROVE  CopyInv(e)'
    <3>1. image'[JobOf[e]] = "none" /\ ~writing'[e]
      BY <2>1, <2>2
    <3>2. CASE e = d
      BY <2>1, <3>2 DEF CopyInv, Copied
    <3>3. CASE e # d
      <4>1. \A f \in Deliveries : JobOf[f] = JobOf[e] /\ f # e => f = d
        BY <2>2, <3>3 DEF AtMostTwice, DeliveriesOf
      <4>2. Nobody(e, Early)'
        BY <2>1, <4>1 DEF Nobody, Early
      <4> QED
        BY <3>1, <4>2 DEF CopyInv
    <3> QED
      BY <3>2, <3>3
  <2>3. \A e \in Deliveries : JobOf[e] # JobOf[d] =>
          image'[JobOf[e]] = image[JobOf[e]] /\ writing'[e] = writing[e]
    BY <2>1
  <2> QED
    BY <2>1, <2>2, <2>3, <1>c
<1>9. CASE UNCHANGED vars
  BY <1>9, <1>q DEF vars, resources
<1> QED
  BY <1>1, <1>2, <1>3, <1>4, <1>5, <1>6, <1>7, <1>8, <1>9
     DEF Next, Create, Destroy

(* A domain starts on a whole image and a network that is active, also     *)
(* when a second delivery of its job deletes and copies the image, unless  *)
(* both deliveries found no image and the one overwrote the other's.       *)
THEOREM StartsWhole == Spec => StartsComplete
<1>1. Init => StartInv
  BY JobTyped DEF Init, StartInv, CopyInv, Copied
<1>2. TypeOK /\ StartInv /\ [Next]_vars =>
        [\A j \in Jobs :
           (/\ AtMostTwice(j) /\ NotOverwritten(j)
            /\ domain[j] # "running" /\ domain'[j] = "running")
             => image[j] = "whole" /\ network = "active"]_vars
  <2> SUFFICES ASSUME TypeOK, StartInv, Next, NEW j \in Jobs, AtMostTwice(j),
                      NotOverwritten(j), domain[j] # "running", domain'[j] = "running"
               PROVE  image[j] = "whole" /\ network = "active"
    OBVIOUS
  <2>1. PICK d \in Deliveries : StartDomain(d) /\ JobOf[d] = j
    BY JobTyped DEF Next, Take, Create, TaskFails, ScriptEnds, Destroy, TaskEnds,
       Revoked, LookForImage, OpenImage, CopyEnds, LookupNetwork, DefineNetwork, CheckNetwork,
       StartNetwork, GetDomain, StartDomain, GotIp, NoIp, CreateRefused,
       GotOrDefined, DeleteImage, NoImage, CannotOpen, StopDomain, StopFails,
       Undefine, UndefineFails, CleanupRaises, SetDomain, resources, TypeOK
  <2> QED
    BY <2>1 DEF StartDomain, Goto, StartInv, CopyInv, Copied
<1> QED
  BY <1>1, <1>2, StartStep, ContainerTypeCorrect, PTL DEF Spec, StartsComplete

------------------------------------------------------------------------------
(* ContainerPromised.                                                      *)

(* Only the task itself creates, and what is still written is still there. *)
HoldInv ==
  /\ \A d \in Deliveries :
       at[d] \in Creating \cup {"idle", "script", "clean"} => by[d] = "task"
  /\ \A d \in Deliveries : writing[d] => image[JobOf[d]] # "none"

LEMMA HoldStep == TypeOK /\ HoldInv /\ [Next]_vars => HoldInv'
<1> SUFFICES ASSUME TypeOK, HoldInv, [Next]_vars PROVE HoldInv'
  OBVIOUS
<1> USE JobTyped DEF HoldInv, TypeOK, Creating, Destroying, resources
<1>1. ASSUME NEW d \in Deliveries, Take(d) \/ ScriptEnds(d) \/ TaskEnds(d)
      PROVE HoldInv'
  BY <1>1 DEF Take, ScriptEnds, TaskEnds, Goto
<1>2. ASSUME NEW d \in Deliveries, Create(d) PROVE HoldInv'
  <2>1. CASE LookForImage(d) \/ OpenImage(d) \/ CopyEnds(d)
    BY <2>1 DEF LookForImage, OpenImage, CopyEnds, Goto, SetImage
  <2>2. CASE LookupNetwork(d) \/ DefineNetwork(d) \/ CheckNetwork(d) \/ StartNetwork(d)
    BY <2>2 DEF LookupNetwork, DefineNetwork, CheckNetwork, StartNetwork, Goto
  <2>3. CASE GetDomain(d) \/ StartDomain(d) \/ GotIp(d)
    BY <2>3 DEF GetDomain, StartDomain, GotIp, Goto
  <2>4. CASE NoIp(d) \/ CreateRefused(d)
    BY <2>4 DEF NoIp, CreateRefused, Handle
  <2> QED
    BY <1>2, <2>1, <2>2, <2>3, <2>4 DEF Create
<1>3. ASSUME NEW d \in Deliveries, TaskFails(d) \/ Revoked(d) PROVE HoldInv'
  BY <1>3 DEF TaskFails, Revoked, Handle
<1>4. ASSUME NEW d \in Deliveries, Destroy(d) PROVE HoldInv'
  <2>1. CASE DeleteImage(d)
    BY <2>1 DEF DeleteImage, SetImage, Goto
  <2>2. CASE NoImage(d) \/ Undefine(d)
    BY <2>2 DEF NoImage, Undefine, Cleaned, Goto
  <2>3. CASE StopDomain(d) \/ StopFails(d)
    BY <2>3 DEF StopDomain, StopFails, Goto
  <2>4. CASE CannotOpen(d) \/ UndefineFails(d)
    BY <2>4 DEF CannotOpen, UndefineFails, CleanupRaises, Handle
  <2> QED
    BY <1>4, <2>1, <2>2, <2>3, <2>4 DEF Destroy
<1>5. CASE UNCHANGED vars
  BY <1>5 DEF vars
<1> QED
  BY <1>1, <1>2, <1>3, <1>4, <1>5 DEF Next

LEMMA HoldInvHolds == Spec => [](TypeOK /\ HoldInv)
<1>1. Init => HoldInv
  BY DEF Init, HoldInv
<1> QED
  BY <1>1, HoldStep, ContainerTypeCorrect, PTL DEF Spec

(* How a step of a delivery changes where it stands, and its image.        *)
StandMoves(d) ==
  LET j  == JobOf[d]
      to == Stand(d)'
      same == (image[j] # "none") <=> (image'[j] # "none")
  IN  \/ to = Stand(d) /\ same
      \/ Stand(d) = "waiting" /\ to = "ready" /\ image[j] = "none" /\ same
      \/ Stand(d) = "ready" /\ to = "using" /\ image'[j] # "none"
      \/ Stand(d) \in {"waiting", "ready", "using", "rid"} /\ to = "owing" /\ same
      \/ Stand(d) \in {"using", "owing"} /\ to = "rid" /\ image'[j] = "none"
      \/ Stand(d) = "owing" /\ to = "rid" /\ same

Step(d) ==
  \/ Take(d) \/ Create(d) \/ TaskFails(d) \/ ScriptEnds(d)
  \/ Destroy(d) \/ TaskEnds(d) \/ Revoked(d)

LEMMA StandStep ==
  ASSUME TypeOK, HoldInv, NEW d \in Deliveries, Step(d)
  PROVE  /\ StandMoves(d)
         /\ \A e \in Deliveries : e # d => at'[e] = at[e] /\ by'[e] = by[e]
         /\ \A j \in Jobs : j # JobOf[d] => image'[j] = image[j]
<1> DEFINE Goal ==
      /\ StandMoves(d)
      /\ \A e \in Deliveries : e # d => at'[e] = at[e] /\ by'[e] = by[e]
      /\ \A j \in Jobs : j # JobOf[d] => image'[j] = image[j]
<1> SUFFICES Goal
  OBVIOUS
<1> USE JobTyped DEF HoldInv, TypeOK, HasOpened, Creating, Destroying,
                     resources, StandMoves, Stand
<1>1. CASE Take(d) \/ ScriptEnds(d) \/ TaskEnds(d)
  BY <1>1 DEF Take, ScriptEnds, TaskEnds, Goto
<1>2. CASE LookForImage(d) \/ OpenImage(d)
  BY <1>2 DEF LookForImage, OpenImage, Goto, SetImage
<1>3. CASE CopyEnds(d)
  BY <1>3 DEF CopyEnds, Goto
<1>4. CASE LookupNetwork(d) \/ DefineNetwork(d) \/ CheckNetwork(d) \/ StartNetwork(d)
  BY <1>4 DEF LookupNetwork, DefineNetwork, CheckNetwork, StartNetwork, Goto
<1>5. CASE GetDomain(d) \/ StartDomain(d) \/ GotIp(d)
  BY <1>5 DEF GetDomain, StartDomain, GotIp, Goto
<1>6. CASE NoIp(d) \/ CreateRefused(d)
  BY <1>6 DEF NoIp, CreateRefused, Refused, Handle
<1>7. CASE TaskFails(d) \/ Revoked(d)
  BY <1>7 DEF TaskFails, Revoked, Handle
<1>8. CASE DeleteImage(d)
  BY <1>8 DEF DeleteImage, SetImage, Goto
<1>9. CASE NoImage(d) \/ Undefine(d)
  BY <1>9 DEF NoImage, Undefine, Cleaned, Goto
<1>10. CASE StopDomain(d) \/ StopFails(d)
  BY <1>10 DEF StopDomain, StopFails, Goto
<1>11. CASE CannotOpen(d) \/ UndefineFails(d)
  BY <1>11 DEF CannotOpen, UndefineFails, CleanupRaises, Handle
<1> HIDE DEF Goal
<1> QED
  BY <1>1, <1>2, <1>3, <1>4, <1>5, <1>6, <1>7, <1>8, <1>9, <1>10, <1>11
     DEF Step, Create, Destroy

(* Who creates a container has seen none before, which another may have    *)
(* created since; and whoever created it or failed removes it: what        *)
(* JobLifecycle makes of a container in a few steps is what these calls    *)
(* come to.                                                                *)
THEOREM ContainerImplementsPromise == Spec => ContainerPromised
<1>1. Init => \A j \in Jobs : Promise(j)!Init
  <2> SUFFICES ASSUME Init, NEW j \in Jobs PROVE Promise(j)!Init
    OBVIOUS
  <2>1. \A d \in DeliveriesOf(j) : Stand(d) = "waiting"
    BY DEF Init, Stand, DeliveriesOf, HasOpened, Creating
  <2>2. (image[j] # "none") = FALSE
    BY DEF Init
  <2> QED
    BY <2>1, <2>2 DEF Promise!Init
<1>2. TypeOK /\ HoldInv /\ [Next]_vars
        => [\A j \in Jobs : [Promise(j)!Next]_(Promise(j)!vars)]_vars
  <2> SUFFICES ASSUME TypeOK, HoldInv, Next, NEW j \in Jobs
               PROVE  [Promise(j)!Next]_(Promise(j)!vars)
    OBVIOUS
  <2> DEFINE is    == image[j] # "none"
             phase == [d \in DeliveriesOf(j) |-> Stand(d)]
  <2>1. PICK d \in Deliveries : Step(d)
    BY DEF Next, Step
  <2>2. \A e \in Deliveries : e # d => Stand(e)' = Stand(e)
    BY <2>1, StandStep DEF Stand
  <2>3. CASE JobOf[d] # j
    <3>1. is' = is
      BY <2>1, <2>3, StandStep
    <3>2. phase' = phase
      BY <2>2, <2>3 DEF DeliveriesOf
    <3> QED
      BY <3>1, <3>2 DEF Promise!vars
  <2>4. CASE JobOf[d] = j
    <3>1. d \in DeliveriesOf(j)
      BY <2>4 DEF DeliveriesOf
    <3>2. phase[d] = Stand(d)
      BY <3>1
    <3>3. phase' = [phase EXCEPT ![d] = Stand(d)']
      BY <2>2, <3>1 DEF DeliveriesOf
    <3>4. \/ Stand(d)' = Stand(d) /\ is' = is
          \/ Stand(d) = "waiting" /\ Stand(d)' = "ready" /\ ~is /\ is' = is
          \/ Stand(d) = "ready" /\ Stand(d)' = "using" /\ is' = TRUE
          \/ /\ Stand(d) \in {"waiting", "ready", "using", "rid"}
             /\ Stand(d)' = "owing" /\ is' = is
          \/ /\ Stand(d) \in {"using", "owing"} /\ Stand(d)' = "rid"
             /\ is' = FALSE
          \/ Stand(d) = "owing" /\ Stand(d)' = "rid" /\ is' = is
      BY <2>1, <2>4, StandStep DEF StandMoves
    <3>5. CASE Stand(d)' = Stand(d) /\ is' = is
      <4>1. phase' = phase
        BY <3>2, <3>3, <3>5
      <4> QED
        BY <3>5, <4>1 DEF Promise!vars
    <3>6. CASE ~(Stand(d)' = Stand(d) /\ is' = is)
      <4> HIDE DEF is, phase
      <4>1. \/ Promise(j)!Look(d) \/ Promise(j)!Create(d) \/ Promise(j)!Fail(d)
            \/ Promise(j)!Remove(d) \/ Promise(j)!Abandon(d)
        BY <3>2, <3>3, <3>4, <3>6
           DEF Promise!Look, Promise!Create, Promise!Fail, Promise!Remove, Promise!Abandon,
               Promise!Move, is, phase
      <4> QED
        BY <3>1, <4>1 DEF Promise!Next
    <3> QED
      BY <3>5, <3>6
  <2> QED
    BY <2>3, <2>4
<1> QED
  BY <1>1, <1>2, HoldInvHolds, PTL DEF Spec, ContainerPromised
==============================================================================
