------------------------------- MODULE Claims -------------------------------
(***************************************************************************)
(* How a sync decides which pods or services belong to its MXJob:          *)
(* getPodsForMXJob with ClaimPods, getServicesForMXJob with ClaimServices. *)
(* The two are the same code for two kinds of objects, and so is the model. *)
(*                                                                         *)
(* One job name is looked at.  Its job may be deleted and created again,   *)
(* with another UID, while the informer's copy lags behind.  The objects   *)
(* of the namespace may be relabelled, deleted, replaced by others of the  *)
(* same name, and taken by other controllers, at any time.                 *)
(***************************************************************************)
EXTENDS Integers, FiniteSets

CONSTANTS Objects,     \* names of pods, or of services, in the namespace
          MaxUID,      \* bound: jobs ever created under the name
          MaxChanges,  \* bound: changes by others, and relists
          Env          \* see Disturbance

\* fail: calls to the API server may fail; job: the job is deleted and created
\* again; labels, owners, objects: others change those; relist: the informer
\* lists the job again and gets an older version.
Disturbance == {"fail", "job", "labels", "owners", "objects", "relist"}

ASSUME ClaimsAssumption == /\ Objects # {}
                           /\ MaxUID \in Nat \ {0} /\ MaxChanges \in Nat
                           /\ Env \subseteq Disturbance

\* metadata.controller of an object: none, another controller, or a job's UID
Nobody == 0
Stranger == -1
JobUID == 1 .. MaxUID

\* uid: the object under a name is another one than before when it changes
Object == [uid : Nat, owner : {Nobody, Stranger} \cup JobUID,
           match : BOOLEAN, life : {"live", "deleting", "gone"}]

Job == [uid : JobUID, life : {"live", "deleting", "gone"}]

VARIABLES job,      \* the job under the name, at the API server
          cached,   \* the informer's copy of it
          objs,     \* the objects, at the API server
          changes,  \* changes by others, and relists, so far
          m         \* the sync and its ControllerRefManager

vars == <<job, cached, objs, changes, m>>

\* canAdopt: canAdoptOnce and canAdoptErr; obj: the object being adopted.
\* quiet, late, adopted are history: nobody else changed anything since the
\* list; the job was no longer there to adopt for when the sync listed; the
\* objects adopted.
Manager == [pc : {"idle", "claim", "adopt", "done"}, uid : JobUID,
            list : [Objects -> Object], todo : SUBSET Objects, obj : Objects,
            canAdopt : {"unasked", "nil", "error"}, err : {"nil", "error"},
            claimed : SUBSET Objects,
            quiet : BOOLEAN, late : BOOLEAN, adopted : SUBSET Objects]

AnyObject == CHOOSE o \in Objects : TRUE

Idle == [pc |-> "idle", uid |-> 1,
         list |-> [o \in Objects |-> [uid |-> 0, owner |-> Nobody, match |-> FALSE, life |-> "gone"]],
         todo |-> {}, obj |-> AnyObject, canAdopt |-> "unasked", err |-> "nil",
         claimed |-> {}, quiet |-> FALSE, late |-> FALSE, adopted |-> {}]

TypeOK == /\ job \in Job /\ cached \in Job
          /\ objs \in [Objects -> Object]
          /\ changes \in 0 .. MaxChanges
          /\ m \in Manager

\* The objects are there already, of any owner and with any labels.
Init == /\ job = [uid |-> 1, life |-> "live"] /\ cached = job
        /\ objs \in [Objects -> [uid : {0}, owner : {Nobody, Stranger, 1},
                                 match : BOOLEAN, life : {"live"}]]
        /\ changes = 0
        /\ m = Idle

-----------------------------------------------------------------------------
Live(uid) == job = [uid |-> uid, life |-> "live"]

\* Mutation of getServicesForMXJob: the owner is not the job that was read.
getServicesForMXJobNoUID ==
    /\ m.pc = "idle"
    /\ cached.life = "live"
    /\ m' = [Idle EXCEPT !.pc = "claim", !.uid = Nobody, !.list = objs,
                         !.todo = {o \in Objects : objs[o].life # "gone"},
                         !.quiet = TRUE, !.late = ~Live(cached.uid)]
    /\ UNCHANGED <<job, cached, objs, changes>>

\* Mutation of getServicesForMXJob: only objects that match are listed.
getServicesForMXJobMatching ==
    /\ m.pc = "idle"
    /\ cached.life = "live"
    /\ m' = [Idle EXCEPT !.pc = "claim", !.uid = cached.uid, !.list = objs,
                         !.todo = {o \in Objects : objs[o].life # "gone" /\ objs[o].match},
                         !.quiet = TRUE, !.late = ~Live(cached.uid)]
    /\ UNCHANGED <<job, cached, objs, changes>>

\* Sync takes up the cached job, which is not pending deletion, and lists all
\* objects of the namespace, matching or not.
getServicesForMXJob ==
    /\ m.pc = "idle"
    /\ cached.life = "live"
    /\ m' = [Idle EXCEPT !.pc = "claim", !.uid = cached.uid, !.list = objs,
                         !.todo = {o \in Objects : objs[o].life # "gone"},
                         !.quiet = TRUE, !.late = ~Live(cached.uid)]
    /\ UNCHANGED <<job, cached, objs, changes>>

\* What ClaimObject does about an object that was listed.
\* First a mutation of ToRelease: only what is being deleted is let go.
ToReleaseDeleting(o) ==
    m.list[o].owner = m.uid /\ ~m.list[o].match /\ m.list[o].life = "deleting"

Ours(o) == m.list[o].owner = m.uid /\ m.list[o].match
ToRelease(o) == m.list[o].owner = m.uid /\ ~m.list[o].match
ToAdopt(o) == m.list[o] \in [uid : Nat, owner : {Nobody}, match : {TRUE}, life : {"live"}]

\* The object is dealt with: claimed or not, with or without an error.
dealtWith(o, claim, err) ==
    [m EXCEPT !.pc = "claim", !.todo = @ \ {o},
              !.claimed = IF claim THEN @ \cup {o} ELSE @,
              !.err = IF err = "error" THEN "error" ELSE @]

\* Owned by us and matching, or none of our business.
claimOrIgnore(o) ==
    /\ m.pc = "claim" /\ o \in m.todo
    /\ ~ToRelease(o) /\ ~ToAdopt(o)
    /\ m' = dealtWith(o, Ours(o), "nil")
    /\ UNCHANGED <<job, cached, objs, changes>>

\* The patch is for the object listed, and for no other of its name.
Same(o) == objs[o].life # "gone" /\ objs[o].uid = m.list[o].uid

\* Mutation of ReleaseService: every reference is dropped.
ReleaseServiceAll(o) ==
    /\ m.pc = "claim" /\ o \in m.todo /\ ToRelease(o)
    /\ objs' = [objs EXCEPT ![o].owner = IF Same(o) THEN Nobody ELSE @]
    /\ m' = dealtWith(o, FALSE, "nil")
    /\ UNCHANGED <<job, cached, changes>>

\* The patch deletes our reference; NotFound and Invalid are ignored.
ReleaseService(o) ==
    /\ m.pc = "claim" /\ o \in m.todo /\ ToRelease(o)
    /\ objs' = [objs EXCEPT ![o].owner = IF Same(o) /\ @ = m.uid THEN Nobody ELSE @]
    /\ m' = dealtWith(o, FALSE, "nil")
    /\ UNCHANGED <<job, cached, changes>>

\* Mutation of CanAdopt: the check of the UID is missing.
CanAdoptAny(o) ==
    /\ m.pc = "claim" /\ o \in m.todo /\ ToAdopt(o)
    /\ m' = IF job.life = "live"
            THEN [m EXCEPT !.pc = "adopt", !.obj = o, !.canAdopt = "nil"]
            ELSE [dealtWith(o, FALSE, "error") EXCEPT !.canAdopt = "error"]
    /\ UNCHANGED <<job, cached, objs, changes>>

\* AdoptService asks CanAdopt first, which reads the job once per manager and
\* sticks to the answer.
CanAdopt(o) ==
    /\ m.pc = "claim" /\ o \in m.todo /\ ToAdopt(o)
    /\ LET answer == IF m.canAdopt # "unasked" THEN m.canAdopt
                     ELSE IF Live(m.uid) THEN "nil" ELSE "error"
       IN  m' = IF answer = "nil"
                THEN [m EXCEPT !.pc = "adopt", !.obj = o, !.canAdopt = "nil"]
                ELSE [dealtWith(o, FALSE, "error") EXCEPT !.canAdopt = "error"]
    /\ UNCHANGED <<job, cached, objs, changes>>

CanAdoptFails(o) ==
    /\ "fail" \in Env
    /\ m.pc = "claim" /\ o \in m.todo /\ ToAdopt(o) /\ m.canAdopt = "unasked"
    /\ m' = [dealtWith(o, FALSE, "error") EXCEPT !.canAdopt = "error"]
    /\ UNCHANGED <<job, cached, objs, changes>>

\* Mutation of AdoptService: an object that is gone counts as adopted.
AdoptServiceGone ==
    /\ m.pc = "adopt"
    /\ LET o == m.obj
       IN  IF Same(o) /\ objs[o].owner \in {Nobody, m.uid}
           THEN /\ objs' = [objs EXCEPT ![o].owner = m.uid]
                /\ m' = [dealtWith(o, TRUE, "nil") EXCEPT !.adopted = @ \cup {o}]
           ELSE /\ UNCHANGED objs
                /\ m' = dealtWith(o, objs[o].life = "gone",
                              IF objs[o].life = "gone" THEN "nil" ELSE "error")
    /\ UNCHANGED <<job, cached, changes>>

\* The patch adds our reference; the API server refuses it if another
\* controller has the object, or if it is another object by now.  An object
\* that is gone is not claimed, without an error.
AdoptService ==
    /\ m.pc = "adopt"
    /\ LET o == m.obj
       IN  IF Same(o) /\ objs[o].owner \in {Nobody, m.uid}
           THEN /\ objs' = [objs EXCEPT ![o].owner = m.uid]
                /\ m' = [dealtWith(o, TRUE, "nil") EXCEPT !.adopted = @ \cup {o}]
           ELSE /\ UNCHANGED objs
                /\ m' = dealtWith(o, FALSE, IF objs[o].life = "gone" THEN "nil" ELSE "error")
    /\ UNCHANGED <<job, cached, changes>>

\* A patch that reports an error, be it carried out or not.
PatchFails ==
    /\ "fail" \in Env
    /\ \/ /\ m.pc = "adopt"
          /\ \/ UNCHANGED objs
             \/ /\ Same(m.obj) /\ objs[m.obj].owner = Nobody
                /\ objs' = [objs EXCEPT ![m.obj].owner = m.uid]
          /\ m' = dealtWith(m.obj, FALSE, "error")
       \/ \E o \in m.todo :
          /\ m.pc = "claim" /\ ToRelease(o)
          /\ \/ UNCHANGED objs
             \/ objs' = [objs EXCEPT ![o].owner = IF Same(o) /\ @ = m.uid THEN Nobody ELSE @]
          /\ m' = dealtWith(o, FALSE, "error")
    /\ UNCHANGED <<job, cached, changes>>

\* ClaimServices returns what was claimed and all errors; with an error the
\* sync ends, without one it goes on with the objects claimed.
ClaimServices ==
    /\ m.pc = "claim" /\ m.todo = {}
    /\ m' = [m EXCEPT !.pc = "done"]
    /\ UNCHANGED <<job, cached, objs, changes>>

endSync ==
    /\ m.pc = "done"
    /\ m' = Idle
    /\ UNCHANGED <<job, cached, objs, changes>>

-----------------------------------------------------------------------------
(* The others. *)

watchEvent ==
    /\ cached # job /\ cached' = job
    /\ UNCHANGED <<job, objs, changes, m>>

\* What the job of the name was before it became k.
Before(k) == {j \in Job : \/ j.uid < k.uid
                          \/ /\ j.uid = k.uid
                             /\ \/ j.life = "live" /\ k.life # "live"
                                \/ j.life = "deleting" /\ k.life = "gone"}

\* The watch broke and the list that replaces it is older than the copy.
relist ==
    /\ "relist" \in Env
    /\ cached' \in Before(cached)
    /\ changes < MaxChanges /\ changes' = changes + 1
    /\ UNCHANGED <<job, objs, m>>

Change == /\ changes < MaxChanges /\ changes' = changes + 1
          /\ m' = [m EXCEPT !.quiet = FALSE]
          /\ UNCHANGED cached

changeJob ==
    /\ "job" \in Env
    /\ job' = CASE job.life = "live"     -> [job EXCEPT !.life = "deleting"]
                [] job.life = "deleting" -> [job EXCEPT !.life = "gone"]
                [] job.life = "gone"     -> [uid |-> job.uid + 1, life |-> "live"]
    /\ job'.uid \in JobUID
    /\ Change /\ UNCHANGED objs

relabel(o) ==
    /\ "labels" \in Env
    /\ objs[o].life # "gone"
    /\ objs' = [objs EXCEPT ![o].match = ~@]
    /\ Change /\ UNCHANGED job

\* Another controller takes the object, or it is made an orphan.
reown(o) ==
    /\ "owners" \in Env
    /\ objs[o].life # "gone"
    /\ \E w \in {Nobody, Stranger} \ {objs[o].owner} : objs' = [objs EXCEPT ![o].owner = w]
    /\ Change /\ UNCHANGED job

changeObject(o) ==
    /\ "objects" \in Env
    /\ objs' = [objs EXCEPT ![o] =
          CASE @.life = "live"     -> [@ EXCEPT !.life = "deleting"]
            [] @.life = "deleting" -> [@ EXCEPT !.life = "gone"]
            [] @.life = "gone"     -> [uid |-> @.uid + 1, owner |-> Nobody,
                                       match |-> TRUE, life |-> "live"]]
    /\ Change /\ UNCHANGED job

\* The garbage collector removes the objects of a job that is gone.
collect(o) ==
    /\ objs[o].life # "gone" /\ objs[o].owner \in JobUID
    /\ objs[o].owner < job.uid \/ job.life = "gone"
    /\ objs' = [objs EXCEPT ![o].life = "gone"]
    /\ m' = [m EXCEPT !.quiet = FALSE]
    /\ UNCHANGED <<job, cached, changes>>

-----------------------------------------------------------------------------
ManagerStep == \/ getServicesForMXJob \/ AdoptService \/ PatchFails
               \/ ClaimServices \/ endSync
               \/ \E o \in Objects : \/ claimOrIgnore(o) \/ ReleaseService(o)
                                     \/ CanAdopt(o) \/ CanAdoptFails(o)

Others == \/ watchEvent \/ relist \/ changeJob
          \/ \E o \in Objects : relabel(o) \/ reown(o) \/ changeObject(o) \/ collect(o)

Next == ManagerStep \/ Others

Spec == Init /\ [][Next]_vars

\* Syncs come again and again (the resync), the watch and the garbage
\* collector do their work, and calls do not fail every time.
Fairness ==
    /\ WF_vars(ManagerStep) /\ WF_vars(watchEvent)
    /\ SF_vars(AdoptService)
    /\ \A o \in Objects : /\ SF_vars(ReleaseService(o)) /\ WF_vars(collect(o))
                          /\ SF_vars(m.canAdopt = "unasked" /\ CanAdopt(o))

FairSpec == Spec /\ Fairness

-----------------------------------------------------------------------------
\* "The list of Services that you now own is returned": a sync without errors
\* that nobody interfered with claims the matching objects it owns, has let
\* the other ones go and has left no orphan that matches.
ClaimsExact ==
    m.pc = "done" /\ m.quiet /\ m.err = "nil" =>
        \A o \in Objects :
            LET x == objs[o] IN
            x.life # "gone" =>
                /\ (o \in m.claimed) <=> (x.owner = m.uid)
                /\ x.owner = m.uid => x.match
                /\ x.owner = Nobody /\ x.life = "live" => ~x.match

\* "If any adoptions are attempted, we should first recheck for deletion with an
\* uncached quorum read": a sync whose job was deleted or replaced when it
\* listed adopts nothing, however old the copy is it works on.
LateAdoptsNothing == m.late => m.adopted = {}

\* What a sync goes on with was its own when it was listed, or became its own;
\* an object of another controller, or of a former job of the name, is never
\* counted as a replica.
ClaimedIsOwned ==
    \A o \in m.claimed : /\ m.list[o].match
                         /\ m.list[o].owner = m.uid \/ o \in m.adopted

\* Patches name the reference to add or to delete: a sync never takes away an
\* object from another controller, though it may have seen it without one.
ForeignUntouched ==
    [][ManagerStep => \A o \in Objects :
          objs[o].owner \notin {Nobody, m.uid} => objs'[o] = objs[o]]_vars

\* In the end, if the others leave things alone, every matching object that can
\* be had belongs to the job, no other one does, and nothing belongs to a
\* former job of the name, though that one may have been deleted just after
\* it was asked for and before the adoption.
RefsSettle ==
    <>[](\A o \in Objects : objs[o].life = "gone" \/
            CASE job.life = "live" ->
                   /\ objs[o].owner \in {Nobody, Stranger, job.uid}
                   /\ objs[o].owner = job.uid => objs[o].match
                   /\ objs[o].owner = Nobody /\ objs[o].life = "live" => ~objs[o].match
              [] job.life = "deleting" -> objs[o].owner \in {Nobody, Stranger, job.uid}
              [] job.life = "gone" -> objs[o].owner \in {Nobody, Stranger})
=============================================================================
