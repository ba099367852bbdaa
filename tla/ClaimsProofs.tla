---------------------------- MODULE ClaimsProofs ----------------------------
(***************************************************************************)
(* Proofs that the claims of a sync are right, for any number of objects   *)
(* and whatever others do meanwhile.                                       *)
(***************************************************************************)
EXTENDS Claims, TLAPS

\* A leaf that names no prover goes to Zenon, which is quick where a leaf only
\* puts facts together, and then to the SMT solver: no proof hangs on the speed
\* of one machine.  Leaves that need arithmetic or sequences name the latter.
USE ZenonT(10), SMTT(30), SMTT(60)

\* The job under a name is replaced by later ones only: a sync works for the
\* current job or a former one, and one that was late never finds it live.
JobKnown ==
    /\ cached.uid <= job.uid
    /\ m.pc # "idle" => m.uid <= job.uid
    /\ m.pc # "idle" /\ m.late => ~Live(m.uid) /\ m.canAdopt # "nil" /\ m.adopted = {}
    /\ m.pc = "idle" => m = Idle

\* An adoption is under way for an object that is still to be dealt with.
Adopting == m.pc = "adopt" => m.obj \in m.todo /\ ToAdopt(m.obj) /\ m.canAdopt = "nil"

\* What has become of an object that was dealt with, if nobody interfered.
Settled(o) ==
    \/ Ours(o) /\ o \in m.claimed /\ objs[o].owner = m.uid
    \/ ToRelease(o) /\ o \notin m.claimed /\ objs[o].owner = Nobody
    \/ ToAdopt(o) /\ o \in m.claimed /\ objs[o].owner = m.uid
    \/ /\ ~Ours(o) /\ ~ToRelease(o) /\ ~ToAdopt(o)
       /\ o \notin m.claimed /\ objs[o].owner = m.list[o].owner

Undisturbed ==
    m.pc # "idle" /\ m.quiet =>
        \A o \in Objects :
            /\ objs[o].match = m.list[o].match /\ objs[o].life = m.list[o].life
            /\ objs[o].uid = m.list[o].uid
            /\ o \in m.todo => objs[o] = m.list[o] /\ m.list[o].life # "gone"
            /\ o \notin m.todo /\ m.list[o].life # "gone" /\ m.err = "nil" => Settled(o)

Open ==
    /\ \A o \in m.todo : o \notin m.claimed
    /\ m.pc = "done" => m.todo = {}

ClaimsInv == TypeOK /\ JobKnown /\ Adopting /\ Open /\ Undisturbed /\ ClaimedIsOwned

-----------------------------------------------------------------------------
\* The fields of the manager once an object is dealt with.
LEMMA DealtFields ==
    ASSUME TypeOK, NEW o \in Objects, NEW claim \in BOOLEAN, NEW err \in {"nil", "error"}
    PROVE  LET n == dealtWith(o, claim, err) IN
           /\ n \in Manager
           /\ n.pc = "claim" /\ n.uid = m.uid /\ n.list = m.list /\ n.todo = m.todo \ {o}
           /\ n.canAdopt = m.canAdopt /\ n.adopted = m.adopted
           /\ n.quiet = m.quiet /\ n.late = m.late
           /\ n.claimed = IF claim THEN m.claimed \cup {o} ELSE m.claimed
           /\ n.err = IF err = "error" THEN "error" ELSE m.err
           /\ n.obj = m.obj
  BY ZenonT(60) DEF TypeOK, Manager, dealtWith

LEMMA IdleTyped == Idle \in Manager
  BY ClaimsAssumption, SMTT(30) DEF Idle, Manager, AnyObject, Object, JobUID, Nobody, Stranger

\* Dealing with an object keeps the invariant, if the claim, the answer of
\* CanAdopt and what becomes of the object are as they should be.
LEMMA DealStep ==
    ASSUME ClaimsInv, NEW o \in m.todo, NEW claim \in BOOLEAN, NEW err \in {"nil", "error"},
           m.pc # "idle",
           UNCHANGED <<job, cached, changes>>,
           objs' \in [Objects -> Object],
           \A x \in Objects : /\ x # o => objs'[x] = objs[x]
                              /\ objs'[x].match = objs[x].match
                              /\ objs'[x].life = objs[x].life /\ objs'[x].uid = objs[x].uid,
           m' \in Manager,
           m'.pc = "claim" /\ m'.uid = m.uid /\ m'.list = m.list /\ m'.todo = m.todo \ {o},
           m'.quiet = m.quiet /\ m'.late = m.late,
           m'.claimed = IF claim THEN m.claimed \cup {o} ELSE m.claimed,
           m'.err = IF err = "error" THEN "error" ELSE m.err,
           m.adopted \subseteq m'.adopted,
           m.late => m'.canAdopt # "nil" /\ m'.adopted = {},
           claim => m.list[o].match /\ (m.list[o].owner = m.uid \/ o \in m'.adopted),
           m.quiet /\ err = "nil" => Settled(o)'
    PROVE  ClaimsInv'
<1>0. o \in Objects /\ m.todo \subseteq Objects
  BY DEF ClaimsInv, TypeOK, Manager
<1>1. TypeOK'
  BY DEF ClaimsInv, TypeOK
<1>2. JobKnown'
  BY DEF ClaimsInv, JobKnown, Live
<1>3. Adopting' /\ Open'
  BY DEF ClaimsInv, Adopting, Open
<1>4. ClaimedIsOwned'
  BY SMTT(30) DEF ClaimsInv, ClaimedIsOwned
<1>5. Undisturbed'
  <2> SUFFICES ASSUME m'.quiet, NEW x \in Objects
               PROVE  /\ objs'[x].match = m'.list[x].match /\ objs'[x].life = m'.list[x].life
                      /\ objs'[x].uid = m'.list[x].uid
                      /\ x \in m'.todo => objs'[x] = m'.list[x] /\ m'.list[x].life # "gone"
                      /\ x \notin m'.todo /\ m'.list[x].life # "gone" /\ m'.err = "nil"
                            => Settled(x)'
    BY DEF Undisturbed
  <2>1. /\ objs[x].match = m.list[x].match /\ objs[x].life = m.list[x].life
        /\ objs[x].uid = m.list[x].uid
        /\ x \in m.todo => objs[x] = m.list[x] /\ m.list[x].life # "gone"
        /\ x \notin m.todo /\ m.list[x].life # "gone" /\ m.err = "nil" => Settled(x)
    BY DEF ClaimsInv, Undisturbed
  <2>2. CASE x = o
    BY <2>1, <2>2
  <2>3. CASE x # o
    <3>1. (x \in m'.claimed) <=> (x \in m.claimed)
      BY <2>3, SMTT(30)
    <3>2. Settled(x) => Settled(x)'
      BY <2>3, <3>1, Zenon DEF Settled, Ours, ToRelease, ToAdopt
    <3>3. m'.err = "nil" => m.err = "nil"
      OBVIOUS
    <3>4. QED
      BY <2>1, <2>3, <3>2, <3>3
  <2>4. QED
    BY <2>2, <2>3
<1>6. QED
  BY <1>1, <1>2, <1>3, <1>4, <1>5 DEF ClaimsInv

\* A sync begins: nothing is dealt with yet.
LEMMA ListStep == ClaimsInv /\ getServicesForMXJob => ClaimsInv'
<1> SUFFICES ASSUME ClaimsInv, getServicesForMXJob PROVE ClaimsInv'
  OBVIOUS
<1>1. /\ m' \in Manager
      /\ m'.pc = "claim" /\ m'.uid = cached.uid /\ m'.list = objs
      /\ m'.todo = {o \in Objects : objs[o].life # "gone"}
      /\ m'.canAdopt = "unasked" /\ m'.claimed = {} /\ m'.adopted = {}
      /\ m'.late = ~Live(cached.uid)
  <2>1. cached.uid \in JobUID /\ objs \in [Objects -> Object]
    BY DEF ClaimsInv, TypeOK, Job
  <2>2. Live(cached.uid) \in BOOLEAN
    BY DEF Live
  <2>3. QED
    BY <2>1, <2>2, IdleTyped, ZenonT(60) DEF getServicesForMXJob, Manager, Idle
<1>2. UNCHANGED <<job, cached, objs, changes>>
  BY DEF getServicesForMXJob
<1>3. TypeOK' /\ JobKnown' /\ Adopting' /\ Open' /\ ClaimedIsOwned'
  BY <1>1, <1>2, Zenon DEF ClaimsInv, TypeOK, JobKnown, Adopting, Open, ClaimedIsOwned, Live
<1>4. Undisturbed'
  BY <1>1, <1>2 DEF Undisturbed
<1>5. QED
  BY <1>3, <1>4 DEF ClaimsInv

LEMMA ClaimOrIgnoreStep ==
    ASSUME ClaimsInv, NEW o \in Objects, claimOrIgnore(o)
    PROVE  ClaimsInv'
<1>1. o \in m.todo /\ m.pc = "claim" /\ UNCHANGED <<job, cached, objs, changes>>
  BY DEF claimOrIgnore
<1>2. Ours(o) \in BOOLEAN
  BY DEF Ours, ClaimsInv, TypeOK, Manager, Object
<1>3. /\ m' = dealtWith(o, Ours(o), "nil") /\ ~ToRelease(o) /\ ~ToAdopt(o)
  BY DEF claimOrIgnore
<1>4. /\ m' \in Manager
      /\ m'.pc = "claim" /\ m'.uid = m.uid /\ m'.list = m.list /\ m'.todo = m.todo \ {o}
      /\ m'.canAdopt = m.canAdopt /\ m'.adopted = m.adopted
      /\ m'.quiet = m.quiet /\ m'.late = m.late
      /\ m'.claimed = IF Ours(o) THEN m.claimed \cup {o} ELSE m.claimed
      /\ m'.err = m.err
  BY <1>2, <1>3, DealtFields, ZenonT(60) DEF ClaimsInv
<1>5. m.quiet => objs[o] = m.list[o] /\ o \notin m.claimed
  BY <1>1 DEF ClaimsInv, Undisturbed, Open
<1>6. m.quiet => Settled(o)'
  BY <1>1, <1>3, <1>4, <1>5, ZenonT(60) DEF Settled, Ours, ToRelease, ToAdopt
<1>7. m.late => m.canAdopt # "nil" /\ m.adopted = {}
  BY <1>1 DEF ClaimsInv, JobKnown
<1>8. Ours(o) => m.list[o].match /\ m.list[o].owner = m.uid
  BY DEF Ours
<1>9. objs' \in [Objects -> Object]
  BY <1>1 DEF ClaimsInv, TypeOK
<1>10. QED
  BY <1>1, <1>2, <1>4, <1>6, <1>7, <1>8, <1>9, DealStep, Zenon

\* The patch of a release that took effect, as far as the objects go.
LEMMA ReleasePatch ==
    ASSUME ClaimsInv, NEW o \in Objects,
           objs' = [objs EXCEPT ![o].owner = IF Same(o) /\ @ = m.uid THEN Nobody ELSE @]
    PROVE  /\ objs' \in [Objects -> Object]
           /\ \A x \in Objects : /\ x # o => objs'[x] = objs[x]
                                 /\ objs'[x].match = objs[x].match
                                 /\ objs'[x].life = objs[x].life /\ objs'[x].uid = objs[x].uid
           /\ objs'[o].owner = IF Same(o) /\ objs[o].owner = m.uid THEN Nobody ELSE objs[o].owner
  BY DEF ClaimsInv, TypeOK, Object

LEMMA ReleaseStep ==
    ASSUME ClaimsInv, NEW o \in Objects, ReleaseService(o)
    PROVE  ClaimsInv'
<1>1. /\ o \in m.todo /\ m.pc = "claim" /\ UNCHANGED <<job, cached, changes>>
      /\ m' = dealtWith(o, FALSE, "nil") /\ ToRelease(o)
      /\ objs' = [objs EXCEPT ![o].owner = IF Same(o) /\ @ = m.uid THEN Nobody ELSE @]
  BY DEF ReleaseService
<1>2. /\ m' \in Manager
      /\ m'.pc = "claim" /\ m'.uid = m.uid /\ m'.list = m.list /\ m'.todo = m.todo \ {o}
      /\ m'.canAdopt = m.canAdopt /\ m'.adopted = m.adopted
      /\ m'.quiet = m.quiet /\ m'.late = m.late
      /\ m'.claimed = m.claimed
      /\ m'.err = m.err
  BY <1>1, DealtFields, Zenon DEF ClaimsInv
<1>3. /\ objs' \in [Objects -> Object]
      /\ \A x \in Objects : /\ x # o => objs'[x] = objs[x]
                            /\ objs'[x].match = objs[x].match
                            /\ objs'[x].life = objs[x].life /\ objs'[x].uid = objs[x].uid
      /\ objs'[o].owner = IF Same(o) /\ objs[o].owner = m.uid THEN Nobody ELSE objs[o].owner
  BY <1>1, ReleasePatch, Zenon
<1>4. m.quiet => objs[o] = m.list[o] /\ m.list[o].life # "gone" /\ o \notin m.claimed
  BY <1>1 DEF ClaimsInv, Undisturbed, Open
<1>5. m.quiet => objs'[o].owner = Nobody
  BY <1>1, <1>3, <1>4 DEF ToRelease, Same
<1>6. m.quiet => Settled(o)'
  BY <1>1, <1>2, <1>4, <1>5, Zenon DEF Settled, ToRelease
<1>7. m.late => m.canAdopt # "nil" /\ m.adopted = {}
  BY <1>1 DEF ClaimsInv, JobKnown
<1>8. QED
  BY <1>1, <1>2, <1>3, <1>6, <1>7, DealStep, ZenonT(60)

\* CanAdopt said no, or could not say.
LEMMA DeniedStep ==
    ASSUME ClaimsInv, NEW o \in m.todo, m.pc = "claim",
           UNCHANGED <<job, cached, objs, changes>>,
           m' = [dealtWith(o, FALSE, "error") EXCEPT !.canAdopt = "error"]
    PROVE  ClaimsInv'
<1>0. o \in Objects
  BY DEF ClaimsInv, TypeOK, Manager
<1> DEFINE n == dealtWith(o, FALSE, "error")
<1>1. /\ n \in Manager
      /\ n.pc = "claim" /\ n.uid = m.uid /\ n.list = m.list /\ n.todo = m.todo \ {o}
      /\ n.adopted = m.adopted /\ n.quiet = m.quiet /\ n.late = m.late
      /\ n.claimed = m.claimed /\ n.err = "error"
  BY <1>0, DealtFields, Zenon DEF ClaimsInv
<1>2. m' = [n EXCEPT !.canAdopt = "error"]
  OBVIOUS
<1> HIDE DEF n
<1>3. /\ m' \in Manager
      /\ m'.pc = "claim" /\ m'.uid = m.uid /\ m'.list = m.list /\ m'.todo = m.todo \ {o}
      /\ m'.adopted = m.adopted /\ m'.quiet = m.quiet /\ m'.late = m.late
      /\ m'.claimed = m.claimed /\ m'.err = "error" /\ m'.canAdopt = "error"
  BY <1>1, <1>2, ZenonT(60) DEF Manager
<1>4. m.late => m.adopted = {}
  BY DEF ClaimsInv, JobKnown
<1>5. objs' \in [Objects -> Object]
  BY DEF ClaimsInv, TypeOK
<1>6. QED
  BY <1>3, <1>4, <1>5, DealStep, Zenon

LEMMA CanAdoptStep ==
    ASSUME ClaimsInv, NEW o \in Objects, CanAdopt(o)
    PROVE  ClaimsInv'
<1>1. /\ o \in m.todo /\ m.pc = "claim" /\ UNCHANGED <<job, cached, objs, changes>>
      /\ ToAdopt(o)
  BY DEF CanAdopt
<1>2. \/ m' = [dealtWith(o, FALSE, "error") EXCEPT !.canAdopt = "error"]
      \/ /\ m' = [m EXCEPT !.pc = "adopt", !.obj = o, !.canAdopt = "nil"]
         /\ m.canAdopt = "nil" \/ Live(m.uid)
  BY DEF CanAdopt
<1>3. CASE m' = [dealtWith(o, FALSE, "error") EXCEPT !.canAdopt = "error"]
  BY <1>1, <1>3, DeniedStep, Zenon
<1>4. CASE /\ m' = [m EXCEPT !.pc = "adopt", !.obj = o, !.canAdopt = "nil"]
           /\ m.canAdopt = "nil" \/ Live(m.uid)
  <2>1. /\ m' \in Manager /\ m'.pc = "adopt" /\ m'.obj = o /\ m'.canAdopt = "nil"
        /\ m'.uid = m.uid /\ m'.list = m.list /\ m'.todo = m.todo /\ m'.err = m.err
        /\ m'.adopted = m.adopted /\ m'.quiet = m.quiet /\ m'.late = m.late
        /\ m'.claimed = m.claimed
    BY <1>4, Zenon DEF ClaimsInv, TypeOK, Manager
  <2>2. ~m.late
    BY <1>1, <1>4 DEF ClaimsInv, JobKnown
  <2>3. TypeOK' /\ JobKnown' /\ Adopting' /\ Open' /\ ClaimedIsOwned'
    <3>1. TypeOK' /\ Open' /\ ClaimedIsOwned'
      BY <1>1, <2>1 DEF ClaimsInv, TypeOK, Open, ClaimedIsOwned
    <3>2. JobKnown'
      BY <1>1, <2>1, <2>2 DEF ClaimsInv, JobKnown, Live
    <3>3. Adopting'
      BY <1>1, <2>1, Zenon DEF Adopting, ToAdopt
    <3>4. QED
      BY <3>1, <3>2, <3>3
  <2>4. Undisturbed'
    <3>1. \A x \in Objects : Settled(x)' <=> Settled(x)
      BY <1>1, <2>1 DEF Settled, Ours, ToRelease, ToAdopt
    <3>2. QED
      BY <1>1, <2>1, <3>1, SMTT(30) DEF ClaimsInv, Undisturbed
  <2>5. QED
    BY <2>3, <2>4 DEF ClaimsInv
<1>5. QED
  BY <1>2, <1>3, <1>4, Zenon

\* The patch of an adoption that took effect.
LEMMA AdoptPatch ==
    ASSUME ClaimsInv, NEW o \in Objects, objs' = [objs EXCEPT ![o].owner = m.uid]
    PROVE  /\ objs' \in [Objects -> Object]
           /\ \A x \in Objects : /\ x # o => objs'[x] = objs[x]
                                 /\ objs'[x].match = objs[x].match
                                 /\ objs'[x].life = objs[x].life /\ objs'[x].uid = objs[x].uid
           /\ objs'[o].owner = m.uid
  BY SMTT(30) DEF ClaimsInv, TypeOK, Object, Manager

LEMMA AdoptStep ==
    ASSUME ClaimsInv, AdoptService, NEW o \in Objects, o = m.obj
    PROVE  ClaimsInv'
<1>1. /\ m.pc = "adopt" /\ UNCHANGED <<job, cached, changes>>
      /\ o \in m.todo /\ ToAdopt(o) /\ m.canAdopt = "nil" /\ ~m.late
      /\ m.list[o].match = TRUE /\ m.list[o].owner = Nobody /\ m.list[o].life = "live"
  BY Zenon DEF AdoptService, ClaimsInv, Adopting, JobKnown, TypeOK, Manager, ToAdopt
<1>2. m.quiet => /\ objs[o] = m.list[o] /\ o \notin m.claimed
                 /\ Same(o) /\ objs[o].owner = Nobody
  BY <1>1 DEF ClaimsInv, Undisturbed, Open, Same
<1>3. CASE Same(o) /\ objs[o].owner \in {Nobody, m.uid}
  <2> DEFINE n == dealtWith(o, TRUE, "nil")
  <2>1. objs' = [objs EXCEPT ![o].owner = m.uid] /\ m' = [n EXCEPT !.adopted = @ \cup {o}]
    BY <1>3, Zenon DEF AdoptService
  <2>2. /\ n \in Manager
        /\ n.pc = "claim" /\ n.uid = m.uid /\ n.list = m.list /\ n.todo = m.todo \ {o}
        /\ n.adopted = m.adopted /\ n.quiet = m.quiet /\ n.late = m.late
        /\ n.claimed = m.claimed \cup {o} /\ n.err = m.err
    BY DealtFields, Zenon DEF ClaimsInv
  <2> HIDE DEF n
  <2>3. /\ m' \in Manager
        /\ m'.pc = "claim" /\ m'.uid = m.uid /\ m'.list = m.list /\ m'.todo = m.todo \ {o}
        /\ m'.adopted = m.adopted \cup {o}
        /\ m'.quiet = m.quiet /\ m'.late = m.late
        /\ m'.claimed = m.claimed \cup {o} /\ m'.err = m.err
    BY <2>1, <2>2 DEF Manager
  <2>4. /\ objs' \in [Objects -> Object]
        /\ \A x \in Objects : /\ x # o => objs'[x] = objs[x]
                              /\ objs'[x].match = objs[x].match
                              /\ objs'[x].life = objs[x].life /\ objs'[x].uid = objs[x].uid
        /\ objs'[o].owner = m.uid
    BY <2>1, AdoptPatch, Zenon
  <2>5. Settled(o)'
    BY <1>1, <2>3, <2>4, Zenon DEF Settled, ToAdopt
  <2>6. QED
    BY <1>1, <2>3, <2>4, <2>5, DealStep, Zenon
<1>4. CASE ~(Same(o) /\ objs[o].owner \in {Nobody, m.uid})
  <2> DEFINE err == IF objs[o].life = "gone" THEN "nil" ELSE "error"
  <2>1. UNCHANGED objs /\ m' = dealtWith(o, FALSE, err) /\ err \in {"nil", "error"}
    BY <1>4, Zenon DEF AdoptService
  <2> HIDE DEF err
  <2>2. /\ m' \in Manager
        /\ m'.pc = "claim" /\ m'.uid = m.uid /\ m'.list = m.list /\ m'.todo = m.todo \ {o}
        /\ m'.adopted = m.adopted /\ m'.quiet = m.quiet /\ m'.late = m.late
        /\ m'.claimed = m.claimed /\ m'.err = IF err = "error" THEN "error" ELSE m.err
    BY <2>1, DealtFields, ZenonT(60) DEF ClaimsInv
  <2>3. ~m.quiet /\ objs' \in [Objects -> Object]
    BY <1>2, <1>4, <2>1 DEF ClaimsInv, TypeOK
  <2>4. PICK e \in {"nil", "error"} : e = err
    BY <2>1
  <2>5. QED
    BY <1>1, <2>1, <2>2, <2>3, <2>4, DealStep, Zenon
<1>5. QED
  BY <1>3, <1>4

\* A patch that reports an error, on an object that is left as it was, adopted
\* or released.
LEMMA FailedPatch ==
    ASSUME ClaimsInv, NEW o \in m.todo, m.pc # "idle",
           m.late => m.canAdopt # "nil",
           UNCHANGED <<job, cached, changes>>,
           m' = dealtWith(o, FALSE, "error"),
           \/ UNCHANGED objs
           \/ objs' = [objs EXCEPT ![o].owner = m.uid]
           \/ objs' = [objs EXCEPT ![o].owner = IF Same(o) /\ @ = m.uid THEN Nobody ELSE @]
    PROVE  ClaimsInv'
<1>0. o \in Objects
  BY DEF ClaimsInv, TypeOK, Manager
<1>1. /\ m' \in Manager
      /\ m'.pc = "claim" /\ m'.uid = m.uid /\ m'.list = m.list /\ m'.todo = m.todo \ {o}
      /\ m'.canAdopt = m.canAdopt /\ m'.adopted = m.adopted
      /\ m'.quiet = m.quiet /\ m'.late = m.late
      /\ m'.claimed = m.claimed /\ m'.err = "error"
  BY <1>0, DealtFields, Zenon DEF ClaimsInv
<1>2. /\ objs' \in [Objects -> Object]
      /\ \A x \in Objects : /\ x # o => objs'[x] = objs[x]
                            /\ objs'[x].match = objs[x].match
                            /\ objs'[x].life = objs[x].life /\ objs'[x].uid = objs[x].uid
  <2>1. CASE UNCHANGED objs
    BY <2>1 DEF ClaimsInv, TypeOK
  <2>2. CASE objs' = [objs EXCEPT ![o].owner = m.uid]
    BY <1>0, <2>2, AdoptPatch, Zenon
  <2>3. CASE objs' = [objs EXCEPT ![o].owner = IF Same(o) /\ @ = m.uid THEN Nobody ELSE @]
    BY <1>0, <2>3, ReleasePatch, Zenon
  <2>4. QED
    BY <2>1, <2>2, <2>3
<1>3. m.late => m.adopted = {}
  BY DEF ClaimsInv, JobKnown
<1>4. QED
  BY <1>1, <1>2, <1>3, DealStep, ZenonT(60)

LEMMA PatchFailsStep == ClaimsInv /\ PatchFails => ClaimsInv'
<1> SUFFICES ASSUME ClaimsInv, PatchFails PROVE ClaimsInv'
  OBVIOUS
<1>1. UNCHANGED <<job, cached, changes>> /\ (m.pc # "idle" /\ m.late => m.canAdopt # "nil")
  BY DEF PatchFails, ClaimsInv, JobKnown
<1>2. CASE /\ m.pc = "adopt"
           /\ \/ UNCHANGED objs
              \/ objs' = [objs EXCEPT ![m.obj].owner = m.uid]
           /\ m' = dealtWith(m.obj, FALSE, "error")
  <2>1. PICK o \in m.todo : o = m.obj
    BY <1>2 DEF ClaimsInv, Adopting
  <2>2. QED
    BY <1>1, <1>2, <2>1, FailedPatch, Zenon
<1>3. ASSUME NEW o \in m.todo, m.pc = "claim",
             \/ UNCHANGED objs
             \/ objs' = [objs EXCEPT ![o].owner = IF Same(o) /\ @ = m.uid THEN Nobody ELSE @],
             m' = dealtWith(o, FALSE, "error")
      PROVE  ClaimsInv'
  BY <1>1, <1>3, FailedPatch, Zenon
<1>4. QED
  BY <1>2, <1>3, Zenon DEF PatchFails

-----------------------------------------------------------------------------
\* What others do is noticed in quiet alone, and a job never comes back.
LEMMA OtherStep ==
    ASSUME ClaimsInv,
           job' \in Job /\ job.uid <= job'.uid,
           job'.uid = job.uid /\ job.life # "live" => job'.life # "live",
           objs' \in [Objects -> Object], changes' \in 0 .. MaxChanges,
           UNCHANGED cached, m' = [m EXCEPT !.quiet = FALSE]
    PROVE  ClaimsInv'
<1>1. /\ m' \in Manager /\ m'.pc = m.pc /\ m'.uid = m.uid /\ m'.list = m.list
      /\ m'.todo = m.todo /\ m'.obj = m.obj /\ m'.canAdopt = m.canAdopt /\ m'.err = m.err
      /\ m'.claimed = m.claimed /\ m'.late = m.late /\ m'.adopted = m.adopted /\ ~m'.quiet
  BY Zenon DEF ClaimsInv, TypeOK, Manager
<1>2. TypeOK' /\ Open' /\ ClaimedIsOwned' /\ Undisturbed'
  BY <1>1 DEF ClaimsInv, TypeOK, Open, ClaimedIsOwned, Undisturbed
<1>3. Adopting'
  BY <1>1, Zenon DEF ClaimsInv, Adopting, ToAdopt
<1>4. JobKnown'
  <2>1. m.pc = "idle" => m' = Idle
    <3>1. Idle.quiet = FALSE
      BY DEF Idle
    <3>2. [Idle EXCEPT !.quiet = FALSE] = Idle
      BY <3>1, IdleTyped DEF Manager
    <3>3. QED
      BY <3>2 DEF ClaimsInv, JobKnown
  <2>2. \A u \in JobUID : u <= job.uid /\ ~Live(u) => ~Live(u)'
    BY SMTT(30) DEF Live, Job, JobUID, ClaimsInv, TypeOK
  <2>3. cached'.uid <= job'.uid /\ (m.pc # "idle" => m.uid <= job'.uid)
    BY SMTT(30) DEF ClaimsInv, JobKnown, TypeOK, Job, JobUID, Manager
  <2>4. m.uid \in JobUID
    BY DEF ClaimsInv, TypeOK, Manager
  <2>5. m.pc # "idle" /\ m.late => m.uid <= job.uid /\ ~Live(m.uid) /\ m.canAdopt # "nil" /\ m.adopted = {}
    BY DEF ClaimsInv, JobKnown
  <2>6. m.pc # "idle" /\ m.late => ~Live(m.uid)'
    BY <1>1, <2>2, <2>4, <2>5 DEF Live
  <2>7. QED
    BY <1>1, <2>1, <2>3, <2>5, <2>6 DEF JobKnown
<1>5. QED
  BY <1>2, <1>3, <1>4 DEF ClaimsInv

LEMMA OthersStep == ClaimsInv /\ Others => ClaimsInv'
<1> SUFFICES ASSUME ClaimsInv, Others PROVE ClaimsInv'
  OBVIOUS
<1>1. CASE watchEvent \/ relist
  <2>1. UNCHANGED <<job, objs, m>>
    BY <1>1 DEF watchEvent, relist
  <2>2. cached' \in Job /\ cached'.uid <= job.uid
    BY <1>1, SMTT(30) DEF watchEvent, relist, Before, ClaimsInv, JobKnown, TypeOK, Job, JobUID
  <2>3. changes' \in 0 .. MaxChanges
    BY <1>1, ClaimsAssumption, SMTT(30) DEF watchEvent, relist, ClaimsInv, TypeOK
  <2>4. TypeOK' /\ JobKnown' /\ Adopting' /\ Open' /\ ClaimedIsOwned'
    BY <2>1, <2>2, <2>3, Zenon DEF ClaimsInv, TypeOK, JobKnown, Live, Adopting, ToAdopt, Open,
       ClaimedIsOwned
  <2>5. Undisturbed'
    BY <2>1, ZenonT(60) DEF ClaimsInv, Undisturbed, Settled, Ours, ToRelease, ToAdopt
  <2>6. QED
    BY <2>4, <2>5 DEF ClaimsInv
<1>2. ASSUME Change PROVE changes' \in 0 .. MaxChanges /\ m' = [m EXCEPT !.quiet = FALSE] /\ UNCHANGED cached
  BY <1>2, ClaimsAssumption DEF Change, ClaimsInv, TypeOK
<1>3. /\ job \in Job /\ job.uid <= job.uid /\ objs \in [Objects -> Object]
  BY SMTT(30) DEF ClaimsInv, TypeOK, Job, JobUID
<1>4. CASE changeJob
  <2>1. job' \in Job /\ job.uid <= job'.uid
    BY <1>3, <1>4, SMTT(30) DEF changeJob, Job, JobUID
  <2>2. job'.uid = job.uid /\ job.life # "live" => job'.life # "live"
    BY <1>3, <1>4, SMTT(30) DEF changeJob, Job, JobUID
  <2>3. QED
    BY <1>2, <1>3, <1>4, <2>1, <2>2, OtherStep, Zenon DEF changeJob
<1>5. ASSUME NEW o \in Objects, relabel(o) PROVE ClaimsInv'
  <2>1. objs' \in [Objects -> Object]
    BY <1>3, <1>5, ZenonT(60) DEF relabel, Object
  <2>2. QED
    BY <1>2, <1>3, <1>5, <2>1, OtherStep DEF relabel
<1>6. ASSUME NEW o \in Objects, reown(o) PROVE ClaimsInv'
  <2>1. objs' \in [Objects -> Object]
    BY <1>3, <1>6 DEF reown, Object
  <2>2. QED
    BY <1>2, <1>3, <1>6, <2>1, OtherStep DEF reown
<1>7. ASSUME NEW o \in Objects, changeObject(o) PROVE ClaimsInv'
  <2>1. objs' \in [Objects -> Object]
    BY <1>3, <1>7, SMTT(30) DEF changeObject, Object
  <2>2. QED
    BY <1>2, <1>3, <1>7, <2>1, OtherStep, Zenon DEF changeObject
<1>8. ASSUME NEW o \in Objects, collect(o) PROVE ClaimsInv'
  <2>1. objs' \in [Objects -> Object] /\ changes' \in 0 .. MaxChanges
    BY <1>3, <1>8 DEF collect, Object, ClaimsInv, TypeOK
  <2>2. QED
    BY <1>3, <1>8, <2>1, OtherStep DEF collect
<1>9. QED
  BY <1>1, <1>4, <1>5, <1>6, <1>7, <1>8 DEF Others

LEMMA ReturnStep == ClaimsInv /\ (ClaimServices \/ endSync) => ClaimsInv'
<1>1. ASSUME ClaimsInv, ClaimServices PROVE ClaimsInv'
  <2>1. /\ UNCHANGED <<job, cached, objs, changes>>
        /\ m.todo = {} /\ m.pc = "claim"
        /\ m' \in Manager /\ m'.pc = "done" /\ m'.uid = m.uid /\ m'.list = m.list
        /\ m'.todo = {} /\ m'.canAdopt = m.canAdopt /\ m'.err = m.err
        /\ m'.claimed = m.claimed /\ m'.late = m.late /\ m'.adopted = m.adopted
        /\ m'.quiet = m.quiet
    BY <1>1 DEF ClaimServices, ClaimsInv, TypeOK, Manager
  <2>2. TypeOK' /\ Adopting' /\ Open' /\ ClaimedIsOwned'
    BY <1>1, <2>1 DEF ClaimsInv, TypeOK, Adopting, Open, ClaimedIsOwned
  <2>3. JobKnown'
    BY <1>1, <2>1 DEF ClaimsInv, JobKnown, Live
  <2>4. \A x \in Objects : Settled(x)' <=> Settled(x)
    BY <2>1 DEF Settled, Ours, ToRelease, ToAdopt
  <2>5. Undisturbed'
    BY <1>1, <2>1, <2>4, SMTT(30) DEF ClaimsInv, Undisturbed
  <2>6. QED
    BY <2>2, <2>3, <2>5 DEF ClaimsInv
<1>2. ASSUME ClaimsInv, endSync PROVE ClaimsInv'
  <2>1. /\ UNCHANGED <<job, cached, objs, changes>> /\ m' = Idle
        /\ Idle.pc = "idle" /\ Idle.todo = {} /\ Idle.claimed = {}
    BY <1>2 DEF endSync, Idle
  <2>2. QED
    BY <1>2, <2>1, IdleTyped
       DEF ClaimsInv, TypeOK, JobKnown, Adopting, Open, Undisturbed, ClaimedIsOwned
<1>3. QED
  BY <1>1, <1>2

LEMMA ClaimsInit == Init => ClaimsInv
<1> SUFFICES ASSUME Init PROVE ClaimsInv
  OBVIOUS
<1>1. /\ m = Idle /\ Idle.pc = "idle" /\ Idle.todo = {} /\ Idle.claimed = {}
  BY DEF Init, Idle
<1>2. TypeOK
  BY IdleTyped, ClaimsAssumption, SMTT(30) DEF Init, TypeOK, Job, JobUID, Object
<1>3. cached.uid <= job.uid
  BY SMTT(30) DEF Init
<1>4. QED
  BY <1>1, <1>2, <1>3 DEF ClaimsInv, JobKnown, Adopting, Open, Undisturbed, ClaimedIsOwned

LEMMA ClaimsStep == ClaimsInv /\ [Next]_vars => ClaimsInv'
<1> SUFFICES ASSUME ClaimsInv, [Next]_vars PROVE ClaimsInv'
  OBVIOUS
<1>1. CASE UNCHANGED vars
  <2>1. UNCHANGED <<job, cached, objs, changes, m>>
    BY <1>1 DEF vars
  <2>2. \A x \in Objects : Settled(x)' <=> Settled(x)
    BY <2>1 DEF Settled, Ours, ToRelease, ToAdopt
  <2>3. Undisturbed'
    BY <2>1, <2>2 DEF ClaimsInv, Undisturbed
  <2>4. QED
    BY <2>1, <2>3, Zenon DEF ClaimsInv, TypeOK, JobKnown, Live, Adopting, ToAdopt, Open, ClaimedIsOwned
<1>2. CASE Others
  BY <1>2, OthersStep
<1>3. CASE ManagerStep
  <2>1. CASE AdoptService
    <3>1. PICK o \in Objects : o = m.obj
      BY DEF ClaimsInv, TypeOK, Manager
    <3>2. QED
      BY <2>1, <3>1, AdoptStep
  <2>2. ASSUME NEW o \in Objects, CanAdoptFails(o) PROVE ClaimsInv'
    BY <2>2, DeniedStep, Zenon DEF CanAdoptFails
  <2>3. QED
    BY <1>3, <2>1, <2>2, ListStep, PatchFailsStep, ReturnStep, ClaimOrIgnoreStep,
       ReleaseStep, CanAdoptStep DEF ManagerStep
<1>4. QED
  BY <1>1, <1>2, <1>3 DEF Next

LEMMA ClaimsInvariant == Spec => []ClaimsInv
  BY ClaimsInit, ClaimsStep, PTL DEF Spec

-----------------------------------------------------------------------------
\* The state of Claims is well-typed: the reference a sync looks for and
\* writes is the UID of a job of the name.
THEOREM TypeCorrect == Spec => []TypeOK
<1>1. ClaimsInv => TypeOK
  BY DEF ClaimsInv
<1>2. QED
  BY <1>1, ClaimsInvariant, PTL

\* A sync without errors or interference claims exactly what the job owns and
\* leaves no orphan that matches (ClaimServices, ClaimPods), for any number of
\* objects.
THEOREM ClaimsAreExact == Spec => []ClaimsExact
<1>1. ClaimsInv => ClaimsExact
  <2> SUFFICES ASSUME ClaimsInv, m.pc = "done", m.quiet, m.err = "nil",
                      NEW o \in Objects, objs[o].life # "gone"
               PROVE  /\ (o \in m.claimed) <=> (objs[o].owner = m.uid)
                      /\ objs[o].owner = m.uid => objs[o].match
                      /\ objs[o].owner = Nobody /\ objs[o].life = "live" => ~objs[o].match
    BY DEF ClaimsExact
  <2>1. o \notin m.todo /\ m.uid # Nobody /\ objs[o] \in Object /\ m.list[o] \in Object
    BY SMTT(30) DEF ClaimsInv, Open, TypeOK, Manager, JobUID, Nobody
  <2>2. /\ objs[o].match = m.list[o].match /\ objs[o].life = m.list[o].life
        /\ Settled(o)
    BY <2>1 DEF ClaimsInv, Undisturbed
  <2>3. (o \in m.claimed) <=> (objs[o].owner = m.uid)
    BY <2>1, <2>2 DEF Settled, Ours, ToRelease, Object
  <2>4. objs[o].owner = m.uid => objs[o].match
    BY <2>1, <2>2, Zenon DEF Settled, Ours, ToRelease, ToAdopt, Object
  <2>5. objs[o].owner = Nobody /\ objs[o].life = "live" => ~objs[o].match
    BY <2>1, <2>2, Zenon DEF Settled, Ours, ToRelease, ToAdopt, Object
  <2>6. QED
    BY <2>3, <2>4, <2>5
<1>2. QED
  BY <1>1, ClaimsInvariant, PTL

\* RecheckDeletionTimestamp: a sync that started when its job was deleted or
\* replaced adopts nothing.
THEOREM LateSyncsAdoptNothing == Spec => []LateAdoptsNothing
<1>1. ClaimsInv => LateAdoptsNothing
  BY DEF ClaimsInv, JobKnown, LateAdoptsNothing, Idle
<1>2. QED
  BY <1>1, ClaimsInvariant, PTL

\* What a sync counts as replicas was its own when listed or adopted by it.
THEOREM ClaimedObjectsAreOwned == Spec => []ClaimedIsOwned
<1>1. ClaimsInv => ClaimedIsOwned
  BY DEF ClaimsInv
<1>2. QED
  BY <1>1, ClaimsInvariant, PTL

\* AdoptService and ReleaseService never change an object of another
\* controller.
THEOREM ForeignObjectsUntouched == Spec => ForeignUntouched
<1>1. ClaimsInv /\ [Next]_vars => [ManagerStep => \A o \in Objects :
          objs[o].owner \notin {Nobody, m.uid} => objs'[o] = objs[o]]_vars
  <2> SUFFICES ASSUME ClaimsInv, ManagerStep, NEW o \in Objects,
                      objs[o].owner \notin {Nobody, m.uid}
               PROVE  objs'[o] = objs[o]
    OBVIOUS
  <2>1. /\ objs \in [Objects -> Object] /\ m.obj \in Objects /\ m.todo \subseteq Objects
    BY DEF ClaimsInv, TypeOK, Manager
  <2>2. CASE AdoptService
    BY <2>1, <2>2, Zenon DEF AdoptService, Object
  <2>3. CASE PatchFails
    BY <2>1, <2>3, ZenonT(60) DEF PatchFails, Object
  <2>4. ASSUME NEW x \in Objects, ReleaseService(x) PROVE objs'[o] = objs[o]
    BY <2>1, <2>4 DEF ReleaseService, Object
  <2>5. QED
    BY <2>2, <2>3, <2>4, Zenon DEF ManagerStep, getServicesForMXJob, ClaimServices, endSync,
       claimOrIgnore, CanAdopt, CanAdoptFails
<1>2. QED
  BY <1>1, ClaimsInvariant, PTL DEF Spec, ForeignUntouched
=============================================================================
