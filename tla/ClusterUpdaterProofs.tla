------------------------- MODULE ClusterUpdaterProofs -------------------------
(***************************************************************************)
(* For every set of clusters, fields, values, updaters and annotations:    *)
(* type correctness of ClusterUpdater, AcceptedCopyIsCurrent and           *)
(* AtomicMerge.                                                            *)
(***************************************************************************)
EXTENDS ClusterUpdater, TLAPS

\* The seconds a prover may take for a step.
USE SMTT(30), ZenonT(30)

\* The inductive invariant.  A copy that has the current resource version is
\* the current object: with the updater's changes while it is about to be
\* PUT, as it is after a PUT that changed nothing or was not needed.  An
\* updater inside a failed or unfinished call has something to write, and one
\* that failed fetches a fresh copy before it writes again.
CopyOK(u) ==
  LET c == upd[u].name
  IN  /\ upd[u].pc \in {"write", "ok"} => upd[u].rv <= api[c].rv
      /\ upd[u].pc \in {"write", "ok"} /\ upd[u].rv = api[c].rv
           => /\ api[c].live
              /\ upd[u].pc = "write"
                   => upd[u].obj = ApplyAnnotation(api[c].obj, upd[u].ann)
              /\ upd[u].pc = "ok" => upd[u].obj = api[c].obj
      /\ upd[u].pc = "err" => upd[u].needsResync
      /\ upd[u].pc \in {"write", "resync", "err"} => Touched(upd[u].ann) # {}

CopyInv == \A u \in Updaters : CopyOK(u)

\* An object with an annotation applied is an object.
LEMMA ApplyAnnotationType ==
  ASSUME NEW obj \in Object, NEW ann \in ClusterAnnotation
  PROVE  ApplyAnnotation(obj, ann) \in Object
BY DEF ApplyAnnotation, Object, ClusterAnnotation

\* A new updater is a well-typed updater.
LEMMA NewType ==
  ASSUME NEW c \in Clusters
  PROVE  New(c) \in Updater
BY DEF New, Updater, Nothing, Object, ClusterAnnotation

\* So is the record of an updater that is not in use.
LEMMA NoUpdaterType == NoUpdater \in Updater
<1>1. (CHOOSE c \in Clusters : TRUE) \in Clusters
  BY ClustersAssumption
<1>2. QED
  BY <1>1, NewType DEF NoUpdater

\* What the API server stores is well typed, moves no other object, and gives
\* the object a larger resource version exactly when it changes it.
LEMMA StoredFacts ==
  ASSUME TypeOK, NEW c \in Clusters, NEW live \in BOOLEAN, NEW obj \in Object,
         api' = Stored(c, live, obj)
  PROVE  /\ api' \in [Clusters -> [live : BOOLEAN, rv : Nat, obj : Object]]
         /\ \A d \in Clusters \ {c} : api'[d] = api[d]
         /\ api'[c].live = live /\ api'[c].obj = obj
         /\ api'[c].rv = api[c].rv + 1 \/ api'[c] = api[c]
BY DEF Stored, TypeOK

\* Entering update() keeps an updater well typed.
LEMMA EnteredType ==
  ASSUME NEW r \in Updater
  PROVE  Entered(r) \in Updater
<1>1. ApplyAnnotation(r.obj, r.ann) \in Object
  BY ApplyAnnotationType DEF Updater
<1>2. [r EXCEPT !.pc = "ok"] \in Updater
  BY DEF Updater
<1>3. [r EXCEPT !.pc = "resync", !.tries = 0, !.target = r.name] \in Updater
  BY ZenonT(60) DEF Updater
<1>4. [r EXCEPT !.pc = "write", !.tries = 0, !.target = r.name,
                !.obj = ApplyAnnotation(r.obj, r.ann)] \in Updater
  BY <1>1, ZenonT(60) DEF Updater
<1>5. QED
  BY <1>2, <1>3, <1>4 DEF Entered

\* A failed updater is well typed.
LEMMA FailedType ==
  ASSUME NEW r \in Updater
  PROVE  Failed(r) \in Updater
BY ZenonT(60) DEF Failed, Updater

\* What a failed call of update() leaves of an updater.
LEMMA FailedFacts ==
  ASSUME NEW r \in Updater
  PROVE  /\ Failed(r).pc = "err" /\ Failed(r).needsResync
         /\ Failed(r).name = r.name /\ Failed(r).rv = r.rv
         /\ Failed(r).obj = r.obj /\ Failed(r).ann = r.ann
BY DEF Failed, Updater

\* What entering update() leaves of an updater.
LEMMA EnteredFacts ==
  ASSUME NEW r \in Updater
  PROVE  /\ Entered(r).name = r.name
         /\ Entered(r).rv = r.rv
         /\ Entered(r).ann = r.ann
         /\ \/ /\ Entered(r).pc = "ok" /\ Touched(r.ann) = {}
               /\ Entered(r).obj = r.obj
            \/ Entered(r).pc = "resync" /\ Touched(r.ann) # {}
            \/ /\ Entered(r).pc = "write" /\ Touched(r.ann) # {} /\ ~r.needsResync
               /\ Entered(r).obj = ApplyAnnotation(r.obj, r.ann)
BY DEF Entered, Updater

\* Init establishes the invariant.
LEMMA InitInv == Init => TypeOK /\ CopyInv
<1> SUFFICES ASSUME Init PROVE TypeOK /\ CopyInv
  OBVIOUS
<1>1. TypeOK
  BY NoUpdaterType DEF Init, TypeOK
<1>2. \A u \in Updaters : upd[u].pc = "free"
  BY DEF Init, NoUpdater, New
<1>3. CopyInv
  BY <1>2 DEF CopyInv, CopyOK
<1>4. QED
  BY <1>1, <1>3

\* Every step keeps the types.
LEMMA NextType == TypeOK /\ [Step(ClusterAnnotation)]_vars => TypeOK'
<1> SUFFICES ASSUME TypeOK, [Step(ClusterAnnotation)]_vars PROVE TypeOK'
  OBVIOUS
<1> USE DEF TypeOK
<1>1. ASSUME NEW u \in Updaters, NEW c \in Clusters, NEW rv \in 0 .. api[c].rv,
             NEW obj \in Object, NEW ann \in ClusterAnnotation, Start(u, c, rv, obj, ann)
      PROVE  TypeOK'
  <2>1. [New(c) EXCEPT !.rv = rv, !.obj = obj, !.ann = ann] \in Updater
    <3>1. rv \in Nat /\ ann \in ClusterAnnotation /\ New(c) \in Updater
      BY NewType
    <3>2. QED
      BY <3>1, ZenonT(60) DEF Updater
  <2>2. QED
    BY <1>1, <2>1, EnteredType DEF Start
<1>2. ASSUME NEW S \in SUBSET Updaters, NEW c \in Clusters, Alias(S, c)
      PROVE  TypeOK'
  <2>1. \A u \in Updaters : [upd[u] EXCEPT !.name = c] \in Updater
    BY DEF Updater
  <2>2. QED
    BY <1>2, <2>1 DEF Alias
<1>3. ASSUME NEW u \in Updaters, NEW ann \in ClusterAnnotation, Reuse(u, ann)
      PROVE  TypeOK'
  <2>1. [upd[u] EXCEPT !.ann = ann, !.needsResync = FALSE] \in Updater
    BY ZenonT(60) DEF Updater
  <2>2. QED
    BY <1>3, <2>1, EnteredType DEF Reuse
<1>4. ASSUME NEW u \in Updaters, Retry(u)
      PROVE  TypeOK'
  BY <1>4, EnteredType DEF Retry
<1>5. ASSUME NEW u \in Updaters, Release(u)
      PROVE  TypeOK'
  BY <1>5, NoUpdaterType DEF Release
<1>6. ASSUME NEW u \in Updaters, Resync(u)
      PROVE  TypeOK'
  <2>1. ApplyAnnotation(api[upd[u].target].obj, upd[u].ann) \in Object
    BY ApplyAnnotationType DEF Updater
  <2>2. api[upd[u].target].rv \in Nat /\ upd[u].target \in Clusters
    BY DEF Updater
  <2>3. [upd[u] EXCEPT !.pc = "write", !.name = upd[u].target, !.own = TRUE,
                       !.rv = api[upd[u].target].rv, !.needsResync = FALSE,
                       !.obj = ApplyAnnotation(api[upd[u].target].obj, upd[u].ann)]
          \in Updater
    BY <2>1, <2>2, ZenonT(60) DEF Updater
  <2>4. QED
    BY <1>6, <2>3 DEF Resync
<1>7. ASSUME NEW u \in Updaters, ResyncFails(u)
      PROVE  TypeOK'
  BY <1>7, FailedType DEF ResyncFails
<1>8. ASSUME NEW u \in Updaters, Write(u) \/ WriteUnacknowledged(u)
      PROVE  TypeOK'
  <2>1. upd' \in [Updaters -> Updater]
    <3>1. [upd[u] EXCEPT !.pc = "ok", !.needsResync = FALSE] \in Updater
      BY ZenonT(60) DEF Updater
    <3>2. QED
      BY <1>8, <3>1, FailedType, ZenonT(60) DEF Write, WriteUnacknowledged
  <2>2. upd[u].name \in Clusters /\ upd[u].obj \in Object
    BY DEF Updater
  <2>3. api' = Stored(upd[u].name, TRUE, upd[u].obj)
    BY <1>8, ZenonT(60) DEF Write, WriteUnacknowledged
  <2>4. QED
    BY <2>1, <2>2, <2>3, StoredFacts, ZenonT(60)
<1>9. ASSUME NEW u \in Updaters, Conflict(u)
      PROVE  TypeOK'
  <2>1. upd[u].tries + 1 \in Nat
    BY DEF Updater
  <2>2. \A pc \in {"resync", "err"} :
          [upd[u] EXCEPT !.pc = pc, !.tries = upd[u].tries + 1, !.needsResync = TRUE]
            \in Updater
    BY <2>1, ZenonT(60) DEF Updater
  <2>3. QED
    BY <1>9, <2>2, ZenonT(60) DEF Conflict
<1>10. ASSUME NEW u \in Updaters, WriteFails(u)
       PROVE  TypeOK'
  BY <1>10, FailedType DEF WriteFails
<1>11. ASSUME NEW c \in Clusters, NEW live \in BOOLEAN, NEW obj \in Object,
              ForeignWrite(c, live, obj)
       PROVE  TypeOK'
  BY <1>11, StoredFacts DEF ForeignWrite
<1>12. CASE Restart
  BY <1>12, NoUpdaterType DEF Restart
<1>13. CASE UNCHANGED vars
  BY <1>13 DEF vars
<1>14. QED
  BY <1>1, <1>2, <1>3, <1>4, <1>5, <1>6, <1>7, <1>8, <1>9, <1>10, <1>11, <1>12,
     <1>13 DEF Step

\* A step of one updater that leaves the API server alone has to keep the
\* invariant of that updater only.
LEMMA LocalStep ==
  ASSUME TypeOK, CopyInv, NEW u \in Updaters, NEW r, UNCHANGED api,
         upd' = [upd EXCEPT ![u] = r], CopyOK(u)'
  PROVE  CopyInv'
<1> SUFFICES ASSUME NEW v \in Updaters, v # u PROVE CopyOK(v)'
  BY DEF CopyInv
<1>1. upd'[v] = upd[v]
  BY DEF TypeOK
<1>2. QED
  BY <1>1 DEF CopyInv, CopyOK

\* A change of the API server keeps the invariant of every updater that does
\* not move: the copies of the object that changed are out of date.
LEMMA StoreStep ==
  ASSUME TypeOK, CopyInv, NEW c \in Clusters, NEW live \in BOOLEAN, NEW obj \in Object,
         api' = Stored(c, live, obj), NEW v \in Updaters, upd'[v] = upd[v]
  PROVE  CopyOK(v)'
<1>1. upd[v].name \in Clusters /\ upd[v].rv \in Nat /\ api[upd[v].name].rv \in Nat
  BY DEF TypeOK, Updater
<1>2. CASE api'[upd[v].name] = api[upd[v].name]
  BY <1>2 DEF CopyInv, CopyOK
<1>3. CASE api'[upd[v].name].rv = api[upd[v].name].rv + 1
  BY <1>1, <1>3 DEF CopyInv, CopyOK
<1>4. \A d \in Clusters : api'[d] = api[d] \/ api'[d].rv = api[d].rv + 1
  BY StoredFacts
<1>5. QED
  BY <1>1, <1>2, <1>3, <1>4

\* Entering update() on a copy that is current if its version is.
LEMMA EnterStep ==
  ASSUME TypeOK, CopyInv, NEW u \in Updaters, NEW r \in Updater, UNCHANGED api,
         upd' = [upd EXCEPT ![u] = Entered(r)],
         \/ r.needsResync /\ Touched(r.ann) # {}
         \/ /\ ~r.needsResync
            /\ r.rv <= api[r.name].rv
            /\ r.rv = api[r.name].rv => api[r.name].live /\ r.obj = api[r.name].obj
  PROVE  CopyInv'
<1> SUFFICES CopyOK(u)'
  BY LocalStep, ZenonT(60)
<1>1. upd'[u] = Entered(r)
  BY DEF TypeOK
<1>2. Entered(r).name = r.name /\ Entered(r).rv = r.rv /\ Entered(r).ann = r.ann
  BY EnteredFacts
<1>3. CASE Entered(r).pc = "ok" /\ Entered(r).obj = r.obj /\ Touched(r.ann) = {}
  BY <1>1, <1>2, <1>3 DEF CopyOK
<1>4. CASE Entered(r).pc = "resync" /\ Touched(r.ann) # {}
  BY <1>1, <1>2, <1>4 DEF CopyOK
<1>5. CASE /\ Entered(r).pc = "write" /\ Touched(r.ann) # {} /\ ~r.needsResync
           /\ Entered(r).obj = ApplyAnnotation(r.obj, r.ann)
  BY <1>1, <1>2, <1>5 DEF CopyOK
<1>6. QED
  BY <1>3, <1>4, <1>5, EnteredFacts

\* Every step keeps the invariant.
LEMMA NextInv == TypeOK /\ CopyInv /\ [Step(ClusterAnnotation)]_vars => CopyInv'
<1> SUFFICES ASSUME TypeOK, CopyInv, [Step(ClusterAnnotation)]_vars PROVE CopyInv'
  OBVIOUS
<1>1. ASSUME NEW u \in Updaters, NEW c \in Clusters, NEW rv \in 0 .. api[c].rv,
             NEW obj \in Object, NEW ann \in ClusterAnnotation, Start(u, c, rv, obj, ann)
      PROVE  CopyInv'
  <2> DEFINE r == [New(c) EXCEPT !.rv = rv, !.obj = obj, !.ann = ann]
  <2>1. rv \in Nat /\ ann \in ClusterAnnotation /\ New(c) \in Updater
    BY NewType DEF TypeOK
  <2>2. r \in Updater /\ r.name = c /\ r.rv = rv /\ r.obj = obj /\ ~r.needsResync
    BY <2>1, ZenonT(60) DEF New, Updater
  <2>3. upd' = [upd EXCEPT ![u] = Entered(r)]
    BY <1>1 DEF Start
  <2>4. UNCHANGED api /\ rv <= api[c].rv
        /\ (rv = api[c].rv => api[c].live /\ obj = api[c].obj)
    BY <1>1 DEF Start
  <2> HIDE DEF r
  <2>5. QED
    BY <2>2, <2>3, <2>4, EnterStep, ZenonT(60)
<1>2. ASSUME NEW S \in SUBSET Updaters, NEW c \in Clusters, Alias(S, c)
      PROVE  CopyInv'
  <2> SUFFICES ASSUME NEW u \in Updaters PROVE CopyOK(u)'
    BY DEF CopyInv
  <2>1. CASE u \in S
    BY <1>2, <2>1, ZenonT(60) DEF Alias, CopyInv, CopyOK, TypeOK, Updater
  <2>2. CASE u \notin S
    BY <1>2, <2>2 DEF Alias, CopyInv, CopyOK
  <2>3. QED
    BY <2>1, <2>2
<1>3. ASSUME NEW u \in Updaters, NEW ann \in ClusterAnnotation, Reuse(u, ann)
      PROVE  CopyInv'
  <2> DEFINE r == [upd[u] EXCEPT !.ann = ann, !.needsResync = FALSE]
  <2>1. /\ r \in Updater /\ r.name = upd[u].name /\ r.rv = upd[u].rv
        /\ r.obj = upd[u].obj /\ ~r.needsResync
    BY ZenonT(60) DEF TypeOK, Updater
  <2>2. upd' = [upd EXCEPT ![u] = Entered(r)] /\ UNCHANGED api /\ upd[u].pc = "ok"
    BY <1>3 DEF Reuse
  <2> HIDE DEF r
  <2>3. r.rv <= api[r.name].rv
        /\ (r.rv = api[r.name].rv => api[r.name].live /\ r.obj = api[r.name].obj)
    BY <2>1, <2>2 DEF CopyInv, CopyOK
  <2>4. QED
    BY <2>1, <2>2, <2>3, EnterStep, ZenonT(60)
<1>4. ASSUME NEW u \in Updaters, Retry(u)
      PROVE  CopyInv'
  <2>1. upd[u] \in Updater /\ upd[u].needsResync /\ Touched(upd[u].ann) # {}
    BY <1>4 DEF Retry, CopyInv, CopyOK, TypeOK
  <2>2. QED
    BY <1>4, <2>1, EnterStep, ZenonT(60) DEF Retry
<1>5. ASSUME NEW u \in Updaters, Release(u)
      PROVE  CopyInv'
  <2>1. upd'[u].pc = "free"
    BY <1>5 DEF Release, NoUpdater, New, TypeOK
  <2>2. CopyOK(u)'
    BY <2>1 DEF CopyOK
  <2>3. QED
    BY <1>5, <2>2, LocalStep, ZenonT(60) DEF Release
<1>6. ASSUME NEW u \in Updaters, Resync(u)
      PROVE  CopyInv'
  <2> DEFINE c == upd[u].target
  <2>1. /\ upd'[u].name = c /\ upd'[u].pc = "write" /\ upd'[u].rv = api[c].rv
        /\ upd'[u].obj = ApplyAnnotation(api[c].obj, upd[u].ann)
        /\ upd'[u].ann = upd[u].ann /\ UNCHANGED api /\ api[c].live
    BY <1>6 DEF Resync, TypeOK, Updater
  <2>2. Touched(upd[u].ann) # {} /\ api[c].rv \in Nat
    BY <1>6 DEF Resync, CopyInv, CopyOK, TypeOK, Updater
  <2>3. CopyOK(u)'
    BY <2>1, <2>2 DEF CopyOK
  <2>4. QED
    BY <1>6, <2>3, LocalStep, ZenonT(60) DEF Resync
<1>7. ASSUME NEW u \in Updaters, ResyncFails(u) \/ WriteFails(u)
      PROVE  CopyInv'
  <2>1. upd' = [upd EXCEPT ![u] = Failed(upd[u])] /\ UNCHANGED api
    BY <1>7 DEF ResyncFails, WriteFails
  <2>2. upd'[u].pc = "err" /\ upd'[u].needsResync /\ upd'[u].ann = upd[u].ann
    BY <2>1, FailedFacts DEF TypeOK
  <2>3. Touched(upd[u].ann) # {}
    BY <1>7 DEF ResyncFails, WriteFails, CopyInv, CopyOK
  <2>4. CopyOK(u)'
    BY <2>2, <2>3 DEF CopyOK
  <2>5. QED
    BY <2>1, <2>4, LocalStep, ZenonT(60)
<1>8. ASSUME NEW u \in Updaters, Write(u) \/ WriteUnacknowledged(u)
      PROVE  CopyInv'
  <2> DEFINE c == upd[u].name
  <2>1. /\ c \in Clusters /\ upd[u].obj \in Object /\ TRUE \in BOOLEAN
        /\ upd[u].pc = "write" /\ upd[u].rv = api[c].rv /\ api[c].rv \in Nat
        /\ api' = Stored(c, TRUE, upd[u].obj)
    BY <1>8, ZenonT(60) DEF Write, WriteUnacknowledged, TypeOK, Updater
  <2>2. /\ api'[c].rv = api[c].rv + 1 \/ api'[c].rv = api[c].rv
        /\ api'[c].live /\ api'[c].obj = upd[u].obj
    BY <2>1 DEF Stored, TypeOK
  <2>3. /\ upd'[u].name = c /\ upd'[u].rv = upd[u].rv /\ upd'[u].obj = upd[u].obj
        /\ upd'[u].ann = upd[u].ann
        /\ upd'[u].pc = "ok" \/ (upd'[u].pc = "err" /\ upd'[u].needsResync)
    <3>1. CASE Write(u)
      BY <3>1 DEF Write, TypeOK, Updater
    <3>2. CASE WriteUnacknowledged(u)
      <4>1. upd'[u] = Failed(upd[u])
        BY <3>2 DEF WriteUnacknowledged, TypeOK
      <4>2. QED
        BY <4>1, FailedFacts DEF TypeOK
    <3>3. QED
      BY <1>8, <3>1, <3>2
  <2>4. Touched(upd[u].ann) # {}
    BY <2>1 DEF CopyInv, CopyOK
  <2>5. CopyOK(u)'
    <3>1. upd'[u].rv <= api'[upd'[u].name].rv
      <4>1. upd'[u].rv = api[c].rv /\ api[c].rv \in Nat
        BY <2>1, <2>3
      <4>2. api'[upd'[u].name].rv \in {api[c].rv, api[c].rv + 1}
        BY <2>2, <2>3
      <4> HIDE DEF c
      <4>3. QED
        BY <4>1, <4>2
    <3>2. api'[upd'[u].name].live /\ upd'[u].obj = api'[upd'[u].name].obj
      BY <2>2, <2>3
    <3>3. upd'[u].pc # "write" /\ (upd'[u].pc = "err" => upd'[u].needsResync)
          /\ Touched(upd'[u].ann) # {}
      BY <2>3, <2>4
    <3>4. QED
      BY <3>1, <3>2, <3>3 DEF CopyOK
  <2>6. ASSUME NEW v \in Updaters, v # u PROVE CopyOK(v)'
    <3>1. upd'[v] = upd[v]
      BY <1>8, <2>6, ZenonT(60) DEF Write, WriteUnacknowledged, TypeOK
    <3>2. QED
      BY <2>1, <3>1, StoreStep, ZenonT(60)
  <2>7. QED
    BY <2>5, <2>6 DEF CopyInv
<1>9. ASSUME NEW u \in Updaters, Conflict(u)
      PROVE  CopyInv'
  <2>1. /\ upd'[u].pc \in {"resync", "err"} /\ upd'[u].needsResync
        /\ upd'[u].ann = upd[u].ann
    BY <1>9 DEF Conflict, TypeOK, Updater
  <2>2. Touched(upd[u].ann) # {}
    BY <1>9 DEF Conflict, CopyInv, CopyOK
  <2>3. CopyOK(u)'
    BY <2>1, <2>2 DEF CopyOK
  <2>4. QED
    BY <1>9, <2>3, LocalStep, ZenonT(60) DEF Conflict
<1>10. ASSUME NEW c \in Clusters, NEW live \in BOOLEAN, NEW obj \in Object,
              ForeignWrite(c, live, obj)
       PROVE  CopyInv'
  BY <1>10, StoreStep DEF ForeignWrite, CopyInv
<1>11. CASE Restart
  <2>1. \A u \in Updaters : upd'[u].pc = "free"
    BY <1>11 DEF Restart, NoUpdater, New
  <2>2. QED
    BY <2>1 DEF CopyInv, CopyOK
<1>12. CASE UNCHANGED vars
  BY <1>12 DEF vars, CopyInv, CopyOK
<1>13. QED
  BY <1>1, <1>2, <1>3, <1>4, <1>5, <1>6, <1>7, <1>8, <1>9, <1>10, <1>11, <1>12
     DEF Step

\* Only its own PUT takes an updater out of "write" with success or together
\* with a change of the API server.
LEMMA OnlyPutWrites ==
  ASSUME TypeOK, [Step(ClusterAnnotation)]_vars, NEW u \in Updaters,
         upd[u].pc = "write", upd'[u].pc # "write", upd'[u].pc = "ok" \/ api' # api
  PROVE  Write(u) \/ WriteUnacknowledged(u)
<1>1. ASSUME NEW v \in Updaters, NEW r, upd[v].pc # "write",
             upd' = [upd EXCEPT ![v] = r]
      PROVE  FALSE
  BY <1>1 DEF TypeOK
<1>2. ASSUME NEW v \in Updaters, NEW r \in Updater, r.pc # "ok", UNCHANGED api,
             upd' = [upd EXCEPT ![v] = r]
      PROVE  FALSE
  BY <1>2 DEF TypeOK
<1>3. ASSUME NEW v \in Updaters, NEW c \in Clusters, NEW rv, NEW obj, NEW ann,
             Start(v, c, rv, obj, ann)
      PROVE  FALSE
  BY <1>1, <1>3 DEF Start
<1>4. ASSUME NEW S \in SUBSET Updaters, NEW c \in Clusters, Alias(S, c)
      PROVE  FALSE
  BY <1>4 DEF Alias
<1>5. ASSUME NEW v \in Updaters, NEW ann, Reuse(v, ann)
      PROVE  FALSE
  BY <1>1, <1>5 DEF Reuse
<1>6. ASSUME NEW v \in Updaters, Retry(v) \/ Release(v) \/ Resync(v)
      PROVE  FALSE
  BY <1>1, <1>6 DEF Retry, Release, Resync
<1>7. ASSUME NEW v \in Updaters, ResyncFails(v) \/ WriteFails(v)
      PROVE  FALSE
  <2>1. Failed(upd[v]) \in Updater /\ Failed(upd[v]).pc = "err"
    BY FailedType, FailedFacts DEF TypeOK
  <2>2. QED
    BY <1>2, <1>7, <2>1 DEF ResyncFails, WriteFails
<1>8. ASSUME NEW v \in Updaters, Conflict(v)
      PROVE  FALSE
  <2>1. upd'[v].pc # "ok" /\ UNCHANGED api
    BY <1>8 DEF Conflict, TypeOK, Updater
  <2>2. \A w \in Updaters \ {v} : upd'[w] = upd[w]
    BY <1>8 DEF Conflict, TypeOK
  <2>3. QED
    BY <2>1, <2>2
<1>9. ASSUME NEW v \in Updaters, Write(v) \/ WriteUnacknowledged(v)
      PROVE  v = u
  BY <1>9, ZenonT(60) DEF Write, WriteUnacknowledged, TypeOK
<1>10. ASSUME NEW c \in Clusters, NEW live, NEW obj, ForeignWrite(c, live, obj)
       PROVE  FALSE
  BY <1>10 DEF ForeignWrite
<1>11. CASE Restart
  BY <1>11 DEF Restart, NoUpdater, New
<1>12. CASE UNCHANGED vars
  BY <1>12 DEF vars
<1>13. QED
  BY <1>3, <1>4, <1>5, <1>6, <1>7, <1>8, <1>9, <1>10, <1>11, <1>12 DEF Step

\* The inductive invariant holds in every state, whatever changes are asked for.
THEOREM Inductive == AnySpec => [](TypeOK /\ CopyInv)
<1>1. Init => TypeOK /\ CopyInv
  BY InitInv
<1>2. TypeOK /\ CopyInv /\ [Step(ClusterAnnotation)]_vars => (TypeOK /\ CopyInv)'
  BY NextType, NextInv
<1>3. QED
  BY <1>1, <1>2, PTL DEF AnySpec

\* A system that asks for some changes only is one of those.
LEMMA SpecIsAny == Spec => AnySpec
<1>1. [Next]_vars => [Step(ClusterAnnotation)]_vars
  BY AnnotationsAssumption DEF Next, Step
<1>2. QED
  BY <1>1, PTL DEF Spec, AnySpec

\* An accepted copy is current, whatever changes are asked for.
LEMMA AnyAcceptedCopy == AnySpec => []AcceptedCopyIsCurrent
<1>1. CopyInv => AcceptedCopyIsCurrent
  BY DEF CopyInv, CopyOK, AcceptedCopyIsCurrent
<1>2. QED
  BY <1>1, Inductive, PTL

\* update() is atomic, whatever changes are asked for.
LEMMA AnyUpdateIsAtomic == AnySpec => AtomicMerge
<1> DEFINE Merges ==
      \A u \in Updaters :
        LET c == upd[u].name
        IN  upd[u].pc = "write" /\ upd'[u].pc # "write"
              /\ (upd'[u].pc = "ok" \/ api' # api)
            => /\ api'[c].obj = ApplyAnnotation(api[c].obj, upd[u].ann)
               /\ \A d \in Clusters \ {c} : api'[d] = api[d]
<1>1. TypeOK /\ CopyInv /\ [Step(ClusterAnnotation)]_vars => [Merges]_vars
  <2> SUFFICES ASSUME TypeOK, CopyInv, [Step(ClusterAnnotation)]_vars, NEW u \in Updaters,
                      upd[u].pc = "write", upd'[u].pc # "write",
                      upd'[u].pc = "ok" \/ api' # api
               PROVE  /\ api'[upd[u].name].obj
                           = ApplyAnnotation(api[upd[u].name].obj, upd[u].ann)
                      /\ \A d \in Clusters \ {upd[u].name} : api'[d] = api[d]
    OBVIOUS
  <2>1. /\ api' = Stored(upd[u].name, TRUE, upd[u].obj)
        /\ upd[u].rv = api[upd[u].name].rv
    BY OnlyPutWrites, ZenonT(60) DEF Write, WriteUnacknowledged
  <2>2. upd[u].obj = ApplyAnnotation(api[upd[u].name].obj, upd[u].ann)
    BY <2>1 DEF CopyInv, CopyOK
  <2>3. upd[u].name \in Clusters
    BY DEF TypeOK, Updater
  <2>4. /\ api'[upd[u].name].obj = upd[u].obj
        /\ \A d \in Clusters \ {upd[u].name} : api'[d] = api[d]
    BY <2>1, <2>3 DEF Stored, TypeOK
  <2>5. QED
    BY <2>2, <2>4
<1>2. QED
  BY <1>1, Inductive, PTL DEF AnySpec, AtomicMerge

\* The state of every behaviour has the right types.
THEOREM TypeCorrect == Spec => []TypeOK
BY SpecIsAny, Inductive, PTL

\* However many updaters and other clients interleave, a copy that update() is
\* about to PUT and that the API server would accept is the current object with
\* the updater's changes.
THEOREM AcceptedCopy == Spec => []AcceptedCopyIsCurrent
BY SpecIsAny, AnyAcceptedCopy, PTL

\* The GET, the merge and the PUT of update(), with retries after conflicts and
\* lost answers, behave as one atomic read-modify-write of the object.
THEOREM UpdateIsAtomic == Spec => AtomicMerge
BY SpecIsAny, AnyUpdateIsAtomic

=============================================================================
