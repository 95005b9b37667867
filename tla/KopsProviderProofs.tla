--------------------------- MODULE KopsProviderProofs ---------------------------
(***************************************************************************)
(* Proofs about KopsProvider, for every set of resources, texts and sizes, *)
(* every width of the counts and any number of calls and failures.  The    *)
(* last part shows that its calls, one by one, answer as the one-step       *)
(* operations of Providers do.                                             *)
(***************************************************************************)
EXTENDS KopsProvider, TLAPS

\* The seconds a prover may take for a step.
USE SMTT(30), ZenonT(30)

-----------------------------------------------------------------------------
(* Arithmetic of int32.                                                     *)

\* The remainder of a division.
LEMMA ModRange ==
  ASSUME NEW a \in Int, NEW m \in Nat \ {0}
  PROVE  a % m \in 0 .. (m - 1)
  OBVIOUS

\* A number below the divisor is its own remainder.
LEMMA ModSmall ==
  ASSUME NEW m \in Nat \ {0}, NEW a \in 0 .. (m - 1)
  PROVE  a % m = a
  OBVIOUS

\* The conversion int32() gives an int32.
LEMMA Int32Range ==
  ASSUME NEW n \in Int
  PROVE  Int32(n) \in MinInt .. MaxInt
  <1>1. (n - MinInt) % (2 * (MaxInt + 1)) \in 0 .. (2 * (MaxInt + 1) - 1)
    <2>1. n - MinInt \in Int
      BY MaxIntAssumption DEF MinInt
    <2>2. 2 * (MaxInt + 1) \in Nat \ {0}
      BY MaxIntAssumption
    <2> QED BY <2>1, <2>2, ModRange, ZenonT(60)
  <1> QED BY <1>1, MaxIntAssumption DEF Int32, MinInt

\* The conversion int32() keeps an int32.
LEMMA Int32Same ==
  ASSUME NEW n \in MinInt .. MaxInt
  PROVE  Int32(n) = n
  <1>1. n - MinInt \in 0 .. (2 * (MaxInt + 1) - 1)
    BY MaxIntAssumption DEF MinInt
  <1>2. 2 * (MaxInt + 1) \in Nat \ {0}
    BY MaxIntAssumption
  <1>3. (n - MinInt) % (2 * (MaxInt + 1)) = n - MinInt
    BY <1>1, <1>2, ModSmall
  <1> QED BY <1>3, MaxIntAssumption DEF Int32, MinInt

\* The new size of the group "nodes" is an int32 again.
LEMMA ScaledType ==
  ASSUME NEW n \in MinInt .. MaxInt, NEW by \in Int
  PROVE  Scaled(n, by) \in MinInt .. MaxInt
  <1>1. MinInt \in Int /\ MaxInt \in Int /\ 1 \in MinInt .. MaxInt
    BY MaxIntAssumption DEF MinInt
  <1>2. Int32(by) \in Int
    BY <1>1, Int32Range
  <1>3. n + Int32(by) \in Int
    BY <1>1, <1>2
  <1>4. Int32(n + Int32(by)) \in MinInt .. MaxInt
    BY <1>3, Int32Range
  <1> QED BY <1>1, <1>4 DEF Scaled

\* As long as nothing overflows, the size moves the way it was asked to.
LEMMA ScaledDirection ==
  ASSUME NEW n \in MinInt .. MaxInt, n >= 1,
         NEW by \in MinInt .. MaxInt, n + by \in MinInt .. MaxInt
  PROVE  (by > 0 => Scaled(n, by) >= n) /\ (by < 0 => Scaled(n, by) <= n)
  <1>1. Int32(by) = by /\ Int32(n + by) = n + by
    BY Int32Same
  <1>2. Scaled(n, by) = IF n + by < 1 THEN 1 ELSE n + by
    BY <1>1 DEF Scaled
  <1>3. MinInt \in Int /\ MaxInt \in Int
    BY MaxIntAssumption DEF MinInt
  <1> QED BY <1>2, <1>3

\* What a user writes becomes an int32.
LEMMA InstancesType ==
  ASSUME NEW text \in Texts
  PROVE  Instances(Number(text)) \in MinInt .. MaxInt
  <1>1. 1 \in MinInt .. MaxInt
    BY MaxIntAssumption DEF MinInt
  <1> QED BY <1>1, TextsAssumption, ZenonT(60) DEF Instances, Number

-----------------------------------------------------------------------------
(* The invariant.                                                           *)

\* Where a call is tells which operation it belongs to and what it has done.
Progress ==
  /\ call.pc = "idle" <=> call.op = "none"
  /\ call.pc \in {"create", "assign", "createCluster", "createMaster", "createNodes",
                  "addKey"} => call.op = "create"
  /\ call.pc \in {"apply", "run"} => call.op \in {"create", "scale"}
  /\ call.pc \in {"scale", "readGroup", "updateGroup"} => call.op = "scale"
  /\ call.pc = "deleteState" => resources = {}
  /\ call.pc = "addKey" => size = Instances(Number(call.text))
  /\ call.ann = "nodes" =>
       /\ call.op = "create" /\ call.pc \in {"apply", "run"}
       /\ size = Instances(Number(call.text))
  /\ answer.op # "none" => call.pc = "idle"
  /\ answer.op = "none" => answer.ann = "nothing"

IInv == TypeOK /\ Progress /\ NothingOrphaned /\ CountedIsRunning

-----------------------------------------------------------------------------
(* Its pieces.                                                              *)

\* A status is one of the five.
LEMMA StatusType == \A fs, res : Status(fs, res) \in Statuses
  BY DEF Status, Statuses

\* The answer of a call that ends, and the idle worker after it.
LEMMA ReturnType ==
  ASSUME call \in Call, NEW ok \in BOOLEAN, NEW ann \in {"nothing", "nodes", "ready"},
         NEW faulted \in BOOLEAN, Return(ok, ann, faulted)
  PROVE  call' \in Call /\ answer' \in Answer
  BY TextsAssumption, ZenonT(30) DEF Return, Call, Answer, Idle, Statuses

\* A call that goes on.
LEMMA GotoType ==
  ASSUME call \in Call, answer \in Answer, NEW pc, Goto(pc),
         pc \in {"idle", "create", "assign", "createCluster", "createMaster", "createNodes",
                "addKey", "apply", "run", "delete", "list", "deleteResources", "deleteState",
                "kubeconfig", "scale", "readGroup", "updateGroup"}
  PROVE  call' \in Call /\ answer' \in Answer
  BY DEF Goto, Call

\* A call that goes on, to a place where what Progress says of it holds.
LEMMA GotoProgress ==
  ASSUME call \in Call, NEW pc, Goto(pc), pc # "idle", call.op # "none",
         answer.op = "none", answer.ann = "nothing",
         pc \in {"create", "assign", "createCluster", "createMaster", "createNodes", "addKey"}
           => call.op = "create",
         pc \in {"apply", "run"} => call.op \in {"create", "scale"},
         pc \in {"scale", "readGroup", "updateGroup"} => call.op = "scale",
         pc = "deleteState" => resources' = {},
         pc = "addKey" => size' = Instances(Number(call.text)),
         call.ann = "nodes" => /\ call.op = "create" /\ pc \in {"apply", "run"}
                               /\ size' = Instances(Number(call.text))
  PROVE  Progress'
  <1>1. /\ call'.pc = pc /\ call'.op = call.op /\ call'.text = call.text
        /\ call'.ann = call.ann /\ answer' = answer
    BY DEF Goto, Call
  <1> QED BY <1>1 DEF Progress

\* A call that ends leaves nothing to be said of its progress.
LEMMA ReturnProgress ==
  ASSUME call.op # "none", NEW ok, NEW ann, NEW faulted, Return(ok, ann, faulted)
  PROVE  Progress'
  BY ZenonT(30) DEF Return, Progress, Idle

\* The number of failures stays within its bound.
LEMMA FaultType ==
  ASSUME faults \in 0 .. MaxFaults, Fault \/ NoFault
  PROVE  faults' \in 0 .. MaxFaults
  BY BoundsAssumption DEF Fault, NoFault

\* The sizes asked for are numbers.
LEMMA SizesType == \A by \in Sizes \cup {0} : by \in Int
  BY BoundsAssumption

\* A step of Create keeps the invariant.
LEMMA CreateKeeps == IInv /\ Create => IInv'
  <1> SUFFICES ASSUME IInv, Create PROVE IInv'
    OBVIOUS
  <1> USE DEF IInv, At, Stored, Cloud, Worker, Fails, Refuses
  <1>1. CASE UpReads
    <2>1. /\ call.op = "create" /\ call.ann # "nodes"
          /\ answer.op = "none" /\ answer.ann = "nothing"
      BY <1>1 DEF UpReads, Progress
    <2>2. TypeOK'
      BY <1>1, ReturnType, GotoType, FaultType, ZenonT(30) DEF UpReads, TypeOK
    <2>3. Progress'
      BY <1>1, <2>1, GotoProgress, ReturnProgress, ZenonT(30) DEF UpReads, TypeOK
    <2>4. NothingOrphaned' /\ CountedIsRunning'
      <3>1. NothingOrphaned'
        BY <1>1 DEF UpReads, NothingOrphaned, Complete, Progress
      <3>2. CountedIsRunning'
        BY <1>1 DEF UpReads, CountedIsRunning, Progress, TypeOK,
           Call, Answer, Return, Goto
      <3> QED BY <3>1, <3>2
    <2> QED BY <2>2, <2>3, <2>4
  <1>2. CASE UpAssigns
    <2>1. /\ call.op = "create" /\ call.ann # "nodes"
          /\ answer.op = "none" /\ answer.ann = "nothing"
      BY <1>2 DEF UpAssigns, Progress
    <2>2. TypeOK'
      BY <1>2, ReturnType, GotoType, FaultType, ZenonT(30) DEF UpAssigns, TypeOK
    <2>3. Progress'
      BY <1>2, <2>1, GotoProgress, ReturnProgress, ZenonT(30) DEF UpAssigns, TypeOK
    <2>4. NothingOrphaned' /\ CountedIsRunning'
      <3>1. NothingOrphaned'
        BY <1>2 DEF UpAssigns, NothingOrphaned, Complete, Progress
      <3>2. CountedIsRunning'
        BY <1>2 DEF UpAssigns, CountedIsRunning, Progress, TypeOK,
           Call, Answer, Return, Goto
      <3> QED BY <3>1, <3>2
    <2> QED BY <2>2, <2>3, <2>4
  <1>3. CASE UpCreatesCluster
    <2>1. /\ call.op = "create" /\ call.ann # "nodes"
          /\ answer.op = "none" /\ answer.ann = "nothing"
      BY <1>3 DEF UpCreatesCluster, Progress
    <2>2. TypeOK'
      BY <1>3, ReturnType, GotoType, FaultType, ZenonT(30)
         DEF UpCreatesCluster, Creates, TypeOK, Files
    <2>3. Progress'
      BY <1>3, <2>1, GotoProgress, ReturnProgress, ZenonT(30)
         DEF UpCreatesCluster, Creates, TypeOK
    <2>4. NothingOrphaned' /\ CountedIsRunning'
      <3>1. NothingOrphaned'
        BY <1>3, ZenonT(30) DEF UpCreatesCluster, Creates, NothingOrphaned, Complete, Progress
      <3>2. CountedIsRunning'
        BY <1>3 DEF UpCreatesCluster, Creates, CountedIsRunning, Progress, TypeOK,
           Call, Answer, Return, Goto
      <3> QED BY <3>1, <3>2
    <2> QED BY <2>2, <2>3, <2>4
  <1>4. CASE UpCreatesMaster
    <2>1. /\ call.op = "create" /\ call.ann # "nodes"
          /\ answer.op = "none" /\ answer.ann = "nothing"
      BY <1>4 DEF UpCreatesMaster, Progress
    <2>2. TypeOK'
      BY <1>4, ReturnType, GotoType, FaultType, ZenonT(30)
         DEF UpCreatesMaster, Creates, TypeOK, Files
    <2>3. Progress'
      BY <1>4, <2>1, GotoProgress, ReturnProgress, ZenonT(30)
         DEF UpCreatesMaster, Creates, TypeOK
    <2>4. NothingOrphaned' /\ CountedIsRunning'
      <3>1. NothingOrphaned'
        BY <1>4, ZenonT(30) DEF UpCreatesMaster, Creates, NothingOrphaned, Complete, Progress
      <3>2. CountedIsRunning'
        BY <1>4 DEF UpCreatesMaster, Creates, CountedIsRunning, Progress, TypeOK,
           Call, Answer, Return, Goto
      <3> QED BY <3>1, <3>2
    <2> QED BY <2>2, <2>3, <2>4
  <1>5. CASE UpCreatesNodes
    <2>1. /\ call.op = "create" /\ call.ann # "nodes"
          /\ answer.op = "none" /\ answer.ann = "nothing"
      BY <1>5 DEF UpCreatesNodes, Progress
    <2>5. size' \in MinInt .. MaxInt
      BY <1>5, InstancesType DEF UpCreatesNodes, TypeOK, Call
    <2>2. TypeOK'
      BY <1>5, <2>5, ReturnType, GotoType, FaultType, ZenonT(30)
         DEF UpCreatesNodes, Creates, TypeOK, Files
    <2>3. Progress'
      BY <1>5, <2>1, GotoProgress, ReturnProgress, ZenonT(30)
         DEF UpCreatesNodes, Creates, TypeOK
    <2>4. NothingOrphaned' /\ CountedIsRunning'
      <3>1. NothingOrphaned'
        BY <1>5, ZenonT(30) DEF UpCreatesNodes, Creates, NothingOrphaned, Complete, Progress
      <3>2. CountedIsRunning'
        BY <1>5 DEF UpCreatesNodes, Creates, CountedIsRunning, Progress, TypeOK,
           Call, Answer, Return, Goto
      <3> QED BY <3>1, <3>2
    <2> QED BY <2>2, <2>3, <2>4
  <1>6. CASE UpAddsKey
    <2>1. /\ call.op = "create" /\ call.ann # "nodes"
          /\ size = Instances(Number(call.text))
          /\ answer.op = "none" /\ answer.ann = "nothing"
      BY <1>6 DEF UpAddsKey, Progress
    <2>5. ASSUME call' = [call EXCEPT !.pc = "apply", !.ann = "nodes"], UNCHANGED answer
          PROVE  /\ call' \in Call /\ answer' \in Answer
                 /\ call'.pc = "apply" /\ call'.op = "create" /\ call'.text = call.text
      BY <2>1, <2>5, ZenonT(30) DEF TypeOK, Call
    <2>2. TypeOK'
      BY <1>6, <2>5, ReturnType, GotoType, FaultType, ZenonT(30) DEF UpAddsKey, TypeOK, Files
    <2>3. Progress'
      <3>1. CASE call' = [call EXCEPT !.pc = "apply", !.ann = "nodes"] /\ UNCHANGED answer
        BY <1>6, <2>1, <2>5, <3>1 DEF UpAddsKey, Progress
      <3>2. CASE Fails
        BY <2>1, <3>2, ReturnProgress, ZenonT(30)
      <3> QED BY <1>6, <3>1, <3>2, ZenonT(60) DEF UpAddsKey
    <2>4. NothingOrphaned' /\ CountedIsRunning'
      <3>1. NothingOrphaned'
        BY <1>6, ZenonT(30) DEF UpAddsKey, NothingOrphaned, Complete, Progress
      <3>2. CountedIsRunning'
        BY <1>6 DEF UpAddsKey, CountedIsRunning, Progress, TypeOK,
           Call, Answer, Return, Goto
      <3> QED BY <3>1, <3>2
    <2> QED BY <2>2, <2>3, <2>4
  <1> QED BY <1>1, <1>2, <1>3, <1>4, <1>5, <1>6 DEF Create

\* A step of Apply keeps the invariant.
LEMMA ApplyKeeps == IInv /\ Apply => IInv'
  <1> SUFFICES ASSUME IInv, Apply PROVE IInv'
    OBVIOUS
  <1> USE DEF IInv, At, Stored, Cloud, Worker, Fails, Refuses
  <1>1. CASE ApplyReads
    <2>1. /\ call.op \in {"create", "scale"}
          /\ call.ann = "nodes" => call.op = "create" /\ size = Instances(Number(call.text))
          /\ answer.op = "none" /\ answer.ann = "nothing"
      BY <1>1 DEF ApplyReads, Progress
    <2>2. TypeOK'
      BY <1>1, ReturnType, GotoType, FaultType, ZenonT(30) DEF ApplyReads, TypeOK
    <2>3. Progress'
      BY <1>1, <2>1, GotoProgress, ReturnProgress, ZenonT(30) DEF ApplyReads, TypeOK
    <2>4. NothingOrphaned' /\ CountedIsRunning'
      <3>1. NothingOrphaned'
        BY <1>1 DEF ApplyReads, NothingOrphaned, Complete, Progress
      <3>2. CountedIsRunning'
        BY <1>1 DEF ApplyReads, CountedIsRunning, Progress, TypeOK,
           Call, Answer, Return, Goto
      <3> QED BY <3>1, <3>2
    <2> QED BY <2>2, <2>3, <2>4
  <1>2. CASE ApplyRuns
    <2>1. /\ call.op \in {"create", "scale"}
          /\ call.ann = "nodes" => call.op = "create" /\ size = Instances(Number(call.text))
          /\ answer.op = "none" /\ answer.ann = "nothing"
      BY <1>2 DEF ApplyRuns, Progress
    <2>5. (IF call.op = "scale" THEN "nodes" ELSE call.ann) \in {"nothing", "nodes", "ready"}
      BY DEF TypeOK, Call
    <2>2. TypeOK'
      BY <1>2, <2>5, ReturnType, GotoType, FaultType, ZenonT(30) DEF ApplyRuns, TypeOK
    <2>3. Progress'
      BY <1>2, <2>1, GotoProgress, ReturnProgress, ZenonT(30) DEF ApplyRuns, TypeOK
    <2>4. NothingOrphaned' /\ CountedIsRunning'
      <3>1. NothingOrphaned'
        BY <1>2, ZenonT(30) DEF ApplyRuns, NothingOrphaned, Complete, Progress
      <3>2. CountedIsRunning'
        BY <1>2 DEF ApplyRuns, CountedIsRunning, Progress, TypeOK,
           Call, Answer, Return, Goto
      <3> QED BY <3>1, <3>2
    <2> QED BY <2>2, <2>3, <2>4
  <1> QED BY <1>1, <1>2 DEF Apply

\* A step of Delete keeps the invariant.
LEMMA DeleteKeeps == IInv /\ Delete => IInv'
  <1> SUFFICES ASSUME IInv, Delete PROVE IInv'
    OBVIOUS
  <1> USE DEF IInv, At, Stored, Cloud, Worker, Fails, Refuses
  <1>1. CASE DeleteReads
    <2>1. /\ call.op # "none" /\ call.ann # "nodes"
          /\ answer.op = "none" /\ answer.ann = "nothing"
      BY <1>1 DEF DeleteReads, Progress
    <2>2. TypeOK'
      BY <1>1, ReturnType, GotoType, FaultType, ZenonT(30) DEF DeleteReads, TypeOK
    <2>3. Progress'
      BY <1>1, <2>1, GotoProgress, ReturnProgress, ZenonT(30) DEF DeleteReads, TypeOK
    <2>4. NothingOrphaned' /\ CountedIsRunning'
      <3>1. NothingOrphaned'
        BY <1>1 DEF DeleteReads, NothingOrphaned, Complete, Progress
      <3>2. CountedIsRunning'
        BY <1>1 DEF DeleteReads, CountedIsRunning, Progress, TypeOK,
           Call, Answer, Return, Goto
      <3> QED BY <3>1, <3>2
    <2> QED BY <2>2, <2>3, <2>4
  <1>2. CASE DeleteLists
    <2>1. /\ call.op # "none" /\ call.ann # "nodes"
          /\ answer.op = "none" /\ answer.ann = "nothing"
      BY <1>2 DEF DeleteLists, Progress
    <2>2. TypeOK'
      BY <1>2, ReturnType, GotoType, FaultType, ZenonT(30) DEF DeleteLists, TypeOK
    <2>3. Progress'
      BY <1>2, <2>1, GotoProgress, ReturnProgress, ZenonT(30) DEF DeleteLists, TypeOK
    <2>4. NothingOrphaned' /\ CountedIsRunning'
      <3>1. NothingOrphaned'
        BY <1>2 DEF DeleteLists, NothingOrphaned, Complete, Progress
      <3>2. CountedIsRunning'
        BY <1>2 DEF DeleteLists, CountedIsRunning, Progress, TypeOK,
           Call, Answer, Return, Goto
      <3> QED BY <3>1, <3>2
    <2> QED BY <2>2, <2>3, <2>4
  <1>3. CASE DeleteResources
    <2>1. /\ call.op # "none" /\ call.ann # "nodes"
          /\ answer.op = "none" /\ answer.ann = "nothing"
      BY <1>3 DEF DeleteResources, Progress
    <2>2. TypeOK'
      BY <1>3, ReturnType, GotoType, FaultType, ZenonT(30) DEF DeleteResources, TypeOK
    <2>3. Progress'
      BY <1>3, <2>1, GotoProgress, ReturnProgress, ZenonT(30) DEF DeleteResources, TypeOK
    <2>4. NothingOrphaned' /\ CountedIsRunning'
      <3>1. NothingOrphaned'
        BY <1>3, ZenonT(30) DEF DeleteResources, NothingOrphaned, Complete, Progress
      <3>2. CountedIsRunning'
        BY <1>3 DEF DeleteResources, CountedIsRunning, Progress, TypeOK,
           Call, Answer, Return, Goto
      <3> QED BY <3>1, <3>2
    <2> QED BY <2>2, <2>3, <2>4
  <1>4. CASE DeleteState
    <2>1. /\ call.op # "none" /\ call.ann # "nodes" /\ resources = {}
          /\ answer.op = "none" /\ answer.ann = "nothing"
      BY <1>4 DEF DeleteState, Progress
    <2>2. TypeOK'
      BY <1>4, ReturnType, GotoType, FaultType, ZenonT(30) DEF DeleteState, TypeOK
    <2>3. Progress'
      BY <1>4, <2>1, GotoProgress, ReturnProgress, ZenonT(30) DEF DeleteState, TypeOK
    <2>4. NothingOrphaned' /\ CountedIsRunning'
      <3>1. NothingOrphaned'
        BY <1>4 DEF DeleteState, NothingOrphaned, Complete, Progress
      <3>2. CountedIsRunning'
        BY <1>4 DEF DeleteState, CountedIsRunning, Progress, TypeOK,
           Call, Answer, Return, Goto
      <3> QED BY <3>1, <3>2
    <2> QED BY <2>2, <2>3, <2>4
  <1>5. CASE DeleteKubeConfig
    <2>1. /\ call.op # "none" /\ call.ann # "nodes"
          /\ answer.op = "none" /\ answer.ann = "nothing"
      BY <1>5 DEF DeleteKubeConfig, Progress
    <2>2. TypeOK'
      BY <1>5, ReturnType, GotoType, FaultType, ZenonT(30) DEF DeleteKubeConfig, TypeOK
    <2>3. Progress'
      BY <1>5, <2>1, GotoProgress, ReturnProgress, ZenonT(30) DEF DeleteKubeConfig, TypeOK
    <2>4. NothingOrphaned' /\ CountedIsRunning'
      <3>1. NothingOrphaned'
        BY <1>5 DEF DeleteKubeConfig, NothingOrphaned, Complete, Progress
      <3>2. CountedIsRunning'
        BY <1>5 DEF DeleteKubeConfig, CountedIsRunning, Progress, TypeOK,
           Call, Answer, Return, Goto
      <3> QED BY <3>1, <3>2
    <2> QED BY <2>2, <2>3, <2>4
  <1> QED BY <1>1, <1>2, <1>3, <1>4, <1>5 DEF Delete

\* A step of Scale keeps the invariant.
LEMMA ScaleKeeps == IInv /\ Scale => IInv'
  <1> SUFFICES ASSUME IInv, Scale PROVE IInv'
    OBVIOUS
  <1> USE DEF IInv, At, Stored, Cloud, Worker, Fails, Refuses
  <1>1. CASE ScaleReads
    <2>1. /\ call.op = "scale" /\ call.ann # "nodes"
          /\ answer.op = "none" /\ answer.ann = "nothing"
      BY <1>1 DEF ScaleReads, Progress
    <2>2. TypeOK'
      BY <1>1, ReturnType, GotoType, FaultType, ZenonT(30) DEF ScaleReads, TypeOK
    <2>3. Progress'
      BY <1>1, <2>1, GotoProgress, ReturnProgress, ZenonT(30) DEF ScaleReads, TypeOK
    <2>4. NothingOrphaned' /\ CountedIsRunning'
      <3>1. NothingOrphaned'
        BY <1>1 DEF ScaleReads, NothingOrphaned, Complete, Progress
      <3>2. CountedIsRunning'
        BY <1>1 DEF ScaleReads, CountedIsRunning, Progress, TypeOK,
           Call, Answer, Return, Goto
      <3> QED BY <3>1, <3>2
    <2> QED BY <2>2, <2>3, <2>4
  <1>2. CASE ScaleReadsGroup
    <2>1. /\ call.op = "scale" /\ call.ann # "nodes"
          /\ answer.op = "none" /\ answer.ann = "nothing"
      BY <1>2 DEF ScaleReadsGroup, Progress
    <2>2. TypeOK'
      BY <1>2, ReturnType, GotoType, FaultType, ZenonT(30) DEF ScaleReadsGroup, TypeOK
    <2>3. Progress'
      BY <1>2, <2>1, GotoProgress, ReturnProgress, ZenonT(30) DEF ScaleReadsGroup, TypeOK
    <2>4. NothingOrphaned' /\ CountedIsRunning'
      <3>1. NothingOrphaned'
        BY <1>2 DEF ScaleReadsGroup, NothingOrphaned, Complete, Progress
      <3>2. CountedIsRunning'
        BY <1>2 DEF ScaleReadsGroup, CountedIsRunning, Progress, TypeOK,
           Call, Answer, Return, Goto
      <3> QED BY <3>1, <3>2
    <2> QED BY <2>2, <2>3, <2>4
  <1>3. CASE ScaleUpdatesGroup
    <2>1. /\ call.op = "scale" /\ call.ann # "nodes"
          /\ answer.op = "none" /\ answer.ann = "nothing"
      BY <1>3 DEF ScaleUpdatesGroup, Progress
    <2>5. size' \in MinInt .. MaxInt
      <3>1. call.by \in Sizes \cup {0}
        BY DEF TypeOK, Call
      <3>2. call.by \in Int
        BY <3>1, SizesType
      <3>3. size \in MinInt .. MaxInt
        BY DEF TypeOK
      <3> QED BY <1>3, <3>2, <3>3, ScaledType, ZenonT(60) DEF ScaleUpdatesGroup
    <2>2. TypeOK'
      BY <1>3, <2>5, ReturnType, GotoType, FaultType, ZenonT(30) DEF ScaleUpdatesGroup, TypeOK
    <2>3. Progress'
      BY <1>3, <2>1, GotoProgress, ReturnProgress, ZenonT(30) DEF ScaleUpdatesGroup, TypeOK
    <2>4. NothingOrphaned' /\ CountedIsRunning'
      <3>1. NothingOrphaned'
        BY <1>3 DEF ScaleUpdatesGroup, NothingOrphaned, Complete, Progress
      <3>2. CountedIsRunning'
        BY <1>3 DEF ScaleUpdatesGroup, CountedIsRunning, Progress, TypeOK,
           Call, Answer, Return, Goto
      <3> QED BY <3>1, <3>2
    <2> QED BY <2>2, <2>3, <2>4
  <1> QED BY <1>1, <1>2, <1>3 DEF Scale

\* A call that begins keeps the invariant.
LEMMA BeginsKeeps ==
  ASSUME IInv, NEW op \in {"create", "delete", "scale"}, NEW text \in Texts,
         NEW key \in BOOLEAN, NEW by \in Sizes \cup {0}, Begins(op, text, key, by)
  PROVE  IInv'
  <1>1. /\ call' = [op |-> op, pc |-> op, text |-> text, key |-> key, by |-> by,
                    ann |-> "nothing", from |-> Status(files, resources)]
        /\ answer' = NoAnswer
    BY ZenonT(30) DEF Begins, Idle
  <1>2. call' \in Call /\ answer' \in Answer
    BY <1>1, StatusType, TextsAssumption, ZenonT(30) DEF Call, Answer, NoAnswer, Statuses
  <1>3. TypeOK'
    BY <1>2, BoundsAssumption DEF IInv, Begins, TypeOK
  <1>4. Progress'
    BY <1>1, ZenonT(30) DEF Progress, NoAnswer
  <1>5. NothingOrphaned'
    BY DEF IInv, Begins, NothingOrphaned, Complete
  <1>6. CountedIsRunning'
    BY <1>1, ZenonT(30) DEF CountedIsRunning, NoAnswer
  <1> QED BY <1>3, <1>4, <1>5, <1>6 DEF IInv

\* The reconcile loop changes nothing the invariant is about, the end of the process only
\* forgets the call.
LEMMA LookKeeps == IInv /\ (Look \/ Crash) => IInv'
  <1> SUFFICES ASSUME IInv, Look \/ Crash PROVE IInv'
    OBVIOUS
  <1> USE DEF IInv
  <1>1. CASE Ends /\ (Fault \/ NoFault)
    <2>1. call' \in Call /\ answer' \in Answer
      BY <1>1, TextsAssumption, ZenonT(30) DEF Ends, Call, Answer, Idle, NoAnswer, Statuses
    <2>2. TypeOK'
      BY <1>1, <2>1, FaultType DEF Ends, TypeOK, Resting
    <2>3. Progress' /\ NothingOrphaned' /\ CountedIsRunning'
      BY <1>1, ZenonT(30)
         DEF Ends, Progress, NothingOrphaned, Complete, CountedIsRunning, Idle, NoAnswer
    <2> QED BY <2>2, <2>3
  <1>2. CASE /\ Looks /\ (Fault \/ NoFault)
             /\ look' \in [op : {"none", "validate", "export"}, pc : {"idle", "read", "export"}]
    <2>1. TypeOK'
      BY <1>2, FaultType DEF Looks, TypeOK
    <2>2. Progress' /\ NothingOrphaned' /\ CountedIsRunning'
      BY <1>2 DEF Looks, Progress, NothingOrphaned, Complete, CountedIsRunning
    <2> QED BY <2>1, <2>2
  <1>3. CASE \E op \in {"validate", "export"} : LookBegins(op)
    BY <1>2, <1>3 DEF LookBegins
  <1>4. CASE LookReads
    BY <1>2, <1>4 DEF LookReads, Resting, TypeOK
  <1>5. CASE LookExports
    BY <1>2, <1>5 DEF LookExports, Resting
  <1> QED BY <1>1, <1>3, <1>4, <1>5 DEF Look, Crash, LookPanics

\* The invariant holds at the start,
LEMMA InvInit == Init => IInv
  <1> SUFFICES ASSUME Init PROVE IInv
    OBVIOUS
  <1>1. call \in Call /\ answer \in Answer
    BY TextsAssumption, ZenonT(30) DEF Init, Call, Answer, Idle, NoAnswer, Statuses
  <1>2. 0 \in MinInt .. MaxInt
    BY MaxIntAssumption DEF MinInt
  <1>3. TypeOK
    BY <1>1, <1>2, BoundsAssumption DEF Init, TypeOK, Resting
  <1> QED BY <1>3, ZenonT(60) DEF Init, IInv, Progress, NothingOrphaned, CountedIsRunning,
      Idle, NoAnswer

\* and every step keeps it.
LEMMA InvNext == IInv /\ [Next]_vars => IInv'
  <1> SUFFICES ASSUME IInv, [Next]_vars PROVE IInv'
    OBVIOUS
  <1>1. CASE \E text \in Texts, key \in BOOLEAN : Begins("create", text, key, 0)
    BY <1>1, BeginsKeeps
  <1>2. CASE Begins("delete", "", FALSE, 0)
    BY <1>2, BeginsKeeps, TextsAssumption, ZenonT(30)
  <1>3. CASE \E by \in Sizes : Begins("scale", "", FALSE, by)
    BY <1>3, BeginsKeeps, TextsAssumption, ZenonT(30)
  <1>4. CASE UNCHANGED vars
    BY <1>4 DEF IInv, TypeOK, Progress, NothingOrphaned, Complete, CountedIsRunning, vars
  <1> QED BY <1>1, <1>2, <1>3, <1>4, CreateKeeps, ApplyKeeps, DeleteKeeps, ScaleKeeps,
             LookKeeps, ZenonT(60) DEF Next

-----------------------------------------------------------------------------
(* The theorems.                                                            *)

\* The variables of the kops provider keep their types, and every size it stores or hands
\* to AWS is an int32.
THEOREM KopsTypes == Spec => []TypeOK
  <1>1. IInv => TypeOK
    BY DEF IInv
  <1> QED BY <1>1, InvInit, InvNext, PTL DEF Spec

\* DeleteKubeCluster() and up() never leave resources in AWS without the configuration
\* they are found by, whatever fails and wherever the process ends.
THEOREM KopsOrphans == Spec => []NothingOrphaned
  <1>1. IInv => NothingOrphaned
    BY DEF IInv
  <1> QED BY <1>1, InvInit, InvNext, PTL DEF Spec

\* A node count that CreateKubeCluster() or ScaleKubeCluster() reports is the one AWS was
\* given, and all the resources exist.
THEOREM KopsCounts == Spec => []CountedIsRunning
  <1>1. IInv => CountedIsRunning
    BY DEF IInv
  <1> QED BY <1>1, InvInit, InvNext, PTL DEF Spec

\* While a scale is under way the size of the group changes in one place only.
LEMMA ScaleStep ==
  ASSUME IInv, Next, call.op = "scale"
  PROVE  size' = size \/ size' = Scaled(size, call.by)
  <1>1. call.pc \notin {"idle", "createNodes"}
    BY DEF IInv, Progress
  <1>2. ~ \E op, text, key, by : Begins(op, text, key, by)
    BY <1>1, ZenonT(30) DEF Begins, At
  <1>3. CASE Create
    BY <1>1, <1>3 DEF Create, UpReads, UpAssigns, UpCreatesCluster, UpCreatesMaster,
       UpCreatesNodes, UpAddsKey, At, Stored
  <1>4. CASE Apply
    BY <1>4, ZenonT(30) DEF Apply, ApplyReads, ApplyRuns, Stored
  <1>5. CASE Delete
    BY <1>5, ZenonT(30) DEF Delete, DeleteReads, DeleteLists, DeleteResources, DeleteState,
       DeleteKubeConfig, Stored
  <1>6. CASE Scale
    BY <1>6, ZenonT(30) DEF Scale, ScaleReads, ScaleReadsGroup, ScaleUpdatesGroup, Stored
  <1>7. CASE Look \/ Crash
    BY <1>7 DEF Look, Crash, LookBegins, LookReads, LookExports, LookPanics, Looks, Ends
  <1> QED BY <1>2, <1>3, <1>4, <1>5, <1>6, <1>7, ZenonT(60) DEF Next

\* ScaleKubeCluster() moves the size of a group the way scaleSize says, for every int32
\* size whose sum does not overflow.
THEOREM KopsScales == Spec => ScalesAsAsked
  <1>1. ASSUME IInv, [Next]_vars, call.op = "scale", size >= 1,
               {call.by, size + call.by} \subseteq MinInt .. MaxInt
        PROVE  (call.by > 0 => size' >= size) /\ (call.by < 0 => size' <= size)
    <2>1. size \in MinInt .. MaxInt /\ size \in Int
      BY <1>1, MaxIntAssumption DEF IInv, TypeOK, MinInt
    <2>2. size' = size \/ size' = Scaled(size, call.by)
      BY <1>1, ScaleStep DEF vars
    <2>3. CASE size' = size
      BY <2>1, <2>3
    <2>4. CASE size' = Scaled(size, call.by)
      BY <1>1, <2>1, <2>4, ScaledDirection
    <2> QED BY <2>2, <2>3, <2>4
  <1> QED BY <1>1, InvInit, InvNext, PTL DEF Spec, ScalesAsAsked

-----------------------------------------------------------------------------
(* What Providers lets the operations do, as a table.                       *)

\* The statuses an operation that fails on its way may leave behind.
Interrupted(op, from) ==
  {from} \cup (CASE op = "create" /\ from = "none" -> {"broken", "config", "up"}
                 [] op = "create" /\ from = "scraps" -> {"broken", "config"}
                 [] op \in {"create", "scale"} /\ from = "config" -> {"up"}
                 [] op = "delete" /\ from = "up" -> {"none", "scraps", "broken", "config"}
                 [] OTHER -> {})

\* An answer and the status it leaves.
May(op, by, from, status, ok, ann, faulted) ==
  \/ ~ok /\ ann = "nothing" /\ faulted /\ status \in Interrupted(op, from)
  \/ /\ ~ok /\ ann = "nothing"
     /\ \/ op = "create" /\ from = "scraps" /\ status \in {"broken", "config"}
        \/ op \in {"create", "scale"} /\ from = "broken" /\ status = "broken"
  \/ /\ ok /\ ann = "nothing"
     /\ \/ op = "create" /\ from \in {"config", "up"} /\ status = "up"
        \/ op = "delete" /\ status = IF from = "up" THEN "none" ELSE from
        \/ op = "scale" /\ from \in {"none", "scraps"} /\ status = from
  \/ /\ ok /\ ann = "nodes" /\ status = "up"
     /\ \/ op = "create" /\ from = "none"
        \/ op = "scale" /\ from \in {"config", "up"}
  \/ /\ ok /\ ann = "ready" /\ op = "scale" /\ by < 0
     /\ from \in {"broken", "config", "up"} /\ status = from

\* How far the call has come, from the status it began with.
Stage ==
  LET status == Status(files, resources)
      pc == call.pc
      from == call.from
  IN  /\ pc \in {"create", "assign", "createCluster", "delete", "list", "scale", "readGroup",
                 "updateGroup", "deleteResources"} => status = from
      /\ pc \in {"assign", "createCluster"} => "config" \notin files
      /\ pc \in {"createMaster", "createNodes"} =>
           /\ "config" \in files /\ resources = {} /\ from \in {"none", "scraps"}
           /\ from = "none" => "nodes" \notin files
      /\ pc = "createMaster" =>
           {"master", "nodes"} \cap files # {} <=> from = "scraps"
      /\ pc = "createNodes" => "master" \in files /\ (from = "scraps" => "nodes" \in files)
      /\ pc = "addKey" => Complete /\ resources = {} /\ from = "none"
      /\ pc \in {"apply", "run"} =>
           /\ "config" \in files
           /\ IF call.ann = "nodes" THEN Complete /\ resources = {} /\ from = "none"
              ELSE status = from
      /\ pc = "list" => "config" \in files
      /\ pc = "readGroup" => "config" \in files
      /\ pc = "updateGroup" => {"config", "nodes"} \subseteq files
      /\ pc \in {"deleteResources", "deleteState"} => from = "up"
      /\ pc = "kubeconfig" => status = IF from = "up" THEN "none" ELSE from
      /\ pc \in {"list", "deleteResources", "deleteState", "kubeconfig", "delete"} =>
           call.op = "delete"

Answered ==
  answer.op # "none" =>
    May(answer.op, answer.by, answer.from, Status(files, resources), answer.ok, answer.ann,
        answer.faulted)

-----------------------------------------------------------------------------
(* The table is what Providers says.                                        *)

Inst(st) == [i \in {"kops"} |-> st]

\* There is one instance.
LEMMA InstFacts ==
  /\ Abstract!KopsId = "kops"
  /\ \A st, to : Inst(st)["kops"] = st /\ Abstract!At(Inst(st), Abstract!KopsId, to) = Inst(to)
<1>1. Abstract!KopsId = "kops"
  BY DEF Abstract!KopsId
<1> QED
  BY <1>1, ZenonT(30) DEF Inst, Abstract!At

\* The three annotations, field by field.
LEMMA AnnotationFacts ==
  /\ Abstract!NoChange.set["state"] = "absent" /\ Abstract!NoChange.set["nodes"] = "absent"
  /\ Abstract!NodeCount.set["state"] = "absent" /\ Abstract!NodeCount.set["nodes"] = "n"
  /\ Abstract!BackToReady.set["state"] = "ready"
BY DEF Abstract!NoChange, Abstract!Nothing, Abstract!NodeCount, Abstract!BackToReady,
       Abstract!Set

\* A result of an operation of Providers, as Results shows it.
LEMMA ResultShown ==
  ASSUME NEW op, NEW by, NEW from, NEW st \in Abstract!Status, Seen(st) = from,
         NEW to, NEW note \in {"nothing", "nodes", "ready"}, NEW ok, NEW fault,
         LET a == IF note = "nothing" THEN Abstract!NoChange
                  ELSE IF note = "nodes" THEN Abstract!NodeCount ELSE Abstract!BackToReady
             r == Abstract!Result(Inst(to), a, ok, fault)
         IN  \/ op = "create" /\ r \in Abstract!KopsCreate(Inst(st))
             \/ op = "delete" /\ r \in Abstract!KopsDelete(Inst(st))
             \/ op = "scale" /\ r \in Abstract!KopsScale(Inst(st), by >= 0)
  PROVE  [status |-> Seen(to), ok |-> ok, ann |-> note, fault |-> fault]
           \in Results(op, by, from)
<1> DEFINE a == IF note = "nothing" THEN Abstract!NoChange
                ELSE IF note = "nodes" THEN Abstract!NodeCount ELSE Abstract!BackToReady
           r == Abstract!Result(Inst(to), a, ok, fault)
           shown(b) == IF b.set["state"] # "absent" THEN "ready"
                       ELSE IF b.set["nodes"] # "absent" THEN "nodes" ELSE "nothing"
<1>1. st \in Unseen(from)
  BY DEF Unseen
<1>2. /\ r.inst["kops"] = to /\ r.ok = ok /\ r.ann = a /\ r.fault = fault
  BY InstFacts DEF Abstract!Result
<1>3. shown(a) = note
  BY AnnotationFacts
<1> DEFINE of(s) == CASE op = "create" -> Abstract!KopsCreate(s)
                      [] op = "delete" -> Abstract!KopsDelete(s)
                      [] op = "scale" -> Abstract!KopsScale(s, by >= 0)
<1>4. r \in of(Inst(st))
  OBVIOUS
<1>5. r \in UNION {of([i \in {"kops"} |-> s]) : s \in Unseen(from)}
  BY <1>1, <1>4, ZenonT(30) DEF Inst
<1>6. Results(op, by, from) =
        {[status |-> Seen(x.inst["kops"]), ok |-> x.ok, ann |-> shown(x.ann),
          fault |-> x.fault] :
           x \in UNION {of([i \in {"kops"} |-> s]) : s \in Unseen(from)}}
  BY DEF Results
<1> HIDE DEF r, of, a
<1> QED
  BY <1>2, <1>3, <1>5, <1>6, ZenonT(30)

\* What Seen() makes of the statuses of Providers.
LEMMA SeenFacts ==
  /\ \A st \in {"none", "scraps", "broken", "config"} : st \in Abstract!Status /\ Seen(st) = st
  /\ "building" \in Abstract!Status /\ Seen("building") = "up"
BY DEF Seen, Abstract!Status, Abstract!Stopped

\* The results of CreateKubeCluster() in Providers.
LEMMA CreateTable ==
  ASSUME NEW by, NEW from \in Statuses, NEW status, NEW ok, NEW ann, NEW faulted \in BOOLEAN,
         May("create", by, from, status, ok, ann, faulted), ok \in BOOLEAN
  PROVE  \E st \in Abstract!Status, to \in Abstract!Status, fault \in BOOLEAN :
           LET a == IF ann = "nothing" THEN Abstract!NoChange
                    ELSE IF ann = "nodes" THEN Abstract!NodeCount ELSE Abstract!BackToReady
           IN  /\ Seen(st) = from /\ Seen(to) = status /\ (fault => faulted)
               /\ Abstract!Result(Inst(to), a, ok, fault) \in Abstract!KopsCreate(Inst(st))
<1> USE InstFacts, SeenFacts DEF Abstract!KopsCreate, Abstract!Fine, Abstract!Refused,
        Abstract!Broken, Abstract!BrokenAt, Abstract!Applied
<1>1. CASE from = "none"
  <2>0. Abstract!KopsCreate(Inst("none")) =
          {Abstract!Result(Inst("building"), Abstract!NodeCount, TRUE, FALSE)}
            \cup {Abstract!Result(Inst(to), Abstract!NoChange, FALSE, TRUE) :
                    to \in {"none", "broken", "config", "building"}}
    <3>1. Abstract!BrokenAt(Inst("none"), {"none", "broken", "config", "building"})
            = {Abstract!Result(Inst(to), Abstract!NoChange, FALSE, TRUE) :
                 to \in {"none", "broken", "config", "building"}}
      BY ZenonT(30)
    <3>2. /\ Inst("none")[Abstract!KopsId] = "none" /\ Abstract!Applied("none") = "building"
          /\ Abstract!At(Inst("none"), Abstract!KopsId, "building") = Inst("building")
      OBVIOUS
    <3> HIDE DEF Abstract!BrokenAt, Abstract!Applied
    <3> QED
      BY <3>1, <3>2, ZenonT(30)
  <2>1. CASE ok
    <3>1. ann = "nodes" /\ status = "up"
      BY <1>1, <2>1 DEF May
    <3>2. Abstract!Result(Inst("building"), Abstract!NodeCount, TRUE, FALSE)
            \in Abstract!KopsCreate(Inst("none"))
      BY <2>0, ZenonT(30)
    <3> QED
      BY <1>1, <2>1, <3>1, <3>2, ZenonT(30)
  <2>2. CASE ~ok
    <3>1. ann = "nothing" /\ faulted /\ status \in {"none", "broken", "config", "up"}
      BY <1>1, <2>2 DEF May, Interrupted
    <3>2. \A to \in {"none", "broken", "config", "building"} :
            Abstract!Result(Inst(to), Abstract!NoChange, FALSE, TRUE)
              \in Abstract!KopsCreate(Inst("none"))
      BY <2>0, ZenonT(30)
    <3> QED
      BY <1>1, <2>2, <3>1, <3>2, ZenonT(30)
  <2> QED
    BY <2>1, <2>2, ZenonT(30)
<1>2. CASE from = "scraps"
  <2>1. /\ ~ok /\ ann = "nothing"
        /\ \/ status \in {"broken", "config"}
           \/ faulted /\ status \in {"scraps", "broken", "config"}
    BY <1>2 DEF May, Interrupted
  <2>2. \A to \in {"broken", "config"} :
          Abstract!Result(Inst(to), Abstract!NoChange, FALSE, FALSE)
            \in Abstract!KopsCreate(Inst("scraps"))
    BY ZenonT(30)
  <2>3. \A to \in {"scraps", "broken", "config"} :
          Abstract!Result(Inst(to), Abstract!NoChange, FALSE, TRUE)
            \in Abstract!KopsCreate(Inst("scraps"))
    BY ZenonT(30)
  <2> QED
    BY <1>2, <2>1, <2>2, <2>3, ZenonT(30)
<1>3. CASE from = "broken"
  <2>1. ~ok /\ ann = "nothing" /\ status = "broken"
    BY <1>3 DEF May, Interrupted
  <2>2. Abstract!Result(Inst("broken"), Abstract!NoChange, FALSE, FALSE)
          \in Abstract!KopsCreate(Inst("broken"))
    BY ZenonT(30)
  <2> QED
    BY <1>3, <2>1, <2>2, ZenonT(30)
<1>4. CASE from \in {"config", "up"}
  <2>1. /\ ann = "nothing"
        /\ \/ ok /\ status = "up"
           \/ ~ok /\ faulted /\ status \in {from, "up"}
    BY <1>4 DEF May, Interrupted
  <2>2. \A st \in {"config", "building"} :
          /\ Abstract!Result(Inst("building"), Abstract!NoChange, TRUE, FALSE)
               \in Abstract!KopsCreate(Inst(st))
          /\ Abstract!Result(Inst("building"), Abstract!NoChange, FALSE, TRUE)
               \in Abstract!KopsCreate(Inst(st))
          /\ Abstract!Result(Inst(st), Abstract!NoChange, FALSE, TRUE)
               \in Abstract!KopsCreate(Inst(st))
    <3> SUFFICES ASSUME NEW st \in {"config", "building"}
                 PROVE  Abstract!KopsCreate(Inst(st)) =
                          {Abstract!Result(Inst("building"), Abstract!NoChange, TRUE, FALSE),
                           Abstract!Result(Inst(st), Abstract!NoChange, FALSE, TRUE),
                           Abstract!Result(Inst("building"), Abstract!NoChange, FALSE, TRUE)}
      BY ZenonT(30)
    <3>1. /\ Inst(st)[Abstract!KopsId] = st /\ Abstract!Applied(st) = "building"
          /\ Abstract!At(Inst(st), Abstract!KopsId, "building") = Inst("building")
      OBVIOUS
    <3> HIDE DEF Abstract!BrokenAt, Abstract!Applied
    <3> QED
      BY <3>1, ZenonT(30)
  <2> HIDE DEF Abstract!KopsCreate
  <2>3. CASE from = "config"
    BY <2>1, <2>2, <2>3, ZenonT(30)
  <2>4. CASE from = "up"
    BY <2>1, <2>2, <2>4, ZenonT(30)
  <2> QED
    BY <1>4, <2>3, <2>4
<1> QED
  BY <1>1, <1>2, <1>3, <1>4, ZenonT(30) DEF Statuses

\* The results of DeleteKubeCluster() in Providers.
LEMMA DeleteTable ==
  ASSUME NEW by, NEW from \in Statuses, NEW status, NEW ok, NEW ann, NEW faulted \in BOOLEAN,
         May("delete", by, from, status, ok, ann, faulted), ok \in BOOLEAN
  PROVE  \E st \in Abstract!Status, to \in Abstract!Status, fault \in BOOLEAN :
           LET a == IF ann = "nothing" THEN Abstract!NoChange
                    ELSE IF ann = "nodes" THEN Abstract!NodeCount ELSE Abstract!BackToReady
           IN  /\ Seen(st) = from /\ Seen(to) = status /\ (fault => faulted)
               /\ Abstract!Result(Inst(to), a, ok, fault) \in Abstract!KopsDelete(Inst(st))
<1> USE InstFacts, SeenFacts DEF Abstract!KopsDelete, Abstract!Fine, Abstract!Refused,
        Abstract!Broken, Abstract!BrokenAt, Abstract!Stopped
<1>1. CASE from = "up"
  <2>1. /\ ann = "nothing"
        /\ \/ ok /\ status = "none"
           \/ ~ok /\ faulted /\ status \in {"none", "scraps", "broken", "config", "up"}
    BY <1>1 DEF May, Interrupted
  <2>2. Abstract!Result(Inst("none"), Abstract!NoChange, TRUE, FALSE)
          \in Abstract!KopsDelete(Inst("building"))
    BY ZenonT(30)
  <2>3. \A to \in {"none", "scraps", "broken", "config", "building"} :
          Abstract!Result(Inst(to), Abstract!NoChange, FALSE, TRUE)
            \in Abstract!KopsDelete(Inst("building"))
    BY ZenonT(30)
  <2> QED
    BY <1>1, <2>1, <2>2, <2>3, ZenonT(30)
<1>2. CASE from # "up"
  <2>1. ann = "nothing" /\ status = from /\ (ok \/ faulted)
    BY <1>2 DEF May, Interrupted
  <2>2. from \in {"none", "scraps", "broken", "config"}
    BY <1>2 DEF Statuses
  <2>3. /\ Abstract!Result(Inst(from), Abstract!NoChange, TRUE, FALSE)
             \in Abstract!KopsDelete(Inst(from))
        /\ Abstract!Result(Inst(from), Abstract!NoChange, FALSE, TRUE)
             \in Abstract!KopsDelete(Inst(from))
    BY <2>2, ZenonT(30)
  <2> QED
    BY <2>1, <2>2, <2>3, ZenonT(30)
<1> QED
  BY <1>1, <1>2, ZenonT(30)

\* The results of ScaleKubeCluster() in Providers.
LEMMA ScaleTable ==
  ASSUME NEW by \in Int, NEW from \in Statuses, NEW status, NEW ok, NEW ann,
         NEW faulted \in BOOLEAN,
         May("scale", by, from, status, ok, ann, faulted), ok \in BOOLEAN
  PROVE  \E st \in Abstract!Status, to \in Abstract!Status, fault \in BOOLEAN :
           LET a == IF ann = "nothing" THEN Abstract!NoChange
                    ELSE IF ann = "nodes" THEN Abstract!NodeCount ELSE Abstract!BackToReady
           IN  /\ Seen(st) = from /\ Seen(to) = status /\ (fault => faulted)
               /\ Abstract!Result(Inst(to), a, ok, fault)
                    \in Abstract!KopsScale(Inst(st), by >= 0)
<1> USE InstFacts, SeenFacts DEF Abstract!KopsScale, Abstract!Fine, Abstract!Refused,
        Abstract!Broken, Abstract!BrokenAt
<1>1. CASE from \in {"none", "scraps"}
  <2>1. ann = "nothing" /\ status = from /\ (ok \/ faulted)
    BY <1>1 DEF May, Interrupted
  <2>2. /\ Abstract!Result(Inst(from), Abstract!NoChange, TRUE, FALSE)
             \in Abstract!KopsScale(Inst(from), by >= 0)
        /\ Abstract!Result(Inst(from), Abstract!NoChange, FALSE, TRUE)
             \in Abstract!KopsScale(Inst(from), by >= 0)
    BY <1>1, ZenonT(30)
  <2> QED
    BY <1>1, <2>1, <2>2, ZenonT(30)
<1>2. CASE from = "broken"
  <2>1. /\ status = "broken"
        /\ \/ ~ok /\ ann = "nothing"
           \/ ok /\ ann = "ready" /\ ~(by >= 0)
    BY <1>2 DEF May, Interrupted
  <2>2. /\ Abstract!Result(Inst("broken"), Abstract!NoChange, FALSE, FALSE)
             \in Abstract!KopsScale(Inst("broken"), by >= 0)
        /\ ~(by >= 0) => Abstract!Result(Inst("broken"), Abstract!BackToReady, TRUE, FALSE)
                           \in Abstract!KopsScale(Inst("broken"), by >= 0)
    BY ZenonT(30)
  <2> QED
    BY <1>2, <2>1, <2>2, ZenonT(30)
<1>3. CASE from \in {"config", "up"}
  <2> DEFINE st == IF from = "up" THEN "building" ELSE from
  <2>1. \/ ~ok /\ ann = "nothing" /\ faulted /\ status \in {from, "up"}
        \/ ok /\ ann = "nodes" /\ status = "up"
        \/ ok /\ ann = "ready" /\ ~(by >= 0) /\ status = from
    BY <1>3 DEF May, Interrupted
  <2>2. /\ Abstract!Result(Inst("building"), Abstract!NodeCount, TRUE, FALSE)
             \in Abstract!KopsScale(Inst(st), by >= 0)
        /\ Abstract!Result(Inst("building"), Abstract!NoChange, FALSE, TRUE)
             \in Abstract!KopsScale(Inst(st), by >= 0)
        /\ Abstract!Result(Inst(st), Abstract!NoChange, FALSE, TRUE)
             \in Abstract!KopsScale(Inst(st), by >= 0)
        /\ ~(by >= 0) => Abstract!Result(Inst(st), Abstract!BackToReady, TRUE, FALSE)
                           \in Abstract!KopsScale(Inst(st), by >= 0)
    BY <1>3, ZenonT(30)
  <2>3. Seen(st) = from /\ st \in Abstract!Status
    BY <1>3
  <2> QED
    BY <1>3, <2>1, <2>2, <2>3, ZenonT(30)
<1> QED
  BY <1>1, <1>2, <1>3, ZenonT(30) DEF Statuses

\* Every line of the table is a result of Providers.
LEMMA TableHolds ==
  \A op \in {"create", "delete", "scale"}, by \in Int, from \in Statuses, status \in Statuses,
     ok \in BOOLEAN, ann \in {"nothing", "nodes", "ready"}, faulted \in BOOLEAN :
    May(op, by, from, status, ok, ann, faulted) =>
      \E r \in Results(op, by, from) :
        r.status = status /\ r.ok = ok /\ r.ann = ann /\ (r.fault => faulted)
<1> SUFFICES ASSUME NEW op \in {"create", "delete", "scale"}, NEW by \in Int,
                    NEW from \in Statuses, NEW status \in Statuses, NEW ok \in BOOLEAN,
                    NEW ann \in {"nothing", "nodes", "ready"}, NEW faulted \in BOOLEAN,
                    May(op, by, from, status, ok, ann, faulted)
             PROVE  \E r \in Results(op, by, from) :
                      r.status = status /\ r.ok = ok /\ r.ann = ann /\ (r.fault => faulted)
  BY ZenonT(30)
<1> DEFINE a == IF ann = "nothing" THEN Abstract!NoChange
                ELSE IF ann = "nodes" THEN Abstract!NodeCount ELSE Abstract!BackToReady
<1>1. PICK st \in Abstract!Status, to \in Abstract!Status, fault \in BOOLEAN :
        /\ Seen(st) = from /\ Seen(to) = status /\ (fault => faulted)
        /\ LET r == Abstract!Result(Inst(to), a, ok, fault)
           IN  \/ op = "create" /\ r \in Abstract!KopsCreate(Inst(st))
               \/ op = "delete" /\ r \in Abstract!KopsDelete(Inst(st))
               \/ op = "scale" /\ r \in Abstract!KopsScale(Inst(st), by >= 0)
  <2>1. CASE op = "create"
    BY <2>1, CreateTable
  <2>2. CASE op = "delete"
    BY <2>2, DeleteTable
  <2>3. CASE op = "scale"
    BY <2>3, ScaleTable
  <2> QED
    BY <2>1, <2>2, <2>3
<1>2. [status |-> Seen(to), ok |-> ok, ann |-> ann, fault |-> fault] \in Results(op, by, from)
  BY <1>1, ResultShown
<1> QED
  BY <1>1, <1>2

-----------------------------------------------------------------------------
(* Every call keeps to the table.                                           *)

SInv == IInv /\ Stage /\ Answered

\* A call on its way has left a status it may leave behind.
LEMMA StageInterrupted ==
  ASSUME IInv, Stage, call.op # "none"
  PROVE  Status(files, resources) \in Interrupted(call.op, call.from)
<1> DEFINE status == Status(files, resources)
<1>1. /\ call.pc # "idle" /\ call \in Call /\ call.op \in {"create", "delete", "scale"}
      /\ call.from \in Statuses /\ status \in Statuses
  BY StatusType DEF IInv, TypeOK, Progress, Call
<1>2. CASE call.pc \in {"create", "assign", "createCluster", "delete", "list", "scale",
                        "readGroup", "updateGroup", "deleteResources"}
  BY <1>2 DEF Stage, Interrupted
<1>3. CASE call.pc \in {"createMaster", "createNodes", "addKey"}
  <2>1. call.op = "create" /\ call.from \in {"none", "scraps"}
    BY <1>3 DEF IInv, Progress, Stage
  <2>2. status \in {"broken", "config"}
    BY <1>3 DEF Stage, Status, Complete
  <2> HIDE DEF status
  <2> QED
    BY <2>1, <2>2 DEF Interrupted, status
<1>4. CASE call.pc \in {"apply", "run"}
  <2>1. CASE call.ann = "nodes"
    <3>1. call.op = "create" /\ call.from = "none" /\ status = "config"
      BY <1>4, <2>1 DEF IInv, Progress, Stage, Status, Complete
    <3> QED
      BY <3>1 DEF Interrupted
  <2>2. CASE call.ann # "nodes"
    BY <1>4, <2>2 DEF Stage, Interrupted
  <2> QED
    BY <2>1, <2>2
<1>5. CASE call.pc \in {"deleteState", "kubeconfig"}
  <2>1. call.op = "delete" /\ (call.from = "up" \/ status = call.from)
    BY <1>5 DEF Stage
  <2> HIDE DEF status
  <2> QED
    BY <1>1, <2>1 DEF Interrupted, Statuses, status
<1> QED
  BY <1>1, <1>2, <1>3, <1>4, <1>5 DEF Call

\* The answer of a call that fails on its way, in a status it may leave behind.
LEMMA FailsAnswered ==
  ASSUME IInv, call.op # "none", Fails,
         Status(files, resources)' \in Interrupted(call.op, call.from)
  PROVE  Stage' /\ Answered'
<1>1. /\ answer' = [op |-> call.op, ok |-> FALSE, ann |-> "nothing", from |-> call.from,
                    faulted |-> TRUE, by |-> call.by, text |-> call.text]
      /\ call' = Idle
  BY DEF Fails, Return
<1>2. Stage'
  BY <1>1, ZenonT(30) DEF Stage, Idle
<1>3. Answered'
  BY <1>1 DEF Answered, May
<1> QED
  BY <1>2, <1>3

\* The answer of a call that ends as the table says.
LEMMA ReturnAnswered ==
  ASSUME NEW ok, NEW ann, NEW faulted, Return(ok, ann, faulted),
         May(call.op, call.by, call.from, Status(files, resources)', ok, ann, faulted)
  PROVE  Stage' /\ Answered'
<1>1. /\ answer' = [op |-> call.op, ok |-> ok, ann |-> ann, from |-> call.from,
                    faulted |-> faulted, by |-> call.by, text |-> call.text]
      /\ call' = Idle
  BY DEF Return
<1>2. Stage'
  BY <1>1, ZenonT(30) DEF Stage, Idle
<1>3. Answered'
  BY <1>1 DEF Answered
<1> QED
  BY <1>2, <1>3

\* A call that goes on has no answer yet.
LEMMA GotoAnswered ==
  ASSUME IInv, NEW pc, Goto(pc), call.pc # "idle"
  PROVE  /\ Answered' /\ call'.pc = pc /\ call'.op = call.op /\ call'.from = call.from
         /\ call'.ann = call.ann
BY DEF IInv, TypeOK, Call, Progress, Goto, Answered

\* A step of up() keeps to the table.
LEMMA CreateStage == SInv /\ Create => Stage' /\ Answered'
<1> SUFFICES ASSUME SInv, Create PROVE Stage' /\ Answered'
  OBVIOUS
<1> USE DEF At, Stored, Cloud, Worker, Refuses
<1>1. /\ IInv /\ Stage /\ call.pc # "idle" /\ call.op = "create" /\ call.ann # "nodes"
      /\ "config" \notin files => resources = {}
  BY DEF SInv, IInv, Progress, NothingOrphaned, Complete, Create, UpReads, UpAssigns,
         UpCreatesCluster, UpCreatesMaster, UpCreatesNodes, UpAddsKey
<1>2. Status(files, resources) \in Interrupted("create", call.from)
  BY <1>1, StageInterrupted
<1>3. CASE /\ Fails /\ UNCHANGED <<files, resources>>
  <2>1. Status(files, resources)' = Status(files, resources)
    BY <1>3
  <2> QED
    BY <1>1, <1>2, <1>3, <2>1, FailsAnswered
<1>4. CASE UpReads
  <2>1. ASSUME Goto(IF "config" \in files THEN "apply" ELSE "assign") PROVE Stage' /\ Answered'
    BY <1>1, <1>4, <2>1, GotoAnswered DEF UpReads, Stage
  <2> QED
    BY <1>3, <1>4, <2>1 DEF UpReads
<1>5. CASE UpAssigns
  <2>1. ASSUME Goto("createCluster") PROVE Stage' /\ Answered'
    BY <1>1, <1>5, <2>1, GotoAnswered DEF UpAssigns, Stage
  <2> QED
    BY <1>3, <1>5, <2>1 DEF UpAssigns
<1>6. CASE UpCreatesCluster
  <2>1. /\ "config" \notin files /\ resources = {} /\ call.from = Status(files, resources)
        /\ call.from \in {"none", "scraps"}
        /\ {"master", "nodes"} \cap files # {} <=> call.from = "scraps"
        /\ resources' = resources
    BY <1>1, <1>6 DEF UpCreatesCluster, Stage, Status
  <2>2. ASSUME files' = files \cup {"config"}, Goto("createMaster") PROVE Stage' /\ Answered'
    BY <1>1, <2>1, <2>2, GotoAnswered DEF Stage
  <2>3. ASSUME files' = files \cup {"config"}, Fails PROVE Stage' /\ Answered'
    <3>1. Status(files, resources)' \in {"broken", "config"}
      BY <2>1, <2>3 DEF Status
    <3>2. Status(files, resources)' \in Interrupted("create", call.from)
      BY <2>1, <3>1 DEF Interrupted
    <3> QED
      BY <1>1, <2>3, <3>2, FailsAnswered
  <2> QED
    BY <1>3, <1>6, <2>1, <2>2, <2>3, ZenonT(30) DEF UpCreatesCluster, Creates
<1>7. CASE UpCreatesMaster
  <2>1. /\ "config" \in files /\ resources = {} /\ call.from \in {"none", "scraps"}
        /\ {"master", "nodes"} \cap files # {} <=> call.from = "scraps"
        /\ resources' = resources
    BY <1>1, <1>7 DEF UpCreatesMaster, Stage
  <2>2. ASSUME "master" \notin files, files' = files \cup {"master"}, Goto("createNodes")
        PROVE  Stage' /\ Answered'
    BY <1>1, <2>1, <2>2, GotoAnswered DEF Stage
  <2>3. Status(files', resources') \in {"broken", "config"}
    BY <1>7, <2>1, ZenonT(30) DEF Status, UpCreatesMaster, Creates
  <2>4. ASSUME Fails PROVE Stage' /\ Answered'
    <3>1. Status(files, resources)' \in Interrupted("create", call.from)
      BY <2>1, <2>3 DEF Interrupted
    <3> QED
      BY <1>1, <2>4, <3>1, FailsAnswered
  <2>5. ASSUME "master" \in files, Return(FALSE, "nothing", FALSE) PROVE Stage' /\ Answered'
    <3>1. May(call.op, call.by, call.from, Status(files, resources)', FALSE, "nothing", FALSE)
      BY <1>1, <2>1, <2>3, <2>5 DEF May
    <3> QED
      BY <2>5, <3>1, ReturnAnswered, ZenonT(30)
  <2> QED
    BY <1>7, <2>2, <2>4, <2>5, ZenonT(30) DEF UpCreatesMaster, Creates
<1>8. CASE UpCreatesNodes
  <2>1. /\ {"config", "master"} \subseteq files /\ resources = {}
        /\ call.from \in {"none", "scraps"} /\ resources' = resources
        /\ "nodes" \in files <=> call.from = "scraps"
    BY <1>1, <1>8 DEF UpCreatesNodes, Stage
  <2>2. ASSUME "nodes" \notin files, files' = files \cup {"nodes"}, Goto("addKey")
        PROVE  Stage' /\ Answered'
    BY <1>1, <2>1, <2>2, GotoAnswered DEF Stage, Complete
  <2>3. Status(files', resources') \in {"broken", "config"}
    BY <1>8, <2>1, ZenonT(30) DEF Status, UpCreatesNodes, Creates
  <2>4. ASSUME Fails PROVE Stage' /\ Answered'
    <3>1. Status(files, resources)' \in Interrupted("create", call.from)
      BY <2>1, <2>3 DEF Interrupted
    <3> QED
      BY <1>1, <2>4, <3>1, FailsAnswered
  <2>5. ASSUME "nodes" \in files, Return(FALSE, "nothing", FALSE) PROVE Stage' /\ Answered'
    <3>1. May(call.op, call.by, call.from, Status(files, resources)', FALSE, "nothing", FALSE)
      BY <1>1, <2>1, <2>3, <2>5 DEF May
    <3> QED
      BY <2>5, <3>1, ReturnAnswered, ZenonT(30)
  <2> QED
    BY <1>8, <2>2, <2>4, <2>5, ZenonT(30) DEF UpCreatesNodes, Creates
<1>9. CASE UpAddsKey
  <2>1. /\ Complete /\ resources = {} /\ call.from = "none" /\ resources' = resources
        /\ files' \in {files, files \cup {"sshkey"}}
    BY <1>1, <1>9 DEF UpAddsKey, Stage
  <2>2. Complete' /\ Status(files, resources)' = "config"
    BY <2>1 DEF Complete, Status
  <2>3. ASSUME call' = [call EXCEPT !.pc = "apply", !.ann = "nodes"], UNCHANGED answer
        PROVE  Stage' /\ Answered'
    <3>1. call'.pc = "apply" /\ call'.ann = "nodes" /\ call'.from = "none"
      BY <1>1, <2>1, <2>3 DEF IInv, TypeOK, Call
    <3>2. answer'.op = "none"
      BY <1>1, <2>3 DEF IInv, Progress
    <3> QED
      BY <2>1, <2>2, <3>1, <3>2 DEF Stage, Answered, Complete
  <2>4. ASSUME Fails PROVE Stage' /\ Answered'
    <3>1. Status(files, resources)' \in Interrupted("create", call.from)
      BY <2>1, <2>2 DEF Interrupted
    <3> QED
      BY <1>1, <2>4, <3>1, FailsAnswered
  <2> QED
    BY <1>9, <2>3, <2>4 DEF UpAddsKey
<1> QED
  BY <1>4, <1>5, <1>6, <1>7, <1>8, <1>9 DEF Create

\* A step of apply() keeps to the table.
LEMMA ApplyStage == SInv /\ Apply => Stage' /\ Answered'
<1> SUFFICES ASSUME SInv, Apply PROVE Stage' /\ Answered'
  OBVIOUS
<1> USE DEF At, Stored, Cloud, Worker, Refuses
<1>1. /\ IInv /\ Stage /\ call.pc \in {"apply", "run"} /\ call.op \in {"create", "scale"}
      /\ resources \subseteq Resources /\ files' = files /\ "config" \in files
      /\ call.ann \in {"nothing", "nodes"}
      /\ resources # {} => Complete
  BY ZenonT(30)
     DEF SInv, IInv, TypeOK, Call, Progress, NothingOrphaned, Stage, Apply, ApplyReads,
         ApplyRuns
<1>2. Status(files, resources) \in Interrupted(call.op, call.from)
  BY <1>1, StageInterrupted
<1>3. CASE Fails /\ UNCHANGED resources
  <2>1. Status(files, resources)' = Status(files, resources)
    BY <1>1, <1>3
  <2> QED
    BY <1>1, <1>2, <1>3, <2>1, FailsAnswered
<1>4. CASE ApplyReads
  <2>1. ASSUME Goto("run") PROVE Stage' /\ Answered'
    BY <1>1, <1>4, <2>1, GotoAnswered DEF ApplyReads, Stage, Complete
  <2> QED
    BY <1>1, <1>3, <1>4, <2>1, ZenonT(30) DEF ApplyReads
<1>5. CASE ApplyRuns
  <2>1. CASE Complete
    <3>1. /\ call.ann = "nodes" => call.op = "create" /\ call.from = "none"
          /\ call.ann # "nodes" => call.from \in {"config", "up"}
      <4>1. call.ann = "nodes" => call.op = "create" /\ call.from = "none"
        BY <1>1 DEF IInv, Progress, Stage
      <4>2. call.ann # "nodes" => call.from = Status(files, resources)
        BY <1>1 DEF Stage
      <4>3. Status(files, resources) \in {"config", "up"}
        BY <2>1 DEF Status, Complete
      <4> QED
        BY <4>1, <4>2, <4>3
    <3>2. ASSUME resources' = Resources,
                 Return(TRUE, IF call.op = "scale" THEN "nodes" ELSE call.ann, FALSE)
          PROVE  Stage' /\ Answered'
      <4>1. Status(files, resources)' = "up"
        BY <3>2, ResourcesAssumption DEF Status
      <4>2. May(call.op, call.by, call.from, Status(files, resources)', TRUE,
                IF call.op = "scale" THEN "nodes" ELSE call.ann, FALSE)
        BY <1>1, <3>1, <4>1 DEF May
      <4> QED
        BY <3>2, <4>2, ReturnAnswered, ZenonT(30)
    <3>3. ASSUME Fails, resources' \in {resources \cup r : r \in SUBSET Resources}
          PROVE  Stage' /\ Answered'
      <4>1. Status(files, resources)' \in {"config", "up"}
        BY <1>1, <2>1 DEF Status, Complete
      <4>2. call.from = "up" => Status(files, resources)' = "up"
        <5>1. ASSUME call.from = "up" PROVE resources # {}
          BY <1>1, <3>1, <5>1 DEF Stage, Status
        <5> QED
          BY <3>3, <5>1 DEF Status
      <4>3. Status(files, resources)' \in Interrupted(call.op, call.from)
        <5> DEFINE status == Status(files, resources)'
        <5> HIDE DEF status
        <5> QED
          BY <1>1, <3>1, <4>1, <4>2 DEF Interrupted, status
      <4> QED
        BY <1>1, <3>3, <4>3, FailsAnswered
    <3> QED
      BY <1>5, <2>1, <3>2, <3>3, ZenonT(30) DEF ApplyRuns
  <2>2. CASE ~Complete
    <3>1. /\ resources = {} /\ call.ann = "nothing" /\ call.from = "broken"
          /\ Status(files, resources) = "broken"
      <4>1. resources = {} /\ call.ann # "nodes"
        BY <1>1, <2>2 DEF Stage
      <4>2. Status(files, resources) = "broken"
        BY <1>1, <2>2, <4>1 DEF Status, Complete
      <4> QED
        BY <1>1, <4>1, <4>2 DEF Stage
    <3>2. ASSUME Return(FALSE, "nothing", FALSE), UNCHANGED resources
          PROVE  Stage' /\ Answered'
      <4>1. Status(files, resources)' = "broken"
        BY <1>1, <3>1, <3>2
      <4>2. May(call.op, call.by, call.from, Status(files, resources)', FALSE, "nothing", FALSE)
        BY <1>1, <3>1, <4>1 DEF May
      <4> QED
        BY <3>2, <4>2, ReturnAnswered, ZenonT(30)
    <3> QED
      BY <1>3, <1>5, <2>2, <3>2, ZenonT(30) DEF ApplyRuns
  <2> QED
    BY <2>1, <2>2
<1> QED
  BY <1>4, <1>5 DEF Apply

\* A step of DeleteKubeCluster() keeps to the table.
LEMMA DeleteStage == SInv /\ Delete => Stage' /\ Answered'
<1> SUFFICES ASSUME SInv, Delete PROVE Stage' /\ Answered'
  OBVIOUS
<1> USE DEF At, Stored, Cloud, Worker, Refuses
<1>1. /\ IInv /\ Stage /\ call.pc # "idle" /\ call.op = "delete" /\ call.from \in Statuses
      /\ resources # {} => Complete
  BY ZenonT(30)
     DEF SInv, IInv, TypeOK, Call, Progress, NothingOrphaned, Stage, Delete, DeleteReads,
         DeleteLists, DeleteResources, DeleteState, DeleteKubeConfig
<1>2. Status(files, resources) \in Interrupted("delete", call.from)
  BY <1>1, StageInterrupted
<1>3. CASE Fails /\ UNCHANGED <<files, resources>>
  <2>1. Status(files, resources)' = Status(files, resources)
    BY <1>3
  <2> QED
    BY <1>1, <1>2, <1>3, <2>1, FailsAnswered
<1>4. CASE DeleteReads
  <2>1. /\ call.from = Status(files, resources)
        /\ Status(files, resources)' = Status(files, resources)
    BY <1>1, <1>4 DEF DeleteReads, Stage
  <2>2. ASSUME Goto("list"), "config" \in files PROVE Stage' /\ Answered'
    BY <1>1, <1>4, <2>2, GotoAnswered DEF DeleteReads, Stage
  <2>3. ASSUME "config" \notin files, Return(TRUE, "nothing", FALSE)
        PROVE  Stage' /\ Answered'
    <3>1. call.from # "up"
      BY <1>1, <2>1, <2>3 DEF Status, Complete
    <3>2. May(call.op, call.by, call.from, Status(files, resources)', TRUE, "nothing", FALSE)
      BY <1>1, <2>1, <3>1 DEF May
    <3> QED
      BY <2>3, <3>2, ReturnAnswered, ZenonT(30)
  <2> QED
    BY <1>3, <1>4, <2>2, <2>3, ZenonT(30) DEF DeleteReads
<1>5. CASE DeleteLists
  <2>1. call.from = Status(files, resources) /\ "config" \in files
    BY <1>1, <1>5 DEF DeleteLists, Stage
  <2>2. ASSUME Goto("kubeconfig"), resources = {} PROVE Stage' /\ Answered'
    <3>1. call.from # "up"
      BY <2>1, <2>2 DEF Status
    <3> QED
      BY <1>1, <1>5, <2>1, <2>2, <3>1, GotoAnswered DEF DeleteLists, Stage
  <2>3. ASSUME Goto("deleteResources"), resources # {} PROVE Stage' /\ Answered'
    <3>1. call.from = "up"
      BY <2>1, <2>3 DEF Status
    <3> QED
      BY <1>1, <1>5, <2>1, <2>3, <3>1, GotoAnswered DEF DeleteLists, Stage
  <2> QED
    BY <1>3, <1>5, <2>2, <2>3 DEF DeleteLists
<1>6. CASE DeleteResources \/ DeleteState
  <2>1. call.from = "up"
    BY <1>1, <1>6 DEF DeleteResources, DeleteState, Stage
  <2>2. ASSUME Fails PROVE Stage' /\ Answered'
    <3>1. Status(files, resources)' \in Statuses
      BY StatusType
    <3>2. Status(files, resources)' \in Interrupted("delete", call.from)
      <4> DEFINE status == Status(files, resources)'
      <4> HIDE DEF status
      <4> QED
        BY <2>1, <3>1 DEF Interrupted, Statuses, status
    <3> QED
      BY <1>1, <2>2, <3>2, FailsAnswered
  <2>3. ASSUME Goto("deleteState") PROVE Stage' /\ Answered'
    BY <1>1, <2>1, <2>3, GotoAnswered DEF Stage
  <2>4. ASSUME Goto("kubeconfig"), files' = {}, resources' = {} PROVE Stage' /\ Answered'
    <3>1. Status(files, resources)' = "none"
      BY <2>4 DEF Status
    <3> QED
      BY <1>1, <2>1, <2>4, <3>1, GotoAnswered DEF Stage
  <2>5. DeleteState => resources' = {}
    BY <1>1 DEF DeleteState, IInv, Progress
  <2> QED
    BY <1>6, <2>2, <2>3, <2>4, <2>5 DEF DeleteResources, DeleteState
<1>7. CASE DeleteKubeConfig
  <2>1. /\ Status(files, resources)' = IF call.from = "up" THEN "none" ELSE call.from
        /\ Return(TRUE, "nothing", FALSE)
    BY <1>1, <1>7, ZenonT(30) DEF DeleteKubeConfig, Stage
  <2>2. May(call.op, call.by, call.from, Status(files, resources)', TRUE, "nothing", FALSE)
    BY <1>1, <2>1 DEF May
  <2> QED
    BY <2>1, <2>2, ReturnAnswered, ZenonT(30)
<1> QED
  BY <1>4, <1>5, <1>6, <1>7 DEF Delete

\* A step of ScaleKubeCluster() before apply() keeps to the table.
LEMMA ScaleStage == SInv /\ Scale => Stage' /\ Answered'
<1> SUFFICES ASSUME SInv, Scale PROVE Stage' /\ Answered'
  OBVIOUS
<1> USE DEF At, Stored, Cloud, Worker, Refuses
<1>1. /\ IInv /\ Stage /\ call.pc # "idle" /\ call.op = "scale" /\ call.ann # "nodes"
      /\ call.from = Status(files, resources) /\ UNCHANGED <<files, resources>>
      /\ resources # {} => Complete
  BY ZenonT(30)
     DEF SInv, IInv, Progress, NothingOrphaned, Stage, Scale, ScaleReads, ScaleReadsGroup,
         ScaleUpdatesGroup
<1>2. Status(files, resources)' = Status(files, resources)
  BY <1>1
<1>3. CASE Fails
  <2>1. Status(files, resources)' \in Interrupted(call.op, call.from)
    BY <1>1, <1>2 DEF Interrupted
  <2> QED
    BY <1>1, <1>3, <2>1, FailsAnswered
<1>4. CASE ScaleReads
  <2>1. ASSUME Goto("readGroup"), "config" \in files PROVE Stage' /\ Answered'
    BY <1>1, <1>2, <2>1, GotoAnswered DEF Stage
  <2>2. ASSUME "config" \notin files, Return(TRUE, "nothing", FALSE)
        PROVE  Stage' /\ Answered'
    <3>1. call.from \in {"none", "scraps"}
      BY <1>1, <2>2 DEF Status, Complete
    <3>2. May(call.op, call.by, call.from, Status(files, resources)', TRUE, "nothing", FALSE)
      BY <1>1, <1>2, <3>1 DEF May
    <3> QED
      BY <2>2, <3>2, ReturnAnswered, ZenonT(30)
  <2> QED
    BY <1>3, <1>4, <2>1, <2>2, ZenonT(30) DEF ScaleReads
<1>5. CASE ScaleReadsGroup
  <2>1. "config" \in files
    BY <1>1, <1>5 DEF ScaleReadsGroup, Stage
  <2>2. call.from \in {"broken", "config", "up"}
    BY <1>1, <2>1 DEF Status
  <2>3. ASSUME "nodes" \notin files, Return(FALSE, "nothing", FALSE) PROVE Stage' /\ Answered'
    <3>1. call.from = "broken"
      BY <1>1, <2>1, <2>3 DEF Status, Complete
    <3>2. May(call.op, call.by, call.from, Status(files, resources)', FALSE, "nothing", FALSE)
      BY <1>1, <1>2, <3>1 DEF May
    <3> QED
      BY <2>3, <3>2, ReturnAnswered, ZenonT(30)
  <2>4. ASSUME call.by < 0, Return(TRUE, "ready", FALSE) PROVE Stage' /\ Answered'
    <3>1. May(call.op, call.by, call.from, Status(files, resources)', TRUE, "ready", FALSE)
      BY <1>1, <1>2, <2>2, <2>4 DEF May
    <3> QED
      BY <2>4, <3>1, ReturnAnswered, ZenonT(30)
  <2>5. ASSUME Goto("updateGroup"), "nodes" \in files PROVE Stage' /\ Answered'
    BY <1>1, <1>2, <2>1, <2>5, GotoAnswered DEF Stage
  <2> QED
    BY <1>3, <1>5, <2>3, <2>4, <2>5, ZenonT(30) DEF ScaleReadsGroup
<1>6. CASE ScaleUpdatesGroup
  <2>1. "config" \in files
    BY <1>1, <1>6 DEF ScaleUpdatesGroup, Stage
  <2>2. ASSUME Goto("apply") PROVE Stage' /\ Answered'
    BY <1>1, <1>2, <2>1, <2>2, GotoAnswered DEF Stage
  <2> QED
    BY <1>3, <1>6, <2>2 DEF ScaleUpdatesGroup
<1> QED
  BY <1>4, <1>5, <1>6 DEF Scale

\* The table holds at the start, and every step keeps to it.
LEMMA StageInv == (Init => SInv) /\ (SInv /\ [Next]_vars => SInv')
<1>1. Init => SInv
  <2> SUFFICES ASSUME Init PROVE Stage /\ Answered
    BY InvInit DEF SInv
  <2>1. call.pc = "idle" /\ answer.op = "none"
    BY ZenonT(30) DEF Init, Idle, NoAnswer
  <2> QED
    BY <2>1 DEF Stage, Answered
<1>2. ASSUME SInv, [Next]_vars PROVE SInv'
  <2>1. IInv'
    BY <1>2, InvNext DEF SInv
  <2>2. CASE UNCHANGED <<files, resources, call, answer>>
    <3>1. Stage'
      BY <1>2, <2>2 DEF SInv, Stage, Complete
    <3>2. Answered'
      BY <1>2, <2>2 DEF SInv, Answered
    <3> QED
      BY <2>1, <3>1, <3>2 DEF SInv
  <2>3. ASSUME NEW op \in {"create", "delete", "scale"}, NEW text, NEW key, NEW by,
               Begins(op, text, key, by)
        PROVE  SInv'
    <3>1. /\ call' = [op |-> op, pc |-> op, text |-> text, key |-> key, by |-> by,
                      ann |-> "nothing", from |-> Status(files, resources)]
          /\ answer' = NoAnswer /\ UNCHANGED <<files, resources>>
      BY <2>3, ZenonT(30) DEF Begins, Idle
    <3>2. Stage' /\ answer'.op = "none"
      BY <3>1, ZenonT(30) DEF Stage, NoAnswer
    <3> QED
      BY <2>1, <3>2 DEF SInv, Answered
  <2>4. CASE Look \/ Crash
    <3>1. CASE Ends
      <4>1. call'.pc = "idle" /\ answer'.op = "none"
        BY <3>1, ZenonT(30) DEF Ends, Idle, NoAnswer
      <4> QED
        BY <2>1, <4>1 DEF SInv, Stage, Answered
    <3>2. CASE Looks
      BY <2>2, <3>2 DEF SInv, Looks
    <3> QED
      BY <2>4, <3>1, <3>2 DEF Look, Crash, LookBegins, LookReads, LookExports, LookPanics
  <2>5. CASE \E text \in Texts, key \in BOOLEAN : Begins("create", text, key, 0)
    BY <2>3, <2>5
  <2>6. CASE Begins("delete", "", FALSE, 0)
    BY <2>3, <2>6, ZenonT(30)
  <2>7. CASE \E by \in Sizes : Begins("scale", "", FALSE, by)
    BY <2>3, <2>7, ZenonT(30)
  <2>8. CASE Create \/ Apply \/ Delete \/ Scale
    BY <1>2, <2>1, <2>8, CreateStage, ApplyStage, DeleteStage, ScaleStage DEF SInv
  <2> QED
    BY <1>2, <2>2, <2>4, <2>5, <2>6, <2>7, <2>8, ZenonT(30) DEF Next, vars
<1> QED
  BY <1>1, <1>2

\* The kops provider, call by call of its tool set, leaves no status and gives no answer
\* that the one-step operations of Providers, with which the controller is checked, do not
\* have: also where a call fails or the process ends in the middle of one.
THEOREM KopsIsProvider == Spec => []ActsAsInProviders
<1>1. ASSUME SInv PROVE ActsAsInProviders
  <2> DEFINE status == Status(files, resources)
  <2>1. ASSUME call.op # "none"
        PROVE  \E r \in Results(call.op, call.by, call.from) : r.status = status
    <3>1. /\ call.op \in {"create", "delete", "scale"} /\ call.by \in Int
          /\ call.from \in Statuses
      BY <1>1, <2>1, SizesType DEF SInv, IInv, TypeOK, Call
    <3>2. May(call.op, call.by, call.from, status, FALSE, "nothing", TRUE)
      BY <1>1, <2>1, StageInterrupted DEF SInv, May
    <3>0. status \in Statuses
      BY StatusType
    <3> HIDE DEF status
    <3>3. PICK no \in BOOLEAN, yes \in BOOLEAN : no = FALSE /\ yes = TRUE
      BY ZenonT(30)
    <3>4. May(call.op, call.by, call.from, status, no, "nothing", yes)
      BY <3>2, <3>3, ZenonT(30)
    <3>5. \E r \in Results(call.op, call.by, call.from) :
            r.status = status /\ r.ok = no /\ r.ann = "nothing" /\ (r.fault => yes)
      BY <3>0, <3>1, <3>4, TableHolds
    <3> QED
      BY <3>5
  <2>2. ASSUME answer.op # "none"
        PROVE  \E r \in Results(answer.op, answer.by, answer.from) :
                 /\ r.status = status /\ r.ok = answer.ok /\ r.ann = answer.ann
                 /\ r.fault => answer.faulted
    <3>1. /\ answer.op \in {"create", "delete", "scale"} /\ answer.by \in Int
          /\ answer.from \in Statuses /\ answer.ok \in BOOLEAN
          /\ answer.ann \in {"nothing", "nodes", "ready"} /\ answer.faulted \in BOOLEAN
      BY <1>1, <2>2, SizesType DEF SInv, IInv, TypeOK, Answer
    <3>2. May(answer.op, answer.by, answer.from, status, answer.ok, answer.ann,
              answer.faulted)
      BY <1>1, <2>2 DEF SInv, Answered
    <3>0. status \in Statuses
      BY StatusType
    <3> HIDE DEF status
    <3> QED
      BY <3>0, <3>1, <3>2, TableHolds
  <2> QED
    BY <2>1, <2>2 DEF ActsAsInProviders
<1> QED
  BY <1>1, StageInv, PTL DEF Spec


=============================================================================
