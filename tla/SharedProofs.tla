---------------------------- MODULE SharedProofs ----------------------------
(***************************************************************************)
(* Proofs about module Shared, for every number of goroutines, Shareds,    *)
(* pooled objects and inputs: SharedInv is inductive, one lemma per step   *)
(* of New, Run and Free, and the properties follow from it.                *)
(***************************************************************************)
EXTENDS Shared, TLAPS

USE DEF InLoop, InNew, InRun, HasStack, HasP3, HasLock

\* Updates of records of the three types: a call ...
LEMMA NoOpType == NoOp \in OpType
  BY DEF NoOp, OpType

\* ... as New and Run start it ...
LEMMA OpStart ==
  ASSUME NEW s \in Shareds
  PROVE  /\ \A l \in Libs : [NoOp EXCEPT !.sh = s, !.lib = l] \in OpType
         /\ \A i \in Inputs, d \in Nat :
              [NoOp EXCEPT !.sh = s, !.input = i, !.depth = d] \in OpType
  BY DEF NoOp, OpType

\* ... and as they go on with it, ...
LEMMA OpUpdate ==
  ASSUME NEW r \in OpType
  PROVE  /\ \A v \in Nat : [r EXCEPT !.bump = v] \in OpType
         /\ \A v \in Objs \cup {None} : [r EXCEPT !.p3 = v] \in OpType
         /\ \A v \in Objs \cup {None} : [r EXCEPT !.stack = v] \in OpType
  BY DEF OpType

\* ... the pooled parser state ...
LEMMA P3Update ==
  ASSUME NEW r \in P3Type
  PROVE  /\ ZeroP3 \in P3Type
         /\ \A v \in Codes : [r EXCEPT !.err = v] \in P3Type
         /\ \A v \in Nat : [r EXCEPT !.depth = v] \in P3Type
<1>1. ZeroP3 \in P3Type
  BY DEF P3Type, ZeroP3
<1>2. ASSUME NEW v \in Codes
      PROVE  [r EXCEPT !.err = v] \in P3Type
  BY DEF P3Type
<1>3. ASSUME NEW v \in Nat
      PROVE  [r EXCEPT !.depth = v] \in P3Type
  BY DEF P3Type
<1> QED
  BY <1>1, <1>2, <1>3, Zenon

\* ... and a message.
LEMMA MsgUpdate ==
  ASSUME NEW r \in MsgType, NEW v \in Inputs
  PROVE  [r EXCEPT !.input = v] \in MsgType
  BY DEF MsgType

\* Every step keeps the types.
LEMMA TypeStep ==
  ASSUME SharedInv, [Next]_vars
  PROVE  TypeOK'
<1> USE SharedAssumption DEF SharedInv, TypeOK, Results, Ok, shareds, pools, Goto
<1>1. ASSUME NEW g \in Procs, NEW s \in Shareds, NEW l \in Libs, StartNew(g, s, l)
      PROVE  TypeOK'
  BY <1>1, OpStart DEF StartNew, NoResult
<1>2. ASSUME NEW g \in Procs, RunInUse(g) \/ RunTooBig(g) \/ RunEmpty(g)
      PROVE  TypeOK'
  BY <1>2, ZenonT(60) DEF RunInUse, RunTooBig, RunEmpty, Return
<1>3. ASSUME NEW g \in Procs, NEW input \in Inputs, NEW depth \in Depths, StartRun(g, input, depth)
      PROVE  TypeOK'
  <2>1. msg[g].sh \in Shareds /\ depth \in Nat
    BY <1>3 DEF StartRun, MsgType
  <2> QED
    BY <1>3, <2>1, OpStart DEF StartRun, NoResult
<1>4. ASSUME NEW g \in Procs, Locks(g)
      PROVE  TypeOK'
  <2>1. lock' \in [Shareds -> Procs \cup {None}]
    <3>1. CASE NewLock(g)
      BY <3>1, ZenonT(60) DEF NewLock, Acquire
    <3>2. CASE RunLock(g)
      BY <3>2, ZenonT(60) DEF RunLock, Acquire
    <3> QED
      BY <1>4, <3>1, <3>2 DEF Locks
  <2>2. pc' \in [Procs -> {"idle", "unlock"} \cup InNew \cup InRun]
    BY <1>4 DEF Locks, NewLock, RunLock
  <2> QED
    BY <1>4, <2>1, <2>2 DEF Locks, NewLock, RunLock
<1>5. ASSUME NEW g \in Procs, NewLib(g)
      PROVE  TypeOK'
  BY <1>5, ZenonT(60) DEF NewLib, LibraryIsChecked
<1>6. ASSUME NEW g \in Procs, NewAlloc(g) \/ LoopAlloc(g)
      PROVE  TypeOK'
  <2>1. next[op[g].sh] \in Nat
    BY <1>6 DEF NewAlloc, LoopAlloc, CallsOwnObjects
  <2>2. op' \in [Procs -> OpType]
    <3>1. op' = [op EXCEPT ![g] = [op[g] EXCEPT !.bump = next[op[g].sh]]]
      BY <1>6 DEF NewAlloc, LoopAlloc, ReadNext
    <3>2. [op[g] EXCEPT !.bump = next[op[g].sh]] \in OpType
      BY <2>1, OpUpdate
    <3> QED
      BY <3>1, <3>2
  <2>3. pc' \in [Procs -> {"idle", "unlock"} \cup InNew \cup InRun]
    BY <1>6 DEF NewAlloc, LoopAlloc
  <2> QED
    BY <1>6, <2>2, <2>3 DEF NewAlloc, LoopAlloc
<1>7. ASSUME NEW g \in Procs, NewStore(g) \/ LoopStore(g)
      PROVE  TypeOK'
  <2>1. op[g].sh \in Shareds /\ op[g].bump \in Nat
    BY <1>7 DEF NewStore, LoopStore, CallsOwnObjects, OpType
  <2>2. /\ next' \in [Shareds -> Nat] /\ handed' \in [Shareds -> Seq(Nat)]
    <3>1. WriteNext(g)
      BY <1>7 DEF NewStore, LoopStore
    <3>2. Append(handed[op[g].sh], op[g].bump) \in Seq(Nat) /\ op[g].bump + 1 \in Nat
      BY <2>1
    <3> QED
      BY <3>1, <3>2 DEF WriteNext
  <2>3. msg' \in [Procs -> MsgType \cup {None}]
    <3>1. CASE LoopStore(g)
      BY <3>1 DEF LoopStore
    <3>2. CASE NewStore(g)
      <4>1. [sh |-> op[g].sh, lib |-> op[g].lib, input |-> None] \in MsgType
        BY <3>2, <2>1 DEF NewStore, LibraryIsChecked, MsgType
      <4> QED
        BY <3>2, <4>1 DEF NewStore
    <3> QED
      BY <1>7, <3>1, <3>2
  <2>4. pc' \in [Procs -> {"idle", "unlock"} \cup InNew \cup InRun]
    BY <1>7, ZenonT(60) DEF NewStore, LoopStore
  <2> QED
    BY <1>7, <2>2, <2>3, <2>4 DEF NewStore, LoopStore
<1>8. ASSUME NEW g \in Procs, NEW o \in Objs, GetP3(g, o)
      PROVE  TypeOK'
  <2>1. /\ op[g].sh \in Shareds /\ op[g].input \in Inputs /\ op[g].depth \in Nat
        /\ msg[g] \in MsgType
    BY <1>8 DEF GetP3, CallsOwnObjects, RunHasMessage, OpType
  <2>2. src' \in [Shareds -> Inputs \cup {None}] /\ idleP3s' \subseteq Objs
    BY <1>8, <2>1 DEF GetP3
  <2>3. op' \in [Procs -> OpType] /\ msg' \in [Procs -> MsgType \cup {None}]
    BY <1>8, <2>1, OpUpdate, MsgUpdate DEF GetP3
  <2>4. p3s' \in [Objs -> P3Type]
    BY <1>8, <2>1, P3Update DEF GetP3
  <2> QED
    BY <1>8, <2>2, <2>3, <2>4 DEF GetP3
<1>9. ASSUME NEW g \in Procs, NEW o \in Objs, GetStack(g, o)
      PROVE  TypeOK'
  <2>1. op[g].p3 \in Objs
    BY <1>9 DEF GetStack, CallsOwnObjects, OpType
  <2>2. p3s[op[g].p3].depth \in Nat
    BY <2>1 DEF P3Type
  <2>3. caps' \in [Objs -> Nat]
    BY <1>9, <2>2 DEF GetStack
  <2>4. op' \in [Procs -> OpType]
    BY <1>9, OpUpdate DEF GetStack
  <2> QED
    BY <1>9, <2>3, <2>4 DEF GetStack
<1>10. ASSUME NEW g \in Procs, LoopDone(g) \/ LoopPanic(g)
       PROVE  TypeOK'
  <2>1. CASE LoopDone(g)
    BY <2>1, ZenonT(60) DEF LoopDone
  <2>2. CASE LoopPanic(g)
    BY <2>2, ZenonT(60) DEF LoopPanic
  <2> QED
    BY <1>10, <2>1, <2>2
<1>11. ASSUME NEW g \in Procs, NEW code \in Codes, LoopFail(g, code)
       PROVE  TypeOK'
  <2>1. op[g].p3 \in Objs
    BY <1>11 DEF LoopFail, CallsOwnObjects, OpType
  <2>2. p3s' \in [Objs -> P3Type]
    BY <1>11, <2>1, P3Update DEF LoopFail
  <2> QED
    BY <1>11, <2>2 DEF LoopFail
<1>12. ASSUME NEW g \in Procs, Recover(g)
       PROVE  TypeOK'
  <2>1. op[g].p3 \in Objs
    BY <1>12 DEF Recover, CallsOwnObjects, OpType
  <2>2. p3s[op[g].p3].err \in Results
    BY <2>1 DEF P3Type
  <2> QED
    BY <1>12, <2>2 DEF Recover
<1>13. ASSUME NEW g \in Procs, PutStack(g) \/ PutP3(g)
       PROVE  TypeOK'
  <2>1. op[g].p3 \in Objs /\ (PutStack(g) => op[g].stack \in Objs)
    BY <1>13 DEF PutStack, PutP3, CallsOwnObjects, OpType
  <2>2. op' \in [Procs -> OpType]
    BY <1>13, OpUpdate DEF PutStack, PutP3
  <2>3. p3s' \in [Objs -> P3Type]
    BY <1>13, <2>1, P3Update, ZenonT(60) DEF PutStack, PutP3
  <2>4. CASE PutStack(g)
    BY <2>1, <2>2, <2>3, <2>4, ZenonT(60) DEF PutStack
  <2>5. CASE PutP3(g)
    BY <2>1, <2>2, <2>3, <2>5, ZenonT(60) DEF PutP3
  <2> QED
    BY <1>13, <2>4, <2>5
<1>14. ASSUME NEW g \in Procs, Unlock(g)
       PROVE  TypeOK'
  BY <1>14, NoOpType DEF Unlock, CallsOwnObjects
<1>15. ASSUME NEW s \in Shareds, Free(s)
       PROVE  TypeOK'
  <2>1. handed' \in [Shareds -> Seq(Nat)] /\ next' \in [Shareds -> Nat]
    BY <1>15 DEF Free
  <2>2. msg' \in [Procs -> MsgType \cup {None}]
    BY <1>15 DEF Free
  <2> QED
    BY <1>15, <2>1, <2>2 DEF Free
<1>16. CASE Collect
  <2>1. p3s' \in [Objs -> P3Type]
    BY <1>16, P3Update DEF Collect
  <2> QED
    BY <1>16, <2>1 DEF Collect
<1>17. CASE UNCHANGED vars
  BY <1>17 DEF vars
<1> QED
  BY <1>1, <1>2, <1>3, <1>4, <1>5, <1>6, <1>7, <1>8, <1>9, <1>10, <1>11, <1>12, <1>13,
     <1>14, <1>15, <1>16, <1>17 DEF Next, Step

----------------------------------------------------------------------------

\* All goroutines but g are where they were.
OthersStay(g) == \A h \in Procs : h # g => op'[h] = op[h] /\ pc'[h] = pc[h]

\* The addresses in q are distinct and below n.
Fresh(q, n) ==
  /\ \A i \in 1 .. Len(q) : q[i] < n
  /\ \A i, j \in 1 .. Len(q) : i # j => q[i] # q[j]

\* Handing out n keeps them so, below n + 1.
LEMMA FreshAppend ==
  ASSUME NEW q \in Seq(Nat), NEW n \in Nat, Fresh(q, n)
  PROVE  Fresh(Append(q, n), n + 1)
<1> DEFINE r == Append(q, n)
<1>1. /\ Len(q) \in Nat /\ Len(r) = Len(q) + 1
      /\ \A i \in 1 .. Len(q) : r[i] = q[i]
      /\ r[Len(q) + 1] = n
  OBVIOUS
<1>2. \A i \in 1 .. Len(r) : i \in 1 .. Len(q) \/ i = Len(q) + 1
  BY <1>1
<1>3. \A i \in 1 .. Len(q) : q[i] \in Nat /\ q[i] < n
  BY DEF Fresh
<1>4. ASSUME NEW i \in 1 .. Len(r) PROVE r[i] < n + 1
  <2> HIDE DEF r
  <2> QED
    BY <1>1, <1>2, <1>3
<1>5. ASSUME NEW i \in 1 .. Len(r), NEW j \in 1 .. Len(r), i # j PROVE r[i] # r[j]
  <2> HIDE DEF r
  <2>1. CASE i \in 1 .. Len(q) /\ j \in 1 .. Len(q)
    BY <1>1, <1>5, <2>1 DEF Fresh
  <2>2. CASE i = Len(q) + 1
    BY <1>1, <1>2, <1>3, <1>5, <2>2
  <2>3. CASE j = Len(q) + 1
    BY <1>1, <1>2, <1>3, <1>5, <2>3
  <2> QED
    BY <1>2, <2>1, <2>2, <2>3
<1> QED
  BY <1>4, <1>5 DEF Fresh

\* Shared.New is called.
LEMMA StartNewStep ==
  ASSUME SharedInv, TypeOK', NEW g \in Procs, NEW s \in Shareds, NEW l \in Libs,
         StartNew(g, s, l)
  PROVE  SharedInv'
<1> USE SharedAssumption
<1>1. /\ OthersStay(g) /\ pc[g] = "idle" /\ pc'[g] = "newLock"
      /\ op'[g].sh = s /\ op'[g].lib = l /\ op'[g].p3 = None /\ op'[g].stack = None
  BY DEF StartNew, SharedInv, TypeOK, Goto, OthersStay, NoOp
<1>2. /\ UNCHANGED <<shareds, pools, msg>>
      /\ \A h \in Procs : h # g => result'[h] = result[h] /\ outcome'[h] = outcome[h]
      /\ result'[g] = outcome'[g]
  BY DEF StartNew, SharedInv, TypeOK, NoResult
<1>3. CallsOwnObjects'
  BY <1>1, <1>2 DEF SharedInv, CallsOwnObjects, OthersStay, shareds, pools
<1>4. LockIsHeld'
  BY <1>1, <1>2 DEF SharedInv, LockIsHeld, CallsOwnObjects, OthersStay, shareds, pools
<1>5. AddressesDistinct' /\ HandedBelowNext'
  BY <1>1, <1>2 DEF SharedInv, AddressesDistinct, HandedBelowNext, CallsOwnObjects,
    LockIsHeld, OthersStay, shareds, pools
<1>6. LibraryIsOwn' /\ LibraryIsChecked'
  BY <1>1, <1>2 DEF SharedInv, LibraryIsOwn, LibraryIsChecked, CallsOwnObjects,
    LockIsHeld, OthersStay, shareds, pools
<1>7. RunHasMessage' /\ RunIsAlone' /\ (SerialUnmarshal => ReadsOwnInput')
  BY <1>1, <1>2 DEF SharedInv, RunHasMessage, RunIsAlone, ReadsOwnInput,
    CallsOwnObjects, OthersStay, shareds, pools
<1>8. ObjectsHaveOneUser' /\ StackIsDeep'
  BY <1>1, <1>2 DEF SharedInv, ObjectsHaveOneUser, StackIsDeep, CallsOwnObjects,
    OthersStay, shareds, pools
<1>9. P3IsClean'
  BY <1>1, <1>2 DEF SharedInv, P3IsClean, ObjectsHaveOneUser, CallsOwnObjects,
    OthersStay, shareds, pools
<1>10. OutcomeIsRecorded'
  BY <1>1, <1>2 DEF SharedInv, OutcomeIsRecorded, P3IsClean, ObjectsHaveOneUser,
    CallsOwnObjects, OthersStay, shareds, pools
<1> QED
  BY <1>3, <1>4, <1>5, <1>6, <1>7, <1>8, <1>9, <1>10 DEF SharedInv

\* Run returns before it has taken the lock.
LEMMA ReturnStep ==
  ASSUME SharedInv, TypeOK', NEW g \in Procs, NEW r \in Results, pc[g] = "idle", Return(g, r)
  PROVE  SharedInv'
<1> USE SharedAssumption
<1>1. /\ UNCHANGED <<shareds, pools, pc, op, msg>>
      /\ \A h \in Procs : h # g => result'[h] = result[h] /\ outcome'[h] = outcome[h]
      /\ result'[g] = outcome'[g]
  BY DEF Return, SharedInv, TypeOK
<1>2. CallsOwnObjects'
  BY <1>1 DEF SharedInv, CallsOwnObjects, shareds, pools
<1>3. LockIsHeld'
  BY <1>1 DEF SharedInv, LockIsHeld, CallsOwnObjects, shareds, pools
<1>4. AddressesDistinct' /\ HandedBelowNext'
  BY <1>1 DEF SharedInv, AddressesDistinct, HandedBelowNext, CallsOwnObjects,
    LockIsHeld, shareds, pools
<1>5. LibraryIsOwn' /\ LibraryIsChecked'
  BY <1>1 DEF SharedInv, LibraryIsOwn, LibraryIsChecked, CallsOwnObjects, LockIsHeld,
    shareds, pools
<1>6. RunHasMessage' /\ RunIsAlone' /\ (SerialUnmarshal => ReadsOwnInput')
  BY <1>1 DEF SharedInv, RunHasMessage, RunIsAlone, ReadsOwnInput, CallsOwnObjects,
    shareds, pools
<1>7. ObjectsHaveOneUser' /\ StackIsDeep'
  BY <1>1 DEF SharedInv, ObjectsHaveOneUser, StackIsDeep, CallsOwnObjects, shareds,
    pools
<1>8. P3IsClean'
  BY <1>1 DEF SharedInv, P3IsClean, ObjectsHaveOneUser, CallsOwnObjects, shareds,
    pools
<1>9. OutcomeIsRecorded'
  BY <1>1 DEF SharedInv, OutcomeIsRecorded, P3IsClean, ObjectsHaveOneUser,
    CallsOwnObjects, shareds, pools
<1> QED
  BY <1>2, <1>3, <1>4, <1>5, <1>6, <1>7, <1>8, <1>9 DEF SharedInv

\* Run has made its checks.
LEMMA StartRunStep ==
  ASSUME SharedInv, TypeOK', NEW g \in Procs, NEW input \in Inputs, NEW depth \in Depths,
         StartRun(g, input, depth)
  PROVE  SharedInv'
<1> USE SharedAssumption
<1>1. /\ OthersStay(g) /\ pc[g] = "idle" /\ pc'[g] = "runLock"
      /\ msg[g] # None /\ msg[g].sh \in Shareds
      /\ op'[g].sh = msg[g].sh /\ op'[g].input = input /\ op'[g].p3 = None /\ op'[g].stack = None
  BY DEF StartRun, SharedInv, TypeOK, Goto, OthersStay, NoOp, MsgType
<1>2. /\ UNCHANGED <<shareds, pools, msg>>
      /\ \A h \in Procs : h # g => result'[h] = result[h] /\ outcome'[h] = outcome[h]
      /\ result'[g] = outcome'[g]
  BY DEF StartRun, SharedInv, TypeOK, NoResult
<1>3. /\ src[msg[g].sh] = None
      /\ SerialUnmarshal => \A h \in Procs : pc[h] \in InRun => op[h].sh # msg[g].sh
  BY DEF StartRun
<1>4. CallsOwnObjects'
  BY <1>1, <1>2, <1>3 DEF SharedInv, CallsOwnObjects, OthersStay, shareds, pools
<1>5. LockIsHeld'
  BY <1>1, <1>2, <1>3 DEF SharedInv, LockIsHeld, CallsOwnObjects, OthersStay, shareds,
    pools
<1>6. AddressesDistinct' /\ HandedBelowNext'
  BY <1>1, <1>2, <1>3 DEF SharedInv, AddressesDistinct, HandedBelowNext,
    CallsOwnObjects, LockIsHeld, OthersStay, shareds, pools
<1>7. LibraryIsOwn' /\ LibraryIsChecked'
  BY <1>1, <1>2, <1>3 DEF SharedInv, LibraryIsOwn, LibraryIsChecked, CallsOwnObjects,
    LockIsHeld, OthersStay, shareds, pools
<1>8. RunHasMessage' /\ RunIsAlone' /\ (SerialUnmarshal => ReadsOwnInput')
  BY <1>1, <1>2, <1>3 DEF SharedInv, RunHasMessage, RunIsAlone, ReadsOwnInput,
    CallsOwnObjects, OthersStay, shareds, pools
<1>9. ObjectsHaveOneUser' /\ StackIsDeep'
  BY <1>1, <1>2, <1>3 DEF SharedInv, ObjectsHaveOneUser, StackIsDeep, CallsOwnObjects,
    OthersStay, shareds, pools
<1>10. P3IsClean'
  BY <1>1, <1>2, <1>3 DEF SharedInv, P3IsClean, ObjectsHaveOneUser, CallsOwnObjects,
    OthersStay, shareds, pools
<1>11. OutcomeIsRecorded'
  BY <1>1, <1>2, <1>3 DEF SharedInv, OutcomeIsRecorded, P3IsClean, ObjectsHaveOneUser,
    CallsOwnObjects, OthersStay, shareds, pools
<1> QED
  BY <1>4, <1>5, <1>6, <1>7, <1>8, <1>9, <1>10, <1>11 DEF SharedInv

\* New or Run takes the lock.
LEMMA LockStep ==
  ASSUME SharedInv, TypeOK', NEW g \in Procs, Locks(g)
  PROVE  SharedInv'
<1> USE SharedAssumption
<1>1. /\ UNCHANGED <<src, lib, next, handed, p3s, caps, idleP3s, idleStacks>>
      /\ UNCHANGED <<op, msg, result, outcome>>
      /\ lock[op[g].sh] = None /\ lock' = [lock EXCEPT ![op[g].sh] = g]
  BY DEF Locks, NewLock, RunLock, Acquire, pools
<1>2. /\ OthersStay(g) /\ op[g].sh \in Shareds
      /\ \/ pc[g] = "newLock" /\ pc'[g] = "newLib"
         \/ pc[g] = "runLock" /\ pc'[g] = "getP3"
  BY DEF Locks, NewLock, RunLock, SharedInv, TypeOK, Goto, OthersStay, CallsOwnObjects
<1>3. CallsOwnObjects'
  BY <1>1, <1>2 DEF SharedInv, CallsOwnObjects, OthersStay
<1>4. LockIsHeld'
  BY <1>1, <1>2 DEF SharedInv, LockIsHeld, CallsOwnObjects, TypeOK, OthersStay
<1>5. AddressesDistinct' /\ HandedBelowNext'
  BY <1>1, <1>2 DEF SharedInv, AddressesDistinct, HandedBelowNext, CallsOwnObjects,
    LockIsHeld, OthersStay
<1>6. LibraryIsOwn' /\ LibraryIsChecked'
  BY <1>1, <1>2 DEF SharedInv, LibraryIsOwn, LibraryIsChecked, CallsOwnObjects,
    LockIsHeld, OthersStay
<1>7. RunHasMessage' /\ RunIsAlone' /\ (SerialUnmarshal => ReadsOwnInput')
  BY <1>1, <1>2 DEF SharedInv, RunHasMessage, RunIsAlone, ReadsOwnInput,
    CallsOwnObjects, OthersStay
<1>8. ObjectsHaveOneUser' /\ StackIsDeep'
  BY <1>1, <1>2 DEF SharedInv, ObjectsHaveOneUser, StackIsDeep, CallsOwnObjects,
    OthersStay
<1>9. P3IsClean'
  BY <1>1, <1>2 DEF SharedInv, P3IsClean, ObjectsHaveOneUser, CallsOwnObjects,
    OthersStay
<1>10. OutcomeIsRecorded'
  BY <1>1, <1>2 DEF SharedInv, OutcomeIsRecorded, P3IsClean, ObjectsHaveOneUser,
    CallsOwnObjects, OthersStay
<1> QED
  BY <1>3, <1>4, <1>5, <1>6, <1>7, <1>8, <1>9, <1>10 DEF SharedInv

\* New checks the library.
LEMMA NewLibStep ==
  ASSUME SharedInv, TypeOK', NEW g \in Procs, NewLib(g)
  PROVE  SharedInv'
<1> USE SharedAssumption
<1>1. /\ UNCHANGED <<lock, src, next, handed, pools, op, msg>>
      /\ OthersStay(g) /\ pc[g] = "newLib" /\ op[g].sh \in Shareds
      /\ \A h \in Procs : h # g => result'[h] = result[h] /\ outcome'[h] = outcome[h]
      /\ result'[g] = outcome'[g]
  BY DEF NewLib, SharedInv, TypeOK, Goto, OthersStay, CallsOwnObjects,
    OutcomeIsRecorded
<1>2. \/ /\ lib[op[g].sh] \in {None, op[g].lib} /\ pc'[g] = "newAlloc"
         /\ lib' = [lib EXCEPT ![op[g].sh] = op[g].lib]
      \/ pc'[g] = "unlock" /\ lib' = lib
  BY DEF NewLib, SharedInv, TypeOK, Goto
<1>3. CallsOwnObjects'
  BY <1>1, <1>2 DEF SharedInv, CallsOwnObjects, OthersStay, pools
<1>4. LockIsHeld'
  BY <1>1, <1>2 DEF SharedInv, LockIsHeld, CallsOwnObjects, OthersStay, pools
<1>5. AddressesDistinct' /\ HandedBelowNext'
  BY <1>1, <1>2 DEF SharedInv, AddressesDistinct, HandedBelowNext, CallsOwnObjects,
    LockIsHeld, OthersStay, pools
<1>6. LibraryIsOwn' /\ LibraryIsChecked'
  BY <1>1, <1>2 DEF SharedInv, LibraryIsOwn, LibraryIsChecked, CallsOwnObjects,
    LockIsHeld, TypeOK, MsgType, OthersStay, pools
<1>7. RunHasMessage' /\ RunIsAlone' /\ (SerialUnmarshal => ReadsOwnInput')
  BY <1>1, <1>2 DEF SharedInv, RunHasMessage, RunIsAlone, ReadsOwnInput,
    CallsOwnObjects, OthersStay, pools
<1>8. ObjectsHaveOneUser' /\ StackIsDeep'
  BY <1>1, <1>2 DEF SharedInv, ObjectsHaveOneUser, StackIsDeep, CallsOwnObjects,
    OthersStay, pools
<1>9. P3IsClean'
  BY <1>1, <1>2 DEF SharedInv, P3IsClean, ObjectsHaveOneUser, CallsOwnObjects,
    OthersStay, pools
<1>10. OutcomeIsRecorded'
  BY <1>1, <1>2 DEF SharedInv, OutcomeIsRecorded, P3IsClean, ObjectsHaveOneUser,
    CallsOwnObjects, OthersStay, pools
<1> QED
  BY <1>3, <1>4, <1>5, <1>6, <1>7, <1>8, <1>9, <1>10 DEF SharedInv

\* New or a thunk reads Next.
LEMMA AllocStep ==
  ASSUME SharedInv, TypeOK', NEW g \in Procs, NewAlloc(g) \/ LoopAlloc(g)
  PROVE  SharedInv'
<1> USE SharedAssumption
<1>1. /\ UNCHANGED <<shareds, pools, msg, result, outcome>>
      /\ op' = [op EXCEPT ![g] = [op[g] EXCEPT !.bump = next[op[g].sh]]]
  BY DEF NewAlloc, LoopAlloc, ReadNext
<1>2. /\ op'[g].bump = next[op[g].sh] /\ op'[g].sh = op[g].sh /\ op'[g].lib = op[g].lib
      /\ op'[g].input = op[g].input /\ op'[g].depth = op[g].depth
      /\ op'[g].p3 = op[g].p3 /\ op'[g].stack = op[g].stack
  BY <1>1 DEF SharedInv, TypeOK, OpType
<1>3. /\ OthersStay(g)
      /\ \/ pc[g] = "newAlloc" /\ pc'[g] = "newStore"
         \/ pc[g] = "loop" /\ pc'[g] = "loopStore"
  BY <1>1 DEF NewAlloc, LoopAlloc, SharedInv, TypeOK, Goto, OthersStay
<1>4. CallsOwnObjects'
  BY <1>1, <1>2, <1>3 DEF SharedInv, CallsOwnObjects, OthersStay, shareds, pools
<1>5. LockIsHeld'
  BY <1>1, <1>2, <1>3 DEF SharedInv, LockIsHeld, CallsOwnObjects, OthersStay, shareds,
    pools
<1>6. AddressesDistinct' /\ HandedBelowNext'
  BY <1>1, <1>2, <1>3 DEF SharedInv, AddressesDistinct, HandedBelowNext,
    CallsOwnObjects, LockIsHeld, OthersStay, shareds, pools
<1>7. LibraryIsOwn' /\ LibraryIsChecked'
  BY <1>1, <1>2, <1>3 DEF SharedInv, LibraryIsOwn, LibraryIsChecked, CallsOwnObjects,
    LockIsHeld, OthersStay, shareds, pools
<1>8. RunHasMessage' /\ RunIsAlone' /\ (SerialUnmarshal => ReadsOwnInput')
  BY <1>1, <1>2, <1>3 DEF SharedInv, RunHasMessage, RunIsAlone, ReadsOwnInput,
    CallsOwnObjects, OthersStay, shareds, pools
<1>9. ObjectsHaveOneUser' /\ StackIsDeep'
  BY <1>1, <1>2, <1>3 DEF SharedInv, ObjectsHaveOneUser, StackIsDeep, CallsOwnObjects,
    OthersStay, shareds, pools
<1>10. P3IsClean'
  BY <1>1, <1>2, <1>3 DEF SharedInv, P3IsClean, ObjectsHaveOneUser, CallsOwnObjects,
    OthersStay, shareds, pools
<1>11. OutcomeIsRecorded'
  BY <1>1, <1>2, <1>3 DEF SharedInv, OutcomeIsRecorded, P3IsClean, ObjectsHaveOneUser,
    CallsOwnObjects, OthersStay, shareds, pools
<1> QED
  BY <1>4, <1>5, <1>6, <1>7, <1>8, <1>9, <1>10, <1>11 DEF SharedInv

\* New writes Next back and returns the message.
LEMMA NewStoreStep ==
  ASSUME SharedInv, TypeOK', NEW g \in Procs, NewStore(g)
  PROVE  SharedInv'
<1> USE SharedAssumption
<1>1. /\ UNCHANGED <<lock, src, lib, p3s, caps, idleP3s, idleStacks, op, result, outcome>>
      /\ OthersStay(g) /\ pc[g] = "newStore" /\ pc'[g] = "unlock" /\ op[g].sh \in Shareds
  BY DEF NewStore, SharedInv, TypeOK, Goto, OthersStay, CallsOwnObjects, pools
<1>2. /\ next' = [next EXCEPT ![op[g].sh] = op[g].bump + 1]
      /\ handed' = [handed EXCEPT ![op[g].sh] = Append(handed[op[g].sh], op[g].bump)]
      /\ op[g].bump = next[op[g].sh] /\ next[op[g].sh] \in Nat
  BY DEF NewStore, WriteNext, SharedInv, TypeOK, HandedBelowNext, CallsOwnObjects
<1>3. msg' = [msg EXCEPT ![g] = [sh |-> op[g].sh, lib |-> op[g].lib, input |-> None]]
  BY DEF NewStore
<1>4. CallsOwnObjects'
  BY <1>1, <1>2, <1>3 DEF SharedInv, CallsOwnObjects, OthersStay
<1>5. LockIsHeld'
  BY <1>1, <1>2, <1>3 DEF SharedInv, LockIsHeld, CallsOwnObjects, OthersStay
<1>6. AddressesDistinct' /\ HandedBelowNext'
  <2> DEFINE s == op[g].sh
  <2>1. ASSUME NEW t \in Shareds, t # s
        PROVE  handed'[t] = handed[t] /\ next'[t] = next[t]
    BY <1>1, <1>2, <2>1 DEF SharedInv, TypeOK
  <2>2. /\ handed'[s] = Append(handed[s], next[s]) /\ next'[s] = next[s] + 1
        /\ handed[s] \in Seq(Nat) /\ next[s] \in Nat
    BY <1>1, <1>2 DEF SharedInv, TypeOK
  <2>3. Fresh(handed[s], next[s])
    BY <1>1 DEF SharedInv, HandedBelowNext, AddressesDistinct, Fresh
  <2>4. Fresh(handed'[s], next'[s])
    BY <2>2, <2>3, FreshAppend
  <2>5. \A h \in Procs : pc'[h] \in {"newStore", "loopStore"} => op'[h].bump = next'[op'[h].sh]
    BY <1>1, <2>1 DEF SharedInv, HandedBelowNext, LockIsHeld, CallsOwnObjects, OthersStay
  <2>6. ASSUME NEW t \in Shareds
        PROVE  Fresh(handed'[t], next'[t])
    <3>1. CASE t = s
      BY <2>4, <3>1
    <3>2. CASE t # s
      <4>1. Fresh(handed[t], next[t])
        BY DEF SharedInv, HandedBelowNext, AddressesDistinct, Fresh
      <4> QED
        BY <2>1, <3>2, <4>1
    <3> QED
      BY <3>1, <3>2
  <2> HIDE DEF s
  <2>7. AddressesDistinct'
    BY <2>6 DEF AddressesDistinct, Fresh
  <2>8. HandedBelowNext'
    BY <2>5, <2>6 DEF HandedBelowNext, Fresh
  <2> QED
    BY <2>7, <2>8
<1>7. LibraryIsOwn' /\ LibraryIsChecked'
  BY <1>1, <1>2, <1>3 DEF SharedInv, LibraryIsOwn, LibraryIsChecked, CallsOwnObjects,
    LockIsHeld, TypeOK, OthersStay
<1>8. RunHasMessage' /\ RunIsAlone' /\ (SerialUnmarshal => ReadsOwnInput')
  <2>1. /\ \A h \in Procs : h # g => msg'[h] = msg[h] /\ pc'[h] = pc[h]
        /\ msg'[g].input = None /\ pc'[g] \notin InRun /\ UNCHANGED <<op, src>>
    BY <1>1, <1>2, <1>3 DEF SharedInv, TypeOK, OthersStay
  <2> QED
    BY <2>1 DEF SharedInv, RunHasMessage, RunIsAlone, ReadsOwnInput
<1>9. ObjectsHaveOneUser' /\ StackIsDeep'
  BY <1>1, <1>2, <1>3 DEF SharedInv, ObjectsHaveOneUser, StackIsDeep, CallsOwnObjects,
    OthersStay
<1>10. P3IsClean'
  BY <1>1, <1>2, <1>3 DEF SharedInv, P3IsClean, ObjectsHaveOneUser, CallsOwnObjects,
    OthersStay
<1>11. OutcomeIsRecorded'
  BY <1>1, <1>2, <1>3 DEF SharedInv, OutcomeIsRecorded, P3IsClean, ObjectsHaveOneUser,
    CallsOwnObjects, OthersStay
<1> QED
  BY <1>4, <1>5, <1>6, <1>7, <1>8, <1>9, <1>10, <1>11 DEF SharedInv

\* A thunk writes Next back.
LEMMA LoopStoreStep ==
  ASSUME SharedInv, TypeOK', NEW g \in Procs, LoopStore(g)
  PROVE  SharedInv'
<1> USE SharedAssumption
<1>1. /\ UNCHANGED <<lock, src, lib, p3s, caps, idleP3s, idleStacks, op, result, outcome>>
      /\ OthersStay(g) /\ pc[g] = "loopStore" /\ pc'[g] = "loop" /\ op[g].sh \in Shareds
      /\ UNCHANGED msg
  BY DEF LoopStore, SharedInv, TypeOK, Goto, OthersStay, CallsOwnObjects, pools
<1>2. /\ next' = [next EXCEPT ![op[g].sh] = op[g].bump + 1]
      /\ handed' = [handed EXCEPT ![op[g].sh] = Append(handed[op[g].sh], op[g].bump)]
      /\ op[g].bump = next[op[g].sh] /\ next[op[g].sh] \in Nat
  BY DEF LoopStore, WriteNext, SharedInv, TypeOK, HandedBelowNext, CallsOwnObjects
<1>3. CallsOwnObjects'
  BY <1>1, <1>2 DEF SharedInv, CallsOwnObjects, OthersStay
<1>4. LockIsHeld'
  BY <1>1, <1>2 DEF SharedInv, LockIsHeld, CallsOwnObjects, OthersStay
<1>5. AddressesDistinct' /\ HandedBelowNext'
  <2> DEFINE s == op[g].sh
  <2>1. ASSUME NEW t \in Shareds, t # s
        PROVE  handed'[t] = handed[t] /\ next'[t] = next[t]
    BY <1>1, <1>2, <2>1 DEF SharedInv, TypeOK
  <2>2. /\ handed'[s] = Append(handed[s], next[s]) /\ next'[s] = next[s] + 1
        /\ handed[s] \in Seq(Nat) /\ next[s] \in Nat
    BY <1>1, <1>2 DEF SharedInv, TypeOK
  <2>3. Fresh(handed[s], next[s])
    BY <1>1 DEF SharedInv, HandedBelowNext, AddressesDistinct, Fresh
  <2>4. Fresh(handed'[s], next'[s])
    BY <2>2, <2>3, FreshAppend
  <2>5. \A h \in Procs : pc'[h] \in {"newStore", "loopStore"} => op'[h].bump = next'[op'[h].sh]
    BY <1>1, <2>1 DEF SharedInv, HandedBelowNext, LockIsHeld, CallsOwnObjects, OthersStay
  <2>6. ASSUME NEW t \in Shareds
        PROVE  Fresh(handed'[t], next'[t])
    <3>1. CASE t = s
      BY <2>4, <3>1
    <3>2. CASE t # s
      <4>1. Fresh(handed[t], next[t])
        BY DEF SharedInv, HandedBelowNext, AddressesDistinct, Fresh
      <4> QED
        BY <2>1, <3>2, <4>1
    <3> QED
      BY <3>1, <3>2
  <2> HIDE DEF s
  <2>7. AddressesDistinct'
    BY <2>6 DEF AddressesDistinct, Fresh
  <2>8. HandedBelowNext'
    BY <2>5, <2>6 DEF HandedBelowNext, Fresh
  <2> QED
    BY <2>7, <2>8
<1>6. LibraryIsOwn' /\ LibraryIsChecked'
  BY <1>1, <1>2 DEF SharedInv, LibraryIsOwn, LibraryIsChecked, CallsOwnObjects,
    LockIsHeld, OthersStay
<1>7. RunHasMessage' /\ RunIsAlone' /\ (SerialUnmarshal => ReadsOwnInput')
  BY <1>1, <1>2 DEF SharedInv, RunHasMessage, RunIsAlone, ReadsOwnInput,
    CallsOwnObjects, OthersStay
<1>8. ObjectsHaveOneUser' /\ StackIsDeep'
  BY <1>1, <1>2 DEF SharedInv, ObjectsHaveOneUser, StackIsDeep, CallsOwnObjects,
    OthersStay
<1>9. P3IsClean'
  BY <1>1, <1>2 DEF SharedInv, P3IsClean, ObjectsHaveOneUser, CallsOwnObjects,
    OthersStay
<1>10. OutcomeIsRecorded'
  BY <1>1, <1>2 DEF SharedInv, OutcomeIsRecorded, P3IsClean, ObjectsHaveOneUser,
    CallsOwnObjects, OthersStay
<1> QED
  BY <1>3, <1>4, <1>5, <1>6, <1>7, <1>8, <1>9, <1>10 DEF SharedInv

\* Run takes a p3 and sets Src.
LEMMA GetP3Step ==
  ASSUME SharedInv, TypeOK', NEW g \in Procs, NEW o \in Objs, GetP3(g, o)
  PROVE  SharedInv'
<1> USE SharedAssumption
<1>1. /\ UNCHANGED <<lock, lib, next, handed, caps, idleStacks, result, outcome>>
      /\ OthersStay(g) /\ pc[g] = "getP3" /\ pc'[g] = "getStack" /\ op[g].sh \in Shareds
      /\ src' = [src EXCEPT ![op[g].sh] = op[g].input]
      /\ idleP3s' = idleP3s \ {o}
  BY DEF GetP3, SharedInv, TypeOK, Goto, OthersStay, CallsOwnObjects
<1>2. /\ op'[g].p3 = o /\ op'[g].stack = op[g].stack
      /\ op'[g].sh = op[g].sh /\ op'[g].lib = op[g].lib /\ op'[g].input = op[g].input
      /\ op'[g].depth = op[g].depth
  BY DEF GetP3, SharedInv, TypeOK, OpType
<1>3. /\ \A x \in Objs : p3s'[x].err = p3s[x].err
      /\ p3s'[o].depth = op[g].depth
      /\ \A x \in Objs : x # o => p3s'[x] = p3s[x]
  BY DEF GetP3, SharedInv, TypeOK, P3Type
<1>4. /\ msg[g] # None /\ msg'[g] # None /\ msg'[g].input = op[g].input
      /\ msg'[g].sh = msg[g].sh /\ msg'[g].lib = msg[g].lib
      /\ \A h \in Procs : h # g => msg'[h] = msg[h]
  <2>1. msg[g] # None /\ op[g].input \in Inputs
    BY <1>1 DEF SharedInv, RunHasMessage
  <2>2. msg[g] \in MsgType
    BY <2>1 DEF SharedInv, TypeOK
  <2>3. msg' = [msg EXCEPT ![g] = [msg[g] EXCEPT !.input = op[g].input]]
    BY DEF GetP3
  <2>4. [msg[g] EXCEPT !.input = op[g].input] \in MsgType
    BY <2>1, <2>2, MsgUpdate
  <2>5. msg'[g] = [msg[g] EXCEPT !.input = op[g].input]
    BY <2>3 DEF SharedInv, TypeOK
  <2> QED
    BY <2>1, <2>2, <2>3, <2>4, <2>5, NoneIsNoMessage DEF SharedInv, TypeOK, MsgType
<1>5. \A h \in Procs : op[h].p3 # o
  BY DEF GetP3, SharedInv, ObjectsHaveOneUser, FreshP3
<1>6. CallsOwnObjects'
  BY <1>1, <1>2, <1>3, <1>4, <1>5 DEF SharedInv, CallsOwnObjects, OthersStay
<1>7. LockIsHeld'
  BY <1>1, <1>2, <1>3, <1>4, <1>5 DEF SharedInv, LockIsHeld, CallsOwnObjects,
    OthersStay
<1>8. AddressesDistinct' /\ HandedBelowNext'
  BY <1>1, <1>2, <1>3, <1>4, <1>5 DEF SharedInv, AddressesDistinct, HandedBelowNext,
    CallsOwnObjects, LockIsHeld, OthersStay
<1>9. LibraryIsOwn' /\ LibraryIsChecked'
  BY <1>1, <1>2, <1>3, <1>4, <1>5 DEF SharedInv, LibraryIsOwn, LibraryIsChecked,
    CallsOwnObjects, LockIsHeld, OthersStay
<1>10. RunHasMessage' /\ RunIsAlone' /\ (SerialUnmarshal => ReadsOwnInput')
  <2>1. RunHasMessage' /\ RunIsAlone'
    <3>1. RunHasMessage'
      BY <1>1, <1>2, <1>4 DEF SharedInv, RunHasMessage, OthersStay
    <3>2. ASSUME SerialUnmarshal, NEW h \in Procs, pc'[h] \in {"runLock", "getP3"}
          PROVE  src'[op'[h].sh] = None
      <4>1. h # g /\ op[h].sh # op[g].sh /\ op'[h] = op[h] /\ src[op[h].sh] = None
        BY <1>1, <3>2 DEF SharedInv, RunIsAlone, OthersStay
      <4> QED
        BY <1>1, <3>2, <4>1 DEF SharedInv, CallsOwnObjects, TypeOK, OthersStay
    <3>3. ASSUME SerialUnmarshal, NEW h \in Procs, NEW k \in Procs,
                 h # k, pc'[h] \in InRun, pc'[k] \in InRun
          PROVE  op'[h].sh # op'[k].sh
      BY <1>1, <1>2, <3>3 DEF SharedInv, RunIsAlone, OthersStay
    <3> QED
      BY <3>1, <3>2, <3>3 DEF RunIsAlone
  <2>2. ASSUME SerialUnmarshal, NEW h \in Procs, msg'[h] # None, msg'[h].input # None
        PROVE  src'[msg'[h].sh] = msg'[h].input
    <3>1. src[op[g].sh] = None /\ msg[g].sh = op[g].sh
      BY <1>1, <2>2 DEF SharedInv, RunIsAlone, RunHasMessage
    <3>2. CASE h = g
      BY <1>1, <1>4, <3>1, <3>2 DEF SharedInv, TypeOK
    <3>3. CASE h # g
      <4>1. src[msg[h].sh] = msg[h].input /\ msg'[h] = msg[h]
        BY <1>4, <2>2, <3>3 DEF SharedInv, ReadsOwnInput
      <4> QED
        BY <1>1, <2>2, <3>1, <4>1 DEF SharedInv, TypeOK
    <3> QED
      BY <3>2, <3>3
  <2> QED
    BY <2>1, <2>2 DEF ReadsOwnInput
<1>11. ObjectsHaveOneUser' /\ StackIsDeep'
  BY <1>1, <1>2, <1>3, <1>4, <1>5 DEF SharedInv, ObjectsHaveOneUser, StackIsDeep,
    CallsOwnObjects, OthersStay
<1>12. P3IsClean'
  <2>1. op[g].p3 = None /\ op'[g].p3 = o
    BY <1>1, <1>2 DEF SharedInv, CallsOwnObjects
  <2>2. \A x \in Objs : (\A h \in Procs : op'[h].p3 # x) => p3s'[x].err = Ok
    BY <1>1, <1>3, <2>1 DEF SharedInv, P3IsClean, OthersStay
  <2>3. p3s'[o].err = Ok /\ p3s'[op'[g].p3].depth = op'[g].depth
    BY <1>2, <1>3, <1>5 DEF SharedInv, P3IsClean
  <2>4. ASSUME NEW h \in Procs, h # g, pc[h] \in HasP3
        PROVE  p3s'[op[h].p3] = p3s[op[h].p3]
    BY <1>3, <1>5, <2>4 DEF SharedInv, TypeOK, OpType, CallsOwnObjects
  <2> QED
    BY <1>1, <2>1, <2>2, <2>3, <2>4 DEF SharedInv, P3IsClean, OthersStay
<1>13. OutcomeIsRecorded'
  BY <1>1, <1>2, <1>3, <1>4, <1>5 DEF SharedInv, OutcomeIsRecorded, P3IsClean,
    ObjectsHaveOneUser, CallsOwnObjects, TypeOK, OpType, OthersStay
<1> QED
  BY <1>6, <1>7, <1>8, <1>9, <1>10, <1>11, <1>12, <1>13 DEF SharedInv

\* Run takes a stack, and replaces it if it is too small.
LEMMA GetStackStep ==
  ASSUME SharedInv, TypeOK', NEW g \in Procs, NEW o \in Objs, GetStack(g, o)
  PROVE  SharedInv'
<1> USE SharedAssumption
<1>1. /\ UNCHANGED <<shareds, p3s, idleP3s, msg, result, outcome>>
      /\ OthersStay(g) /\ pc[g] = "getStack" /\ pc'[g] = "loop"
      /\ idleStacks' = idleStacks \ {o}
  BY DEF GetStack, SharedInv, TypeOK, Goto, OthersStay
<1>2. /\ op'[g].stack = o /\ op'[g].p3 = op[g].p3
      /\ op'[g].sh = op[g].sh /\ op'[g].lib = op[g].lib /\ op'[g].input = op[g].input
      /\ op'[g].depth = op[g].depth
  BY DEF GetStack, SharedInv, TypeOK, OpType
<1>3. \A h \in Procs : op[h].stack # o
  BY DEF GetStack, SharedInv, ObjectsHaveOneUser, FreshStack
<1>4. /\ caps'[o] >= op[g].depth
      /\ \A x \in Objs : x # o => caps'[x] = caps[x]
  <2>1. op[g].depth \in Nat /\ p3s[op[g].p3].depth = op[g].depth
    BY <1>1 DEF SharedInv, TypeOK, OpType, P3IsClean
  <2> QED
    BY <2>1 DEF GetStack, SharedInv, TypeOK
<1>5. CallsOwnObjects'
  BY <1>1, <1>2, <1>3, <1>4 DEF SharedInv, CallsOwnObjects, OthersStay, shareds
<1>6. LockIsHeld'
  BY <1>1, <1>2, <1>3, <1>4 DEF SharedInv, LockIsHeld, CallsOwnObjects, OthersStay,
    shareds
<1>7. AddressesDistinct' /\ HandedBelowNext'
  BY <1>1, <1>2, <1>3, <1>4 DEF SharedInv, AddressesDistinct, HandedBelowNext,
    CallsOwnObjects, LockIsHeld, OthersStay, shareds
<1>8. LibraryIsOwn' /\ LibraryIsChecked'
  BY <1>1, <1>2, <1>3, <1>4 DEF SharedInv, LibraryIsOwn, LibraryIsChecked,
    CallsOwnObjects, LockIsHeld, OthersStay, shareds
<1>9. RunHasMessage' /\ RunIsAlone' /\ (SerialUnmarshal => ReadsOwnInput')
  BY <1>1, <1>2, <1>3, <1>4 DEF SharedInv, RunHasMessage, RunIsAlone, ReadsOwnInput,
    CallsOwnObjects, OthersStay, shareds
<1>10. ObjectsHaveOneUser' /\ StackIsDeep'
  <2>1. op[g].stack = None
    BY <1>1 DEF SharedInv, CallsOwnObjects
  <2>2. ObjectsHaveOneUser'
    BY <1>1, <1>2, <1>3, <2>1 DEF SharedInv, ObjectsHaveOneUser, OthersStay
  <2>3. ASSUME NEW h \in Procs, h # g, pc[h] \in InLoop
        PROVE  caps'[op[h].stack] = caps[op[h].stack]
    BY <1>3, <1>4, <2>3 DEF SharedInv, TypeOK, OpType, CallsOwnObjects
  <2>4. StackIsDeep'
    BY <1>1, <1>2, <1>4, <2>3 DEF SharedInv, StackIsDeep, OthersStay
  <2> QED
    BY <2>2, <2>4
<1>11. P3IsClean'
  BY <1>1, <1>2, <1>3, <1>4 DEF SharedInv, P3IsClean, ObjectsHaveOneUser,
    CallsOwnObjects, OthersStay, shareds
<1>12. OutcomeIsRecorded'
  BY <1>1, <1>2, <1>3, <1>4 DEF SharedInv, OutcomeIsRecorded, P3IsClean,
    ObjectsHaveOneUser, CallsOwnObjects, OthersStay, shareds
<1> QED
  BY <1>5, <1>6, <1>7, <1>8, <1>9, <1>10, <1>11, <1>12 DEF SharedInv

\* The loop ends, or panics without a code.
LEMMA LoopEndStep ==
  ASSUME SharedInv, TypeOK', NEW g \in Procs, LoopDone(g) \/ LoopPanic(g)
  PROVE  SharedInv'
<1> USE SharedAssumption
<1>1. /\ UNCHANGED <<shareds, pools, op, msg, result>>
      /\ OthersStay(g) /\ pc[g] = "loop"
      /\ \A h \in Procs : h # g => outcome'[h] = outcome[h]
      /\ \/ pc'[g] = "putStack" /\ outcome' = outcome
         \/ pc'[g] = "recover" /\ outcome'[g] = "panic"
  BY DEF LoopDone, LoopPanic, SharedInv, TypeOK, Goto, OthersStay
<1>2. CallsOwnObjects'
  BY <1>1 DEF SharedInv, CallsOwnObjects, OthersStay, shareds, pools
<1>3. LockIsHeld'
  BY <1>1 DEF SharedInv, LockIsHeld, CallsOwnObjects, OthersStay, shareds, pools
<1>4. AddressesDistinct' /\ HandedBelowNext'
  BY <1>1 DEF SharedInv, AddressesDistinct, HandedBelowNext, CallsOwnObjects,
    LockIsHeld, OthersStay, shareds, pools
<1>5. LibraryIsOwn' /\ LibraryIsChecked'
  BY <1>1 DEF SharedInv, LibraryIsOwn, LibraryIsChecked, CallsOwnObjects, LockIsHeld,
    OthersStay, shareds, pools
<1>6. RunHasMessage' /\ RunIsAlone' /\ (SerialUnmarshal => ReadsOwnInput')
  BY <1>1 DEF SharedInv, RunHasMessage, RunIsAlone, ReadsOwnInput, CallsOwnObjects,
    OthersStay, shareds, pools
<1>7. ObjectsHaveOneUser' /\ StackIsDeep'
  BY <1>1 DEF SharedInv, ObjectsHaveOneUser, StackIsDeep, CallsOwnObjects, OthersStay,
    shareds, pools
<1>8. P3IsClean'
  BY <1>1 DEF SharedInv, P3IsClean, ObjectsHaveOneUser, CallsOwnObjects, OthersStay,
    shareds, pools
<1>9. OutcomeIsRecorded'
  BY <1>1 DEF SharedInv, OutcomeIsRecorded, P3IsClean, ObjectsHaveOneUser,
    CallsOwnObjects, OthersStay, shareds, pools
<1> QED
  BY <1>2, <1>3, <1>4, <1>5, <1>6, <1>7, <1>8, <1>9 DEF SharedInv

\* A thunk records a code and panics.
LEMMA LoopFailStep ==
  ASSUME SharedInv, TypeOK', NEW g \in Procs, NEW code \in Codes, LoopFail(g, code)
  PROVE  SharedInv'
<1> USE SharedAssumption
<1>1. /\ UNCHANGED <<shareds, caps, idleP3s, idleStacks, op, msg, result>>
      /\ OthersStay(g) /\ pc[g] = "loop" /\ pc'[g] = "recover"
      /\ \A h \in Procs : h # g => outcome'[h] = outcome[h]
      /\ outcome'[g] = code /\ code # Ok
  BY DEF LoopFail, SharedInv, TypeOK, Goto, OthersStay, Ok
<1>2. /\ op[g].p3 \in Objs /\ p3s'[op[g].p3].err = code
      /\ \A x \in Objs : x # op[g].p3 => p3s'[x] = p3s[x]
  BY DEF LoopFail, SharedInv, TypeOK, OpType, P3Type, CallsOwnObjects
<1>3. CallsOwnObjects'
  BY <1>1, <1>2 DEF SharedInv, CallsOwnObjects, OthersStay, shareds
<1>4. LockIsHeld'
  BY <1>1, <1>2 DEF SharedInv, LockIsHeld, CallsOwnObjects, OthersStay, shareds
<1>5. AddressesDistinct' /\ HandedBelowNext'
  BY <1>1, <1>2 DEF SharedInv, AddressesDistinct, HandedBelowNext, CallsOwnObjects,
    LockIsHeld, OthersStay, shareds
<1>6. LibraryIsOwn' /\ LibraryIsChecked'
  BY <1>1, <1>2 DEF SharedInv, LibraryIsOwn, LibraryIsChecked, CallsOwnObjects,
    LockIsHeld, OthersStay, shareds
<1>7. RunHasMessage' /\ RunIsAlone' /\ (SerialUnmarshal => ReadsOwnInput')
  BY <1>1, <1>2 DEF SharedInv, RunHasMessage, RunIsAlone, ReadsOwnInput,
    CallsOwnObjects, OthersStay, shareds
<1>8. ObjectsHaveOneUser' /\ StackIsDeep'
  BY <1>1, <1>2 DEF SharedInv, ObjectsHaveOneUser, StackIsDeep, CallsOwnObjects,
    OthersStay, shareds
<1>9. P3IsClean'
  <2>1. ASSUME NEW h \in Procs, h # g, pc[h] \in HasP3
        PROVE  p3s'[op[h].p3] = p3s[op[h].p3]
    BY <1>2, <2>1 DEF SharedInv, TypeOK, OpType, CallsOwnObjects, ObjectsHaveOneUser
  <2>2. \A x \in Objs : (\A h \in Procs : op'[h].p3 # x) => p3s'[x].err = Ok
    BY <1>1, <1>2 DEF SharedInv, P3IsClean
  <2> QED
    BY <1>1, <2>1, <2>2 DEF SharedInv, P3IsClean, OthersStay
<1>10. OutcomeIsRecorded'
  <2>1. ASSUME NEW h \in Procs, h # g, pc[h] \in HasP3
        PROVE  p3s'[op[h].p3] = p3s[op[h].p3]
    BY <1>2, <2>1 DEF SharedInv, TypeOK, OpType, CallsOwnObjects, ObjectsHaveOneUser
  <2> QED
    BY <1>1, <1>2, <2>1 DEF SharedInv, OutcomeIsRecorded, OthersStay
<1> QED
  BY <1>3, <1>4, <1>5, <1>6, <1>7, <1>8, <1>9, <1>10 DEF SharedInv

\* The deferred function takes the error out of the p3.
LEMMA RecoverStep ==
  ASSUME SharedInv, TypeOK', NEW g \in Procs, Recover(g)
  PROVE  SharedInv'
<1> USE SharedAssumption
<1>1. /\ UNCHANGED <<shareds, pools, op, msg, outcome>>
      /\ OthersStay(g) /\ pc[g] = "recover" /\ pc'[g] = "putStack"
      /\ \A h \in Procs : h # g => result'[h] = result[h]
  BY DEF Recover, SharedInv, TypeOK, Goto, OthersStay
<1>2. result'[g] = outcome[g]
  BY DEF Recover, SharedInv, TypeOK, OutcomeIsRecorded
<1>3. CallsOwnObjects'
  BY <1>1, <1>2 DEF SharedInv, CallsOwnObjects, OthersStay, shareds, pools
<1>4. LockIsHeld'
  BY <1>1, <1>2 DEF SharedInv, LockIsHeld, CallsOwnObjects, OthersStay, shareds, pools
<1>5. AddressesDistinct' /\ HandedBelowNext'
  BY <1>1, <1>2 DEF SharedInv, AddressesDistinct, HandedBelowNext, CallsOwnObjects,
    LockIsHeld, OthersStay, shareds, pools
<1>6. LibraryIsOwn' /\ LibraryIsChecked'
  BY <1>1, <1>2 DEF SharedInv, LibraryIsOwn, LibraryIsChecked, CallsOwnObjects,
    LockIsHeld, OthersStay, shareds, pools
<1>7. RunHasMessage' /\ RunIsAlone' /\ (SerialUnmarshal => ReadsOwnInput')
  BY <1>1, <1>2 DEF SharedInv, RunHasMessage, RunIsAlone, ReadsOwnInput,
    CallsOwnObjects, OthersStay, shareds, pools
<1>8. ObjectsHaveOneUser' /\ StackIsDeep'
  BY <1>1, <1>2 DEF SharedInv, ObjectsHaveOneUser, StackIsDeep, CallsOwnObjects,
    OthersStay, shareds, pools
<1>9. P3IsClean'
  BY <1>1, <1>2 DEF SharedInv, P3IsClean, ObjectsHaveOneUser, CallsOwnObjects,
    OthersStay, shareds, pools
<1>10. OutcomeIsRecorded'
  BY <1>1, <1>2 DEF SharedInv, OutcomeIsRecorded, P3IsClean, ObjectsHaveOneUser,
    CallsOwnObjects, OthersStay, shareds, pools
<1> QED
  BY <1>3, <1>4, <1>5, <1>6, <1>7, <1>8, <1>9, <1>10 DEF SharedInv

\* The stack goes back to its pool.
LEMMA PutStackStep ==
  ASSUME SharedInv, TypeOK', NEW g \in Procs, PutStack(g)
  PROVE  SharedInv'
<1> USE SharedAssumption
<1>1. /\ UNCHANGED <<shareds, p3s, caps, idleP3s, msg, result, outcome>>
      /\ OthersStay(g) /\ pc[g] = "putStack" /\ pc'[g] = "putP3"
      /\ idleStacks' = idleStacks \cup {op[g].stack}
  BY DEF PutStack, SharedInv, TypeOK, Goto, OthersStay
<1>2. /\ op'[g].stack = None /\ op'[g].p3 = op[g].p3
      /\ op'[g].sh = op[g].sh /\ op'[g].lib = op[g].lib /\ op'[g].input = op[g].input
      /\ op'[g].depth = op[g].depth
  BY DEF PutStack, SharedInv, TypeOK, OpType
<1>3. CallsOwnObjects'
  BY <1>1, <1>2 DEF SharedInv, CallsOwnObjects, OthersStay, shareds
<1>4. LockIsHeld'
  BY <1>1, <1>2 DEF SharedInv, LockIsHeld, CallsOwnObjects, OthersStay, shareds
<1>5. AddressesDistinct' /\ HandedBelowNext'
  BY <1>1, <1>2 DEF SharedInv, AddressesDistinct, HandedBelowNext, CallsOwnObjects,
    LockIsHeld, OthersStay, shareds
<1>6. LibraryIsOwn' /\ LibraryIsChecked'
  BY <1>1, <1>2 DEF SharedInv, LibraryIsOwn, LibraryIsChecked, CallsOwnObjects,
    LockIsHeld, OthersStay, shareds
<1>7. RunHasMessage' /\ RunIsAlone' /\ (SerialUnmarshal => ReadsOwnInput')
  BY <1>1, <1>2 DEF SharedInv, RunHasMessage, RunIsAlone, ReadsOwnInput,
    CallsOwnObjects, OthersStay, shareds
<1>8. ObjectsHaveOneUser' /\ StackIsDeep'
  BY <1>1, <1>2 DEF SharedInv, ObjectsHaveOneUser, StackIsDeep, CallsOwnObjects,
    OthersStay, shareds
<1>9. P3IsClean'
  BY <1>1, <1>2 DEF SharedInv, P3IsClean, ObjectsHaveOneUser, CallsOwnObjects,
    OthersStay, shareds
<1>10. OutcomeIsRecorded'
  BY <1>1, <1>2 DEF SharedInv, OutcomeIsRecorded, P3IsClean, ObjectsHaveOneUser,
    CallsOwnObjects, OthersStay, shareds
<1> QED
  BY <1>3, <1>4, <1>5, <1>6, <1>7, <1>8, <1>9, <1>10 DEF SharedInv

\* The p3 is reset and goes back to its pool.
LEMMA PutP3Step ==
  ASSUME SharedInv, TypeOK', NEW g \in Procs, PutP3(g)
  PROVE  SharedInv'
<1> USE SharedAssumption
<1>1. /\ UNCHANGED <<shareds, caps, idleStacks, msg, result, outcome>>
      /\ OthersStay(g) /\ pc[g] = "putP3" /\ pc'[g] = "unlock"
      /\ idleP3s' = idleP3s \cup {op[g].p3}
  BY DEF PutP3, SharedInv, TypeOK, Goto, OthersStay
<1>2. /\ op'[g].p3 = None /\ op'[g].stack = op[g].stack
      /\ op'[g].sh = op[g].sh /\ op'[g].lib = op[g].lib /\ op'[g].input = op[g].input
      /\ op'[g].depth = op[g].depth
  BY DEF PutP3, SharedInv, TypeOK, OpType
<1>3. /\ op[g].p3 \in Objs /\ p3s'[op[g].p3].err = Ok
      /\ \A x \in Objs : x # op[g].p3 => p3s'[x] = p3s[x]
  BY DEF PutP3, SharedInv, TypeOK, OpType, CallsOwnObjects, ZeroP3
<1>4. CallsOwnObjects'
  BY <1>1, <1>2, <1>3 DEF SharedInv, CallsOwnObjects, OthersStay, shareds
<1>5. LockIsHeld'
  BY <1>1, <1>2, <1>3 DEF SharedInv, LockIsHeld, CallsOwnObjects, OthersStay, shareds
<1>6. AddressesDistinct' /\ HandedBelowNext'
  BY <1>1, <1>2, <1>3 DEF SharedInv, AddressesDistinct, HandedBelowNext,
    CallsOwnObjects, LockIsHeld, OthersStay, shareds
<1>7. LibraryIsOwn' /\ LibraryIsChecked'
  BY <1>1, <1>2, <1>3 DEF SharedInv, LibraryIsOwn, LibraryIsChecked, CallsOwnObjects,
    LockIsHeld, OthersStay, shareds
<1>8. RunHasMessage' /\ RunIsAlone' /\ (SerialUnmarshal => ReadsOwnInput')
  BY <1>1, <1>2, <1>3 DEF SharedInv, RunHasMessage, RunIsAlone, ReadsOwnInput,
    CallsOwnObjects, OthersStay, shareds
<1>9. ObjectsHaveOneUser' /\ StackIsDeep'
  BY <1>1, <1>2, <1>3 DEF SharedInv, ObjectsHaveOneUser, StackIsDeep, CallsOwnObjects,
    OthersStay, shareds
<1>10. P3IsClean'
  <2>1. ASSUME NEW h \in Procs, h # g, pc[h] \in HasP3
        PROVE  p3s'[op[h].p3] = p3s[op[h].p3]
    BY <1>3, <2>1 DEF SharedInv, TypeOK, OpType, CallsOwnObjects, ObjectsHaveOneUser
  <2>2. \A x \in Objs : (\A h \in Procs : op'[h].p3 # x) => p3s'[x].err = Ok
    BY <1>1, <1>2, <1>3 DEF SharedInv, P3IsClean, OthersStay
  <2> QED
    BY <1>1, <2>1, <2>2 DEF SharedInv, P3IsClean, OthersStay
<1>11. OutcomeIsRecorded'
  BY <1>1, <1>2, <1>3 DEF SharedInv, OutcomeIsRecorded, P3IsClean, ObjectsHaveOneUser,
    CallsOwnObjects, TypeOK, OpType, OthersStay, shareds
<1> QED
  BY <1>4, <1>5, <1>6, <1>7, <1>8, <1>9, <1>10, <1>11 DEF SharedInv

\* The call returns.
LEMMA UnlockStep ==
  ASSUME SharedInv, TypeOK', NEW g \in Procs, Unlock(g)
  PROVE  SharedInv'
<1> USE SharedAssumption
<1>1. /\ UNCHANGED <<src, lib, next, handed, p3s, caps, idleP3s, idleStacks, msg, result, outcome>>
      /\ OthersStay(g) /\ pc[g] = "unlock" /\ pc'[g] = "idle"
      /\ lock' = [lock EXCEPT ![op[g].sh] = None]
      /\ op'[g].p3 = None /\ op'[g].stack = None
  BY DEF Unlock, SharedInv, TypeOK, Goto, OthersStay, NoOp, pools
<1>2. CallsOwnObjects'
  BY <1>1 DEF SharedInv, CallsOwnObjects, OthersStay
<1>3. LockIsHeld'
  <2>1. ASSUME NEW h \in Procs, h # g, pc[h] \in HasLock
        PROVE  op[h].sh # op[g].sh /\ lock'[op[h].sh] = h
    BY <1>1, <2>1 DEF SharedInv, LockIsHeld, CallsOwnObjects, TypeOK
  <2> QED
    BY <1>1, <2>1 DEF LockIsHeld, OthersStay
<1>4. AddressesDistinct' /\ HandedBelowNext'
  BY <1>1 DEF SharedInv, AddressesDistinct, HandedBelowNext, CallsOwnObjects,
    LockIsHeld, OthersStay
<1>5. LibraryIsOwn' /\ LibraryIsChecked'
  BY <1>1 DEF SharedInv, LibraryIsOwn, LibraryIsChecked, CallsOwnObjects, LockIsHeld,
    OthersStay
<1>6. RunHasMessage' /\ RunIsAlone' /\ (SerialUnmarshal => ReadsOwnInput')
  BY <1>1 DEF SharedInv, RunHasMessage, RunIsAlone, ReadsOwnInput, CallsOwnObjects,
    OthersStay
<1>7. ObjectsHaveOneUser' /\ StackIsDeep'
  BY <1>1 DEF SharedInv, ObjectsHaveOneUser, StackIsDeep, CallsOwnObjects, OthersStay
<1>8. P3IsClean'
  BY <1>1 DEF SharedInv, P3IsClean, ObjectsHaveOneUser, CallsOwnObjects, OthersStay
<1>9. OutcomeIsRecorded'
  BY <1>1 DEF SharedInv, OutcomeIsRecorded, P3IsClean, ObjectsHaveOneUser,
    CallsOwnObjects, OthersStay
<1> QED
  BY <1>2, <1>3, <1>4, <1>5, <1>6, <1>7, <1>8, <1>9 DEF SharedInv

\* A Shared that no call uses is freed, with every message of it.
LEMMA FreeStep ==
  ASSUME SharedInv, TypeOK', NEW s \in Shareds, Free(s)
  PROVE  SharedInv'
<1> USE SharedAssumption
<1>1. /\ UNCHANGED <<lock, pools, pc, op, result, outcome>>
      /\ \A g \in Procs : pc[g] # "idle" => op[g].sh # s
  BY DEF Free, Uses
<1>2. /\ handed'[s] = <<>>
      /\ \A t \in Shareds : t # s =>
           /\ handed'[t] = handed[t] /\ next'[t] = next[t]
           /\ lib'[t] = lib[t] /\ src'[t] = src[t]
  BY DEF Free, SharedInv, TypeOK
<1>3. \A g \in Procs :
        \/ msg'[g] = None
        \/ msg'[g] = msg[g] /\ msg[g].sh # s /\ msg[g].sh \in Shareds
  <2> TAKE g \in Procs
  <2>1. msg[g] = None \/ msg[g].sh \in Shareds
    BY DEF SharedInv, TypeOK, MsgType
  <2>2. msg'[g] = IF msg[g] # None /\ msg[g].sh = s THEN None ELSE msg[g]
    BY DEF Free
  <2> QED
    BY <2>1, <2>2
<1>4. \A g \in Procs : pc[g] \in InRun => msg'[g] = msg[g]
  BY <1>1 DEF Free, SharedInv, RunHasMessage
<1>5. CallsOwnObjects'
  BY <1>1, <1>2, <1>3, <1>4 DEF SharedInv, CallsOwnObjects, pools
<1>6. LockIsHeld'
  BY <1>1, <1>2, <1>3, <1>4 DEF SharedInv, LockIsHeld, CallsOwnObjects, pools
<1>7. AddressesDistinct' /\ HandedBelowNext'
  BY <1>1, <1>2, <1>3, <1>4 DEF SharedInv, AddressesDistinct, HandedBelowNext,
    CallsOwnObjects, LockIsHeld, pools
<1>8. LibraryIsOwn' /\ LibraryIsChecked'
  BY <1>1, <1>2, <1>3, <1>4 DEF SharedInv, LibraryIsOwn, LibraryIsChecked,
    CallsOwnObjects, LockIsHeld, pools
<1>9. RunHasMessage' /\ RunIsAlone' /\ (SerialUnmarshal => ReadsOwnInput')
  BY <1>1, <1>2, <1>3, <1>4 DEF SharedInv, RunHasMessage, RunIsAlone, ReadsOwnInput,
    CallsOwnObjects, pools
<1>10. ObjectsHaveOneUser' /\ StackIsDeep'
  BY <1>1, <1>2, <1>3, <1>4 DEF SharedInv, ObjectsHaveOneUser, StackIsDeep,
    CallsOwnObjects, pools
<1>11. P3IsClean'
  BY <1>1, <1>2, <1>3, <1>4 DEF SharedInv, P3IsClean, ObjectsHaveOneUser,
    CallsOwnObjects, pools
<1>12. OutcomeIsRecorded'
  BY <1>1, <1>2, <1>3, <1>4 DEF SharedInv, OutcomeIsRecorded, P3IsClean,
    ObjectsHaveOneUser, CallsOwnObjects, pools
<1> QED
  BY <1>5, <1>6, <1>7, <1>8, <1>9, <1>10, <1>11, <1>12 DEF SharedInv

\* The garbage collector empties the pools.
LEMMA CollectStep ==
  ASSUME SharedInv, TypeOK', Collect
  PROVE  SharedInv'
<1> USE SharedAssumption
<1>1. /\ UNCHANGED <<shareds, pc, op, msg, result, outcome>>
      /\ idleP3s' = {} /\ idleStacks' = {}
  BY DEF Collect
<1>2. /\ \A x \in Objs : x \in idleP3s => p3s'[x].err = Ok
      /\ \A x \in Objs : x \notin idleP3s => p3s'[x] = p3s[x]
      /\ \A x \in Objs : x \notin idleStacks => caps'[x] = caps[x]
  BY DEF Collect, ZeroP3
<1>3. \A g \in Procs : /\ pc[g] \in HasP3 => op[g].p3 \in Objs /\ op[g].p3 \notin idleP3s
                       /\ pc[g] \in HasStack => op[g].stack \in Objs /\ op[g].stack \notin idleStacks
  BY DEF SharedInv, TypeOK, OpType, CallsOwnObjects, ObjectsHaveOneUser
<1>4. CallsOwnObjects'
  BY <1>1, <1>2, <1>3 DEF SharedInv, CallsOwnObjects, shareds
<1>5. LockIsHeld'
  BY <1>1, <1>2, <1>3 DEF SharedInv, LockIsHeld, CallsOwnObjects, shareds
<1>6. AddressesDistinct' /\ HandedBelowNext'
  BY <1>1, <1>2, <1>3 DEF SharedInv, AddressesDistinct, HandedBelowNext,
    CallsOwnObjects, LockIsHeld, shareds
<1>7. LibraryIsOwn' /\ LibraryIsChecked'
  BY <1>1, <1>2, <1>3 DEF SharedInv, LibraryIsOwn, LibraryIsChecked, CallsOwnObjects,
    LockIsHeld, shareds
<1>8. RunHasMessage' /\ RunIsAlone' /\ (SerialUnmarshal => ReadsOwnInput')
  BY <1>1, <1>2, <1>3 DEF SharedInv, RunHasMessage, RunIsAlone, ReadsOwnInput,
    CallsOwnObjects, shareds
<1>9. ObjectsHaveOneUser' /\ StackIsDeep'
  BY <1>1, <1>2, <1>3 DEF SharedInv, ObjectsHaveOneUser, StackIsDeep, CallsOwnObjects,
    shareds
<1>10. P3IsClean'
  BY <1>1, <1>2, <1>3 DEF SharedInv, P3IsClean, ObjectsHaveOneUser, CallsOwnObjects,
    shareds
<1>11. OutcomeIsRecorded'
  BY <1>1, <1>2, <1>3 DEF SharedInv, OutcomeIsRecorded, P3IsClean, ObjectsHaveOneUser,
    CallsOwnObjects, shareds
<1> QED
  BY <1>4, <1>5, <1>6, <1>7, <1>8, <1>9, <1>10, <1>11 DEF SharedInv

----------------------------------------------------------------------------

\* Nothing is in use at first.
LEMMA InitInv == Init => SharedInv
<1> SUFFICES ASSUME Init PROVE SharedInv
  OBVIOUS
<1> USE SharedAssumption
<1>1. TypeOK
  BY NoOpType, P3Update DEF Init, TypeOK, Results, Ok, P3Type, ZeroP3
<1>2. /\ \A g \in Procs : /\ pc[g] = "idle" /\ msg[g] = None /\ result[g] = outcome[g]
                          /\ op[g].p3 = None /\ op[g].stack = None
      /\ \A s \in Shareds : handed[s] = <<>>
      /\ \A o \in Objs : p3s[o].err = Ok
  BY DEF Init, NoOp, ZeroP3
<1>3. CallsOwnObjects /\ LockIsHeld /\ ObjectsHaveOneUser /\ P3IsClean
  BY <1>2 DEF CallsOwnObjects, LockIsHeld, ObjectsHaveOneUser, P3IsClean
<1>4. AddressesDistinct /\ HandedBelowNext
  BY <1>2 DEF AddressesDistinct, HandedBelowNext
<1>5. LibraryIsOwn /\ LibraryIsChecked /\ RunHasMessage /\ RunIsAlone /\ ReadsOwnInput
  BY <1>2 DEF LibraryIsOwn, LibraryIsChecked, RunHasMessage, RunIsAlone, ReadsOwnInput
<1>6. OutcomeIsRecorded /\ StackIsDeep
  BY <1>2 DEF OutcomeIsRecorded, StackIsDeep
<1> QED
  BY <1>1, <1>3, <1>4, <1>5, <1>6 DEF SharedInv

\* A step that changes nothing.
LEMMA StutterStep ==
  ASSUME SharedInv, TypeOK', UNCHANGED vars
  PROVE  SharedInv'
<1> USE DEF vars, shareds, pools
<1>1. CallsOwnObjects' /\ LockIsHeld' /\ AddressesDistinct' /\ HandedBelowNext'
  BY DEF SharedInv, CallsOwnObjects, LockIsHeld, AddressesDistinct, HandedBelowNext
<1>2. LibraryIsOwn' /\ LibraryIsChecked' /\ RunHasMessage' /\ RunIsAlone'
  BY DEF SharedInv, LibraryIsOwn, LibraryIsChecked, RunHasMessage, RunIsAlone
<1>3. /\ ObjectsHaveOneUser' /\ P3IsClean' /\ OutcomeIsRecorded' /\ StackIsDeep'
      /\ SerialUnmarshal => ReadsOwnInput'
  BY DEF SharedInv, ObjectsHaveOneUser, P3IsClean, OutcomeIsRecorded, StackIsDeep,
    ReadsOwnInput
<1> QED
  BY <1>1, <1>2, <1>3 DEF SharedInv

\* Every step of every goroutine, of Free and of the garbage collector keeps the
\* invariant.
LEMMA NextInv == SharedInv /\ [Next]_vars => SharedInv'
<1> SUFFICES ASSUME SharedInv, [Next]_vars PROVE SharedInv'
  OBVIOUS
<1>1. TypeOK'
  BY TypeStep
<1>2. ASSUME NEW g \in Procs, RunInUse(g) \/ RunTooBig(g) \/ RunEmpty(g)
      PROVE  SharedInv'
  <2>1. pc[g] = "idle" /\ \E r \in {"inUse", "TooBig", Ok} : Return(g, r)
    BY <1>2 DEF RunInUse, RunTooBig, RunEmpty
  <2>2. {"inUse", "TooBig", Ok} \subseteq Results
    BY DEF Results
  <2> QED
    BY <1>1, <2>1, <2>2, ReturnStep
<1>3. ASSUME NEW g \in Procs, Step(g)
      PROVE  SharedInv'
  <2>1. CASE NewLib(g) \/ NewAlloc(g) \/ NewStore(g)
    BY <1>1, <2>1, NewLibStep, AllocStep, NewStoreStep
  <2>2. ASSUME NEW o \in Objs, GetP3(g, o) \/ GetStack(g, o)
        PROVE  SharedInv'
    BY <1>1, <2>2, GetP3Step, GetStackStep
  <2>3. CASE LoopAlloc(g) \/ LoopStore(g) \/ LoopDone(g) \/ LoopPanic(g)
    BY <1>1, <2>3, AllocStep, LoopStoreStep, LoopEndStep
  <2>4. ASSUME NEW code \in Codes, LoopFail(g, code)
        PROVE  SharedInv'
    BY <1>1, <2>4, LoopFailStep
  <2>5. CASE Recover(g) \/ PutStack(g) \/ PutP3(g) \/ Unlock(g)
    BY <1>1, <2>5, RecoverStep, PutStackStep, PutP3Step, UnlockStep
  <2> QED
    BY <1>3, <2>1, <2>2, <2>3, <2>4, <2>5 DEF Step
<1>4. ASSUME NEW g \in Procs, NEW s \in Shareds, NEW l \in Libs, StartNew(g, s, l)
      PROVE  SharedInv'
  BY <1>1, <1>4, StartNewStep
<1>5. ASSUME NEW g \in Procs, NEW input \in Inputs, NEW depth \in Depths, StartRun(g, input, depth)
      PROVE  SharedInv'
  BY <1>1, <1>5, StartRunStep
<1>6. ASSUME NEW g \in Procs, Locks(g)
      PROVE  SharedInv'
  BY <1>1, <1>6, LockStep
<1>7. ASSUME NEW s \in Shareds, Free(s)
      PROVE  SharedInv'
  BY <1>1, <1>7, FreeStep
<1>8. CASE Collect
  BY <1>1, <1>8, CollectStep
<1>9. CASE UNCHANGED vars
  BY <1>1, <1>9, StutterStep
<1> QED
  BY <1>2, <1>3, <1>4, <1>5, <1>6, <1>7, <1>8, <1>9 DEF Next

\* However the goroutines that use Shared values interleave, and whenever pools are
\* emptied: the invariant holds.
THEOREM SharedInvariance == Spec => []SharedInv
<1>1. Init => SharedInv
  BY InitInv
<1>2. SharedInv /\ [Next]_vars => SharedInv'
  BY NextInv
<1> QED
  BY <1>1, <1>2, PTL DEF Spec

\* The Shared values, the pools and the goroutines have their types.
THEOREM SharedTypes == Spec => []TypeOK
<1>1. SharedInv => TypeOK
  BY DEF SharedInv
<1> QED
  BY <1>1, SharedInvariance, PTL

\* New and Run hand out no address of an arena twice: whoever has read Next holds
\* the lock until it has written it back.
THEOREM NoAddressTwice == Spec => []AddressesDistinct
<1>1. SharedInv => AddressesDistinct
  BY DEF SharedInv
<1> QED
  BY <1>1, SharedInvariance, PTL

\* A message's Shared has the library the message was created with.
THEOREM LibraryStays == Spec => []LibraryIsOwn
<1>1. SharedInv => LibraryIsOwn
  BY DEF SharedInv
<1> QED
  BY <1>1, SharedInvariance, PTL

\* Run returns the error of its own parse, not one left in a pooled p3.
THEOREM OwnErrorReturned == Spec => []ErrorIsOwn
<1>1. SharedInv => ErrorIsOwn
  BY DEF SharedInv, OutcomeIsRecorded, ErrorIsOwn
<1> QED
  BY <1>1, SharedInvariance, PTL

\* No two parses push to one stack, and no stack is shallower than its parse may go.
THEOREM OwnStackUsed == Spec => []StackIsOwn
<1>1. SharedInv => StackIsOwn
  BY DEF SharedInv, CallsOwnObjects, ObjectsHaveOneUser, StackIsDeep, StackIsOwn
<1> QED
  BY <1>1, SharedInvariance, PTL

\* If clients unmarshal into one Shared one at a time, a message reads the input it
\* was parsed from.
THEOREM OwnInputRead ==
  ASSUME SerialUnmarshal
  PROVE  Spec => []ReadsOwnInput
<1>1. SharedInv => ReadsOwnInput
  BY DEF SharedInv
<1> QED
  BY <1>1, SharedInvariance, PTL

=============================================================================
