------------------------------- MODULE Shared -------------------------------
(***************************************************************************)
(* dynamic.Shared, the state that the messages of one tree share, and what *)
(* vm.Run does around the parser loop: the check that the Shared is free,  *)
(* the lock, the pools that parser states (p3) and parser stacks are taken *)
(* from and returned to, and the deferred function that turns a failure    *)
(* into an error.                                                          *)
(*                                                                         *)
(* Goroutines interleave between any two steps.  The parser loop itself is *)
(* module Parser; here it allocates, and then succeeds, fails, or panics.  *)
(* The arena is its bump pointer, which is read and written in two steps.  *)
(***************************************************************************)
EXTENDS Integers, Sequences, FiniteSets

CONSTANTS
  Procs,    \* goroutines
  Shareds,  \* Shared values
  Libs,     \* libraries that message types come from
  Inputs,   \* nonempty inputs
  Depths,   \* values of WithMaxDepth
  Codes,    \* the ways the loop can fail
  Objs,     \* identities of pooled objects
  MaxAddr,  \* bound: allocations per Shared between two Frees
  SerialUnmarshal, \* whether clients unmarshal into one Shared one at a time
  None

ASSUME SharedAssumption ==
  /\ Depths \subseteq Nat /\ MaxAddr \in Nat /\ SerialUnmarshal \in BOOLEAN
  /\ None \notin Procs \cup Shareds \cup Libs \cup Inputs \cup Codes \cup Objs
  /\ Codes \cap {"ok", "mixed", "inUse", "panic", "TooBig"} = {}

\* None is no message either.
ASSUME NoneIsNoMessage == None \notin [sh : Shareds, lib : Libs, input : Inputs \cup {None}]

VARIABLES
  lock,    \* Shared.Lock: its holder, or None
  src,     \* Shared.Src
  lib,     \* Shared.lib
  next,    \* the bump pointer of Shared.arena
  handed,  \* history: addresses handed out since the last Free
  p3s,     \* contents of every p3: [err, depth]
  caps,    \* capacity of every stack
  idleP3s, \* p3Pool
  idleStacks, \* stackPool
  pc,      \* where each goroutine is
  op,      \* the locals of its call
  msg,     \* the message it holds, or None
  result,  \* what its last call returned
  outcome  \* history: how the loop of its last call ended

shareds == <<lock, src, lib, next, handed>>
pools == <<p3s, caps, idleP3s, idleStacks>>
vars == <<shareds, pools, pc, op, msg, result, outcome>>

Ok == "ok"
ZeroP3 == [err |-> Ok, depth |-> 0]
NoOp == [sh |-> None, lib |-> None, input |-> None, depth |-> 0,
         bump |-> 0, p3 |-> None, stack |-> None]

InNew == {"newLock", "newLib", "newAlloc", "newStore"}
InLoop == {"loop", "loopStore"}
InRun == {"runLock", "getP3", "getStack", "recover", "putStack", "putP3"} \cup InLoop

Uses(g, s) == pc[g] # "idle" /\ op[g].sh = s
Room(s) == next[s] + Cardinality({g \in Procs : pc[g] \in InNew /\ op[g].sh = s}) < MaxAddr

Init ==
  /\ lock = [s \in Shareds |-> None] /\ src = [s \in Shareds |-> None]
  /\ lib = [s \in Shareds |-> None] /\ next = [s \in Shareds |-> 0]
  /\ handed = [s \in Shareds |-> <<>>]
  /\ p3s = [o \in Objs |-> ZeroP3] /\ caps = [o \in Objs |-> 0]
  /\ idleP3s = {} /\ idleStacks = {}
  /\ pc = [g \in Procs |-> "idle"] /\ op = [g \in Procs |-> NoOp]
  /\ msg = [g \in Procs |-> None]
  /\ result = [g \in Procs |-> Ok] /\ outcome = [g \in Procs |-> Ok]

Goto(g, label) == pc' = [pc EXCEPT ![g] = label]

\* What the last call returned is forgotten when the next one starts.
NoResult(g) ==
  /\ result' = [result EXCEPT ![g] = Ok]
  /\ outcome' = [outcome EXCEPT ![g] = Ok]

\* A call returns without having touched the Shared.
Return(g, r) ==
  /\ result' = [result EXCEPT ![g] = r]
  /\ outcome' = [outcome EXCEPT ![g] = r]
  /\ UNCHANGED <<shareds, pools, pc, op, msg>>

\* Lock.Lock()
Acquire(g) == lock[op[g].sh] = None /\ lock' = [lock EXCEPT ![op[g].sh] = g]

\* Mutant of Unlock: it is not deferred, and a panic leaves the lock held.
UnlockUnlessPanic(g) ==
  /\ pc[g] = "unlock"
  /\ lock' = [lock EXCEPT ![op[g].sh] = IF outcome[g] \in {"panic", "mixed"} THEN @ ELSE None]
  /\ Goto(g, "idle")
  /\ op' = [op EXCEPT ![g] = NoOp]
  /\ UNCHANGED <<src, lib, next, handed, pools, msg, result, outcome>>

\* Lock.Unlock(), deferred, so that it is done however the call ends.
Unlock(g) ==
  /\ pc[g] = "unlock"
  /\ lock' = [lock EXCEPT ![op[g].sh] = None]
  /\ Goto(g, "idle")
  /\ op' = [op EXCEPT ![g] = NoOp]
  /\ UNCHANGED <<src, lib, next, handed, pools, msg, result, outcome>>

\* The arena allocates in two steps: read Next, write it back.
ReadNext(g) == op' = [op EXCEPT ![g].bump = next[op[g].sh]]
WriteNext(g) ==
  /\ next' = [next EXCEPT ![op[g].sh] = op[g].bump + 1]
  /\ handed' = [handed EXCEPT ![op[g].sh] = Append(@, op[g].bump)]

----------------------------------------------------------------------------
(* Shared.New *)

StartNew(g, s, l) ==
  /\ pc[g] = "idle" /\ Room(s)
  /\ op' = [op EXCEPT ![g] = [NoOp EXCEPT !.sh = s, !.lib = l]]
  /\ Goto(g, "newLock")
  /\ NoResult(g)
  /\ UNCHANGED <<shareds, pools, msg>>

\* Mutant of NewLock: New does not take the lock.
NewUnlocked(g) ==
  /\ pc[g] = "newLock"
  /\ Goto(g, "newLib")
  /\ UNCHANGED <<shareds, pools, op, msg, result, outcome>>

NewLock(g) ==
  /\ pc[g] = "newLock"
  /\ Acquire(g)
  /\ Goto(g, "newLib")
  /\ UNCHANGED <<src, lib, next, handed, pools, op, msg, result, outcome>>

\* Mutant of NewLib: the last library wins.
NewLibReplaced(g) ==
  /\ pc[g] = "newLib"
  /\ lib' = [lib EXCEPT ![op[g].sh] = op[g].lib]
  /\ Goto(g, "newAlloc")
  /\ UNCHANGED <<lock, src, next, handed, pools, op, msg, result, outcome>>

\* The first message fixes the library; mixing libraries panics.
NewLib(g) ==
  /\ pc[g] = "newLib"
  /\ IF lib[op[g].sh] \in {None, op[g].lib}
     THEN /\ lib' = [lib EXCEPT ![op[g].sh] = op[g].lib]
          /\ Goto(g, "newAlloc")
          /\ UNCHANGED <<result, outcome>>
     ELSE /\ result' = [result EXCEPT ![g] = "mixed"]
          /\ outcome' = [outcome EXCEPT ![g] = "mixed"]
          /\ Goto(g, "unlock")
          /\ UNCHANGED lib
  /\ UNCHANGED <<lock, src, next, handed, pools, op, msg>>

NewAlloc(g) ==
  /\ pc[g] = "newAlloc"
  /\ ReadNext(g)
  /\ Goto(g, "newStore")
  /\ UNCHANGED <<shareds, pools, msg, result, outcome>>

NewStore(g) ==
  /\ pc[g] = "newStore"
  /\ WriteNext(g)
  /\ msg' = [msg EXCEPT ![g] = [sh |-> op[g].sh, lib |-> op[g].lib, input |-> None]]
  /\ Goto(g, "unlock")
  /\ UNCHANGED <<lock, src, lib, pools, op, result, outcome>>

----------------------------------------------------------------------------
(* Run *)

\* The checks before the lock is taken: an in-use Shared panics, too large an
\* input is refused, and an empty one parses to an empty message.
RunInUse(g) ==
  /\ pc[g] = "idle" /\ msg[g] # None /\ src[msg[g].sh] # None
  /\ Return(g, "inUse")

RunTooBig(g) ==
  /\ pc[g] = "idle" /\ msg[g] # None /\ src[msg[g].sh] = None
  /\ Return(g, "TooBig")

RunEmpty(g) ==
  /\ pc[g] = "idle" /\ msg[g] # None /\ src[msg[g].sh] = None
  /\ Return(g, Ok)

\* Mutant of StartRun: whether the Shared is in use is not checked.
StartRunUnchecked(g, input, depth) ==
  /\ pc[g] = "idle" /\ msg[g] # None
  /\ SerialUnmarshal => \A h \in Procs : pc[h] \in InRun => op[h].sh # msg[g].sh
  /\ op' = [op EXCEPT ![g] = [NoOp EXCEPT !.sh = msg[g].sh, !.input = input, !.depth = depth]]
  /\ Goto(g, "runLock")
  /\ NoResult(g)
  /\ UNCHANGED <<shareds, pools, msg>>

\* The client that unmarshals one at a time is the assumption, not the code.
StartRun(g, input, depth) ==
  /\ pc[g] = "idle" /\ msg[g] # None /\ src[msg[g].sh] = None
  /\ SerialUnmarshal => \A h \in Procs : pc[h] \in InRun => op[h].sh # msg[g].sh
  /\ op' = [op EXCEPT ![g] = [NoOp EXCEPT !.sh = msg[g].sh, !.input = input, !.depth = depth]]
  /\ Goto(g, "runLock")
  /\ NoResult(g)
  /\ UNCHANGED <<shareds, pools, msg>>

RunLock(g) ==
  /\ pc[g] = "runLock"
  /\ Acquire(g)
  /\ Goto(g, "getP3")
  /\ UNCHANGED <<src, lib, next, handed, pools, op, msg, result, outcome>>

\* Pool.Get: an idle object, or a new, zero one.
FreshP3 == {o \in Objs : o \notin idleP3s /\ \A g \in Procs : op[g].p3 # o}
FreshStack == {o \in Objs : o \notin idleStacks /\ \A g \in Procs : op[g].stack # o}

\* Mutant of GetP3: no stack is taken from its pool.
GetP3Only(g, o) ==
  /\ pc[g] = "getP3" /\ o \in idleP3s \cup FreshP3
  /\ idleP3s' = idleP3s \ {o}
  /\ p3s' = [p3s EXCEPT ![o].depth = op[g].depth]
  /\ src' = [src EXCEPT ![op[g].sh] = op[g].input]
  /\ msg' = [msg EXCEPT ![g].input = op[g].input]
  /\ op' = [op EXCEPT ![g].p3 = o]
  /\ Goto(g, "loop")
  /\ UNCHANGED <<lock, lib, next, handed, caps, idleStacks, result, outcome>>

\* p3Pool.Get, then Options, Src and Len are set.  From here on the message
\* refers to the input through Shared.Src.
GetP3(g, o) ==
  /\ pc[g] = "getP3" /\ o \in idleP3s \cup FreshP3
  /\ idleP3s' = idleP3s \ {o}
  /\ p3s' = [p3s EXCEPT ![o].depth = op[g].depth]
  /\ src' = [src EXCEPT ![op[g].sh] = op[g].input]
  /\ msg' = [msg EXCEPT ![g].input = op[g].input]
  /\ op' = [op EXCEPT ![g].p3 = o]
  /\ Goto(g, "getStack")
  /\ UNCHANGED <<lock, lib, next, handed, caps, idleStacks, result, outcome>>

\* Mutant of GetStack: a pooled stack is used as it is.
GetStackAsIs(g, o) ==
  /\ pc[g] = "getStack" /\ o \in idleStacks \cup FreshStack
  /\ idleStacks' = idleStacks \ {o}
  /\ caps' = [caps EXCEPT ![o] = IF o \in idleStacks THEN @ ELSE p3s[op[g].p3].depth]
  /\ op' = [op EXCEPT ![g].stack = o]
  /\ Goto(g, "loop")
  /\ UNCHANGED <<shareds, p3s, idleP3s, msg, result, outcome>>

\* stackPool.Get; a stack that is too small is replaced.
GetStack(g, o) ==
  /\ pc[g] = "getStack" /\ o \in idleStacks \cup FreshStack
  /\ idleStacks' = idleStacks \ {o}
  /\ LET depth == p3s[op[g].p3].depth
     IN  caps' = [caps EXCEPT ![o] = IF @ < depth THEN depth ELSE @]
  /\ op' = [op EXCEPT ![g].stack = o]
  /\ Goto(g, "loop")
  /\ UNCHANGED <<shareds, p3s, idleP3s, msg, result, outcome>>

\* A thunk allocates.
LoopAlloc(g) ==
  /\ pc[g] = "loop" /\ Room(op[g].sh)
  /\ ReadNext(g)
  /\ Goto(g, "loopStore")
  /\ UNCHANGED <<shareds, pools, msg, result, outcome>>

LoopStore(g) ==
  /\ pc[g] = "loopStore"
  /\ WriteNext(g)
  /\ Goto(g, "loop")
  /\ UNCHANGED <<lock, src, lib, pools, op, msg, result, outcome>>

LoopDone(g) ==
  /\ pc[g] = "loop"
  /\ Goto(g, "putStack")
  /\ UNCHANGED <<shareds, pools, op, msg, result, outcome>>

\* P1.Fail: record the code, panic.
LoopFail(g, code) ==
  /\ pc[g] = "loop"
  /\ p3s' = [p3s EXCEPT ![op[g].p3].err = code]
  /\ outcome' = [outcome EXCEPT ![g] = code]
  /\ Goto(g, "recover")
  /\ UNCHANGED <<shareds, caps, idleP3s, idleStacks, op, msg, result>>

\* Any other panic.
LoopPanic(g) ==
  /\ pc[g] = "loop"
  /\ outcome' = [outcome EXCEPT ![g] = "panic"]
  /\ Goto(g, "recover")
  /\ UNCHANGED <<shareds, pools, op, msg, result>>

\* The deferred function recovers only if a code was recorded, and copies the
\* error because p3 is about to be reused; otherwise the panic goes on.
Recover(g) ==
  /\ pc[g] = "recover"
  /\ result' = [result EXCEPT ![g] = IF p3s[op[g].p3].err # Ok THEN p3s[op[g].p3].err ELSE "panic"]
  /\ Goto(g, "putStack")
  /\ UNCHANGED <<shareds, pools, op, msg, outcome>>

\* stackPool.Put
PutStack(g) ==
  /\ pc[g] = "putStack"
  /\ idleStacks' = idleStacks \cup {op[g].stack}
  /\ op' = [op EXCEPT ![g].stack = None]
  /\ Goto(g, "putP3")
  /\ UNCHANGED <<shareds, p3s, caps, idleP3s, msg, result, outcome>>

\* Mutant of PutP3: no Reset.
PutP3AsIs(g) ==
  /\ pc[g] = "putP3"
  /\ idleP3s' = idleP3s \cup {op[g].p3}
  /\ op' = [op EXCEPT ![g].p3 = None]
  /\ Goto(g, "unlock")
  /\ UNCHANGED <<shareds, p3s, caps, idleStacks, msg, result, outcome>>

\* p3Pool.Put, which resets what it is given.
PutP3(g) ==
  /\ pc[g] = "putP3"
  /\ p3s' = [p3s EXCEPT ![op[g].p3] = ZeroP3]
  /\ idleP3s' = idleP3s \cup {op[g].p3}
  /\ op' = [op EXCEPT ![g].p3 = None]
  /\ Goto(g, "unlock")
  /\ UNCHANGED <<shareds, caps, idleStacks, msg, result, outcome>>

----------------------------------------------------------------------------

\* Shared.Free, which takes no lock: its caller must be alone, and must drop
\* every message of the Shared.
Free(s) ==
  /\ next[s] > 0 /\ \A g \in Procs : ~Uses(g, s)
  /\ next' = [next EXCEPT ![s] = 0] /\ handed' = [handed EXCEPT ![s] = <<>>]
  /\ lib' = [lib EXCEPT ![s] = None] /\ src' = [src EXCEPT ![s] = None]
  /\ msg' = [g \in Procs |-> IF msg[g] # None /\ msg[g].sh = s THEN None ELSE msg[g]]
  /\ UNCHANGED <<lock, pools, pc, op, result, outcome>>

\* The garbage collector empties pools.  It runs when it likes, also when they
\* are empty; then it changes nothing.
Collect ==
  /\ idleP3s' = {} /\ idleStacks' = {}
  /\ p3s' = [o \in Objs |-> IF o \in idleP3s THEN ZeroP3 ELSE p3s[o]]
  /\ caps' = [o \in Objs |-> IF o \in idleStacks THEN 0 ELSE caps[o]]
  /\ UNCHANGED <<shareds, pc, op, msg, result, outcome>>

Locks(g) == NewLock(g) \/ RunLock(g)

\* The steps a goroutine takes once it is inside a call.
Step(g) ==
  \/ NewLib(g) \/ NewAlloc(g) \/ NewStore(g)
  \/ \E o \in Objs : GetP3(g, o) \/ GetStack(g, o)
  \/ LoopAlloc(g) \/ LoopStore(g) \/ LoopDone(g) \/ LoopPanic(g)
  \/ \E code \in Codes : LoopFail(g, code)
  \/ Recover(g) \/ PutStack(g) \/ PutP3(g) \/ Unlock(g)

Next ==
  \/ \E g \in Procs :
       \/ \E s \in Shareds, l \in Libs : StartNew(g, s, l)
       \/ RunInUse(g) \/ RunTooBig(g) \/ RunEmpty(g)
       \/ \E input \in Inputs, depth \in Depths : StartRun(g, input, depth)
       \/ Locks(g) \/ Step(g)
  \/ \E s \in Shareds : Free(s)
  \/ Collect

\* A goroutine inside a call keeps running, and Go's mutex hands itself to
\* whoever has waited too long.
Fairness == \A g \in Procs : WF_vars(Step(g)) /\ SF_vars(Locks(g))

Spec == Init /\ [][Next]_vars /\ Fairness

----------------------------------------------------------------------------
(* Properties *)

Results == Codes \cup {Ok, "mixed", "inUse", "panic", "TooBig"}

OpType ==
  [sh : Shareds \cup {None}, lib : Libs \cup {None}, input : Inputs \cup {None},
   depth : Nat, bump : Nat, p3 : Objs \cup {None}, stack : Objs \cup {None}]
MsgType == [sh : Shareds, lib : Libs, input : Inputs \cup {None}]
P3Type == [err : Codes \cup {Ok}, depth : Nat]

\* Types of the Shared values, the pools and the goroutines.
TypeOK ==
  /\ lock \in [Shareds -> Procs \cup {None}] /\ src \in [Shareds -> Inputs \cup {None}]
  /\ lib \in [Shareds -> Libs \cup {None}]
  /\ next \in [Shareds -> Nat] /\ handed \in [Shareds -> Seq(Nat)]
  /\ p3s \in [Objs -> P3Type] /\ caps \in [Objs -> Nat]
  /\ idleP3s \subseteq Objs /\ idleStacks \subseteq Objs
  /\ pc \in [Procs -> {"idle", "unlock"} \cup InNew \cup InRun]
  /\ op \in [Procs -> OpType] /\ msg \in [Procs -> MsgType \cup {None}]
  /\ result \in [Procs -> Results] /\ outcome \in [Procs -> Results]

\* No address of a Shared's arena is handed out twice between two Frees,
\* although goroutines create messages and parse into them at the same time.
AddressesDistinct ==
  \A s \in Shareds : \A i, j \in 1 .. Len(handed[s]) :
    i # j => handed[s][i] # handed[s][j]

\* A message finds its type through the library its Shared has now; that is
\* the library it was created with.
LibraryIsOwn ==
  \A g \in Procs : msg[g] # None => lib[msg[g].sh] = msg[g].lib

\* A message reads its strings through the Src its Shared has now; that is the
\* input it was parsed from.
ReadsOwnInput ==
  \A g \in Procs :
    msg[g] # None /\ msg[g].input # None => src[msg[g].sh] = msg[g].input

\* A call returns how its own parse ended, although the p3 that recorded the
\* failure is reused by other parses.
ErrorIsOwn == \A g \in Procs : pc[g] = "idle" => result[g] = outcome[g]

\* The stack a parse pushes to is its own and as deep as its options ask,
\* whatever depth the pooled stack was made for.
StackIsOwn ==
  \A g \in Procs : pc[g] \in InLoop =>
    /\ caps[op[g].stack] >= op[g].depth
    /\ op[g].stack \notin idleStacks
    /\ \A h \in Procs : h # g => op[h].stack # op[g].stack

\* Every call returns: the lock is released however the call before it ended.
CallsReturn == \A g \in Procs : pc[g] # "idle" ~> pc[g] = "idle"

----------------------------------------------------------------------------
(* The inductive invariant *)

\* Where a goroutine holds the lock, a p3, a stack.
HasStack == {"recover", "putStack"} \cup InLoop
HasP3 == {"getStack", "putP3"} \cup HasStack
HasLock == {"newLib", "newAlloc", "newStore", "getP3", "unlock"} \cup HasP3

\* A call has a Shared, and the pooled objects its place in the code says.
CallsOwnObjects ==
  \A g \in Procs :
    /\ pc[g] # "idle" => op[g].sh \in Shareds
    /\ op[g].p3 # None <=> pc[g] \in HasP3
    /\ op[g].stack # None <=> pc[g] \in HasStack

\* The lock is held by the goroutine that is between Lock and Unlock.
LockIsHeld == \A g \in Procs : pc[g] \in HasLock => lock[op[g].sh] = g

\* Addresses handed out are below Next, and a Next that was read is still current.
HandedBelowNext ==
  /\ \A s \in Shareds : \A i \in 1 .. Len(handed[s]) : handed[s][i] < next[s]
  /\ \A g \in Procs :
       pc[g] \in {"newStore", "loopStore"} => op[g].bump = next[op[g].sh]

\* New has a library, and once it has passed the check it is the Shared's.
LibraryIsChecked ==
  \A g \in Procs :
    /\ pc[g] \in InNew => op[g].lib \in Libs
    /\ pc[g] \in {"newAlloc", "newStore"} => lib[op[g].sh] = op[g].lib

\* A parse has an input and a message of the Shared it locks.
RunHasMessage ==
  \A g \in Procs :
    pc[g] \in InRun => msg[g] # None /\ msg[g].sh = op[g].sh /\ op[g].input \in Inputs

\* Of clients that unmarshal one at a time, one is in Run, and what it found by the
\* unlocked check still holds when it has the lock.
RunIsAlone ==
  SerialUnmarshal =>
    /\ \A g, h \in Procs :
         g # h /\ pc[g] \in InRun /\ pc[h] \in InRun => op[g].sh # op[h].sh
    /\ \A g \in Procs : pc[g] \in {"runLock", "getP3"} => src[op[g].sh] = None

\* A pooled object is idle or has one user.
ObjectsHaveOneUser ==
  \A g \in Procs :
    /\ op[g].p3 # None =>
         op[g].p3 \notin idleP3s /\ \A h \in Procs : h # g => op[h].p3 # op[g].p3
    /\ op[g].stack # None =>
         op[g].stack \notin idleStacks /\ \A h \in Procs : h # g => op[h].stack # op[g].stack

\* A p3 that nobody uses records no error; one in use has the options of its user,
\* and no error before its user's loop has failed.
P3IsClean ==
  /\ \A o \in Objs : (\A g \in Procs : op[g].p3 # o) => p3s[o].err = Ok
  /\ \A g \in Procs :
       /\ pc[g] = "getStack" => p3s[op[g].p3].depth = op[g].depth
       /\ pc[g] \in {"getStack"} \cup InLoop => p3s[op[g].p3].err = Ok

\* Outside the deferred function a call's result is how its parse ended; in it the
\* p3 knows.
OutcomeIsRecorded ==
  \A g \in Procs :
    /\ pc[g] # "recover" => result[g] = outcome[g]
    /\ pc[g] = "recover" =>
         \/ outcome[g] = "panic" /\ p3s[op[g].p3].err = Ok
         \/ outcome[g] # Ok /\ p3s[op[g].p3].err = outcome[g]

\* The capacity of a stack in use is at least the depth its user asked for.
StackIsDeep == \A g \in Procs : pc[g] \in InLoop => caps[op[g].stack] >= op[g].depth

\* What the code relies on, step by step, for the properties above.
SharedInv ==
  /\ TypeOK /\ CallsOwnObjects /\ LockIsHeld
  /\ AddressesDistinct /\ HandedBelowNext
  /\ LibraryIsOwn /\ LibraryIsChecked
  /\ RunHasMessage /\ RunIsAlone /\ (SerialUnmarshal => ReadsOwnInput)
  /\ ObjectsHaveOneUser /\ P3IsClean /\ OutcomeIsRecorded /\ StackIsDeep

=============================================================================
